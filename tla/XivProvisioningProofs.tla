----------------------- MODULE XivProvisioningProofs ------------------------
(***************************************************************************)
(* The safety of provisioning on a XIV for any number of calls, names,     *)
(* sizes, failures and restarts.                                           *)
(***************************************************************************)
EXTENDS XivProvisioning, FiniteSetTheorems, TLAPS

Ops == Creates \cup Deletes \cup {"Expand"}

Statuses == {"OK", "NOT_FOUND", "ALREADY_EXISTS", "INVALID_ARGUMENT", "OUT_OF_RANGE",
             "FAILED_PRECONDITION", "PERMISSION_DENIED", "RESOURCE_EXHAUSTED", "INTERNAL"}

\* The steps of a deletion or a rollback, and those behind the lookup of the name.
Removing == {"snapshots", "rmvolume", "rmsnapshot"}
Undoing  == {"find", "snapshots", "rmvolume"}

Snapping  == {"slook", "smaster", "ssource", "snap", "cmaster"}
Expanding == {"xlook", "xfind", "xresize", "xafter"}

\* The errors that the interface explains, and foreign ones.
Methods    == {"create_volume", "copy_to_existing_volume_from_source", "delete_volume", "get_volume",
               "expand_volume", "get_snapshot", "get_object_by_id", "create_snapshot", "delete_snapshot"}
Exceptions == ObjectErrorClasses \cup SnapshotErrorClasses \cup ForeignErrors
Explained(err) == err \in Undeclared \/ err.ex \in Raises(err.by) \/ err.ex \in ForeignErrors
Raised     == {err \in [by : Methods, ex : Exceptions] : Explained(err)}
Errs       == Raised \cup {NoError}

Objects  == [name : Names, blocks : Nat, master : Nat, copied : Nat, data : Nat]
CallRecs == [op : Ops \cup {"none"}, name : Names, size : Nat, id : Nat, source : Nat,
             kind : {"volume", "snapshot"}]
Pcs      == {"idle", "lookup", "create"} \cup Copying \cup Snapping \cup Undoing \cup Removing
                \cup Expanding
LocRecs  == [pc : Pcs, call : CallRecs, id : Nat, from : Names, blocks : Nat, undo : Errs, tries : 0..Tries,
             rounds : 0..2]
AnswerRecs == [call : CallRecs, status : Statuses, id : Nat, err : Errs]

\* The array: names are unique, and a snapshot has a volume.
Arrayed ==
    /\ nextId \in Nat \ {0, 1}
    /\ object \in [Ids -> Objects \cup {NoObject}]
    /\ \A i \in Ids : Exists(i) => i < nextId
    /\ \A i, j \in Ids : Exists(i) /\ Exists(j) /\ object[i].name = object[j].name => i = j
    /\ \A i \in Ids : Exists(i) /\ IsSnapshot(i) =>
          \E k \in Ids : k = object[i].master /\ Exists(k) /\ ~IsSnapshot(k)

\* A thread: its step is one of its call's.
InStep(l) ==
    /\ l.pc = "idle" => l = Idle
    /\ l.pc # "idle" => l.call.op # "none"
    /\ l.pc \in {"lookup", "create"} \cup Copying => l.call.op = "CreateVolume" /\ l.undo = NoError
    /\ l.pc \in Snapping => l.call.op = "CreateSnapshot" /\ l.undo = NoError
    /\ l.pc \in Undoing => l.call.op \in Deletes \cup {"CreateVolume"}
    /\ l.pc \in {"snapshots", "rmvolume"} => l.call.op # "DeleteSnapshot"
    /\ l.pc = "rmsnapshot" => l.call.op = "DeleteSnapshot"
    /\ l.pc \in Expanding => l.call.op = "Expand"
    /\ l.undo # NoError => l.pc \in Undoing /\ l.call.op = "CreateVolume" /\ l.tries > 0
    /\ l.pc \in Undoing /\ l.call.op = "CreateVolume" => l.undo # NoError /\ l.id # NoId
    /\ l.pc \in Copying \cup {"smaster", "cmaster"} => l.id # NoId
    /\ l.call.op \notin Creates => l.id = l.call.id

\* Its object keeps the name by which it is removed.
LocOK(l) ==
    /\ l \in LocRecs /\ InStep(l)
    /\ l.id < nextId /\ l.call.id < nextId
    /\ l.pc \in Removing /\ Exists(l.id) => object[l.id].name = l.from

AnswerOK(a) ==
    /\ a \in AnswerRecs
    /\ a.err.ex \in ForeignErrors => a.status = "INTERNAL"
    /\ a.id < nextId /\ a.call.id < nextId
    /\ a.status = "OK" /\ a.call.op \in Creates => a.id # NoId
    /\ a.status = "OK" /\ a.call.op \in Deletes => ~Exists(a.call.id)

Counted == /\ gen3 \in BOOLEAN /\ overlap \in BOOLEAN
           /\ calls \in Nat /\ faults \in Nat /\ crashes \in Nat

Sound ==
    /\ Arrayed /\ Counted
    /\ loc \in [Threads -> LocRecs]
    /\ \A t \in Threads : LocOK(loc[t])
    /\ \A a \in answers : AnswerOK(a)

\* A call is about something that the orchestrator knows.
CallOK(c) ==
    /\ c.op \in Ops /\ c.id < nextId /\ c.source < nextId
    /\ c.op \in Creates => c.id = NoId /\ c.name # Source
    /\ c.op \notin Creates => /\ c.source = NoId
                              /\ \E k \in Known : /\ k.id = c.id /\ k.name = c.name
                                                  /\ k.op = IF c.op = "DeleteSnapshot"
                                                            THEN "CreateSnapshot" ELSE "CreateVolume"
    /\ c.op = "CreateSnapshot" => \E k \in Known : k.id = c.source /\ k.op = "CreateVolume"
    /\ c.op = "CreateVolume" /\ c.source # NoId =>
          \E k \in Known : k.id = c.source /\ (c.kind = "volume" <=> k.op = "CreateVolume")

\* The name it has read of the volume that its snapshot belongs to.
Traced(l) == \A v \in Ids : v = object[l.id].master /\ Exists(v) => object[v].name = l.from

\* What a running call has looked up, and what it was told, agrees with the array.
LocTold(l) ==
    /\ l.pc # "idle" => l.call \in asked
    /\ l.pc # "idle" /\ Exists(l.id) => object[l.id].name = l.call.name
    /\ l.pc \in Removing \cup {"xresize"} => l.from = l.call.name
    /\ l.pc \in {"lookup", "create", "slook", "ssource", "snap"} => l.id = NoId
    /\ l.pc \in Copying => l.call.source # NoId
    /\ l.pc \in {"snap", "format", "copy"} =>
          \E k \in Known : /\ k.id = l.call.source /\ k.name = l.from
                           /\ k.op = IF l.pc = "snap" \/ l.call.kind = "volume"
                                     THEN "CreateVolume" ELSE "CreateSnapshot"
    /\ l.pc \in {"smaster", "cmaster"} /\ Exists(l.id) => IsSnapshot(l.id) /\ Traced(l)
    /\ l.undo.ex # "VolumeAlreadyExists"

Told ==
    /\ \A c \in asked : c \in CallRecs /\ CallOK(c)
    /\ \A c, d \in asked : c.op \in Creates /\ c.op = d.op /\ c.name = d.name => c = d
    /\ \A a \in answers : a.call \in asked /\ (a.call.op \notin Creates /\ a.status = "OK" => a.id = a.call.id)
    /\ \A k \in Known : Exists(k.id) => object[k.id].name = k.name
    /\ \A t \in Threads : LocTold(loc[t])
    /\ \A t, u \in Threads :
          loc[t].call.op = "DeleteVolume" /\ loc[u].call.op = "CreateSnapshot"
            /\ loc[t].call.id = loc[u].call.source => loc[t].call.id \in torn

KnownIds == {k.id : k \in Known}

\* Two running calls are about different names, and what is being created was
\* not deleted before.
Alone    == \A t, u \in Threads : t # u /\ loc[t].pc # "idle" /\ loc[u].pc # "idle" =>
               loc[t].call.name # loc[u].call.name
NotAgain == \A t \in Threads, k \in Known :
               loc[t].call.op \in Creates /\ k.name = loc[t].call.name => k.id \notin Deleting

\* A known object that is gone was deleted, and its name is not used again, unless it
\* is a snapshot that may have gone with its volume.
Gone     == \A k \in Known : ~Exists(k.id) =>
               \/ k.id \in Deleting /\ Called(k.name) = {}
               \/ k.op = "CreateSnapshot" /\ torn # {}
OneName  == \A k, j \in Known : k.id = j.id => k.name = j.name
KindIs   == \A k \in Known : Exists(k.id) => (IsSnapshot(k.id) <=> k.op = "CreateSnapshot")

\* The volume whose name a call has read was deleted.
Lost(l) == \E k \in Known : k.name = l.from /\ k.op = "CreateVolume" /\ ~Exists(k.id)

\* A running call: what it has made is there and its own, what it removes is what it
\* has looked up.
LocHeld(l) ==
    /\ l.pc \in Copying => Exists(l.id)
    /\ l.pc \in Copying \/ l.undo # NoError => l.id \notin KnownIds
    /\ (l.pc \in Copying \/ l.undo # NoError) /\ Exists(l.id) => ~IsSnapshot(l.id) /\ Snapshots(l.id) = {}
    /\ l.pc \in Removing /\ ~Exists(l.id) => Called(l.call.name) = {}
    /\ l.pc = "rmvolume" /\ Exists(l.id) => Snapshots(l.id) = {} \/ l.id \in torn
    /\ l.pc = "create" => Called(l.call.name) = {}
    /\ l.pc \in {"smaster", "cmaster"} => Exists(l.id) \/ Lost(l)

Held == /\ Alone /\ NotAgain /\ Gone /\ OneName /\ KindIs
        /\ \A t \in Threads : LocHeld(loc[t])

\* What the array says that an object is a copy of, it holds.
DataOf(i) == /\ object[i].copied # NoId => object[i].data = object[i].copied
             /\ IsSnapshot(i) => object[i].copied = object[i].master

CopiedOf(a) == a.status = "OK" /\ a.call.op \in Creates /\ a.call.source # NoId /\ Exists(a.id) =>
                  object[a.id].copied = a.call.source \/ Misled(a.call)

LocData(l) ==
    /\ l.pc \in Copying \ {"resize"} => object[l.id].copied = NoId
    /\ l.pc = "resize" => object[l.id].copied = l.call.source \/ Misled(l.call)
    /\ l.pc = "cmaster" /\ Exists(l.id) => object[l.id].master = l.call.source

Data == /\ \A i \in Ids : Exists(i) => DataOf(i)
        /\ \A a \in answers : CopiedOf(a)
        /\ \A t \in Threads : LocData(loc[t])

\* What exists is known, or made by a running call, or left over by failures.
Makes(l, i) == l.call.op \in Creates /\ l.id = i /\ l.pc # "smaster"
Left(i)     == Tries <= faults \/ (faults > 0 /\ IsSnapshot(i))
Owned       == \A i \in Ids : Exists(i) => i \in KnownIds \/ Left(i) \/ \E t \in Threads : Makes(loc[t], i)

Expanded(i) == \E c \in asked : c.op = "Expand" /\ c.id = i

\* A volume is as big as was asked for; one made from nothing is as it was made.
SizedOf(a) ==
    faults < Tries /\ a.status = "OK" /\ a.call.op \in {"CreateVolume", "Expand"} /\ Exists(a.id) =>
        /\ object[a.id].blocks >= ToBlocks(a.call.size) \/ Misled(a.call)
        /\ a.call.op = "CreateVolume" /\ a.call.source = NoId =>
              /\ object[a.id].copied = NoId
              /\ object[a.id].blocks = ToBlocks(Required(a.call)) \/ Expanded(a.id)

\* A copy is not smaller than was thought, and a rollback is only given up after
\* as many failures as it has tries.
LocSized(l) ==
    /\ l.pc \in {"fmaster", "names", "format", "copy"} /\ Exists(l.call.source) =>
          l.blocks <= object[l.call.source].blocks
    /\ l.pc = "xafter" /\ Exists(l.id) => object[l.id].blocks >= ToBlocks(l.call.size)
    /\ l.undo # NoError /\ Exists(l.id) => Tries <= faults + l.tries

\* The answers to a call that is repeated.
Excused(a) == \/ a.call.size = 0 \/ a.call.size % Block # 0
              \/ Expanded(a.id)
              \/ gen3 /\ a.call.source # NoId
              \/ Misled(a.call)
RepeatedOf(b) == faults = 0 /\ b.call.op = "CreateVolume" /\ b.status = "ALREADY_EXISTS" =>
                    \E a \in OkTo({"CreateVolume"}) : a.call = b.call /\ Excused(a)
OneId == \A a, b \in OkTo({"CreateVolume"}) : a.call = b.call => a.id = b.id

Sized == /\ Owned /\ OneId
         /\ \A a \in answers : SizedOf(a) /\ RepeatedOf(a)
         /\ \A t \in Threads : LocSized(loc[t])

-----------------------------------------------------------------------------
(***************************************************************************)
(* The operators of the model.                                             *)
(***************************************************************************)

\* What a method may raise.
LEMMA RaisesIs ==
  /\ Raises("create_volume") = {"VolumeAlreadyExists", "PoolDoesNotExist", "PoolDoesNotMatchCapabilities",
                                "IllegalObjectName", "PermissionDeniedError"}
  /\ Raises("copy_to_existing_volume_from_source") =
        {"ObjectNotFoundError", "IllegalObjectID", "PermissionDeniedError"}
  /\ Raises("delete_volume") = {"ObjectNotFoundError", "IllegalObjectID", "PermissionDeniedError",
                                "ObjectIsStillInUseError"}
  /\ Raises("get_volume") = {"ObjectNotFoundError", "IllegalObjectName", "PermissionDeniedError",
                             "PoolParameterIsMissing"}
  /\ Raises("expand_volume") = {"ObjectNotFoundError", "IllegalObjectID", "ObjectIsStillInUseError",
                                "NotEnoughSpaceInPool"}
  /\ Raises("get_snapshot") = {"ExpectedSnapshotButFoundVolumeError", "IllegalObjectName",
                               "IllegalObjectID", "PermissionDeniedError"}
  /\ Raises("get_object_by_id") = {"ExpectedSnapshotButFoundVolumeError"}
  /\ Raises("create_snapshot") = {"SnapshotAlreadyExists", "ObjectNotFoundError", "IllegalObjectName",
                                  "IllegalObjectID", "PermissionDeniedError", "NotEnoughSpaceInPool",
                                  "SnapshotSourcePoolMismatch"}
  /\ Raises("delete_snapshot") = {"ObjectNotFoundError", "IllegalObjectID", "PermissionDeniedError",
                                  "ObjectIsStillInUseError"}
  <1>1. /\ DOMAIN VolumeErrors = {"create_volume", "copy_to_existing_volume_from_source", "delete_volume",
                                  "get_volume", "expand_volume"}
        /\ DOMAIN AttachErrors = {"get_volume_mappings", "map_volume", "unmap_volume"}
        /\ DOMAIN SnapshotErrors = {"get_snapshot", "get_object_by_id", "create_snapshot", "delete_snapshot"}
        /\ DOMAIN HostErrors = {"get_iscsi_targets_by_iqn", "get_array_fc_wwns",
                                "get_host_by_host_identifiers"}
    BY DEF VolumeErrors, AttachErrors, SnapshotErrors, HostErrors
  <1>2. \A m \in DOMAIN VolumeErrors : Raises(m) = VolumeErrors[m]
    BY <1>1 DEF Raises
  <1>3. \A m \in DOMAIN SnapshotErrors : Raises(m) = SnapshotErrors[m]
    BY <1>1 DEF Raises
  <1> QED
    BY <1>1, <1>2, <1>3 DEF VolumeErrors, SnapshotErrors

\* The answers that exceptions end in: only a deletion of what is not found is OK,
\* and a foreign error is INTERNAL.
LEMMA StatusIs ==
  ASSUME NEW op \in Ops, NEW ex, ex \notin {"none", "NotImplementedError"}
  PROVE  /\ Status(op, ex) \in Statuses
         /\ Status(op, ex) = "OK" => op \in Deletes /\ ex = "ObjectNotFoundError"
         /\ ex \in ForeignErrors => Status(op, ex) = "INTERNAL"
  <1>1. /\ CommonStatus(ex) \in Statuses \ {"OK"}
        /\ ex \in ForeignErrors => CommonStatus(ex) = "INTERNAL"
    <2>1. CommonStatus(ex) \in {"INVALID_ARGUMENT", "NOT_FOUND", "PERMISSION_DENIED",
                               "FAILED_PRECONDITION", "INTERNAL"}
      BY DEF CommonStatus
    <2>2. ex \in ForeignErrors => CommonStatus(ex) = "INTERNAL"
      BY DEF CommonStatus, ForeignErrors
    <2> QED
      BY <2>1, <2>2 DEF Statuses
  <1>2. CASE op = "CreateVolume"
    <2>1. Status(op, ex) = CreateVolumeStatus(ex)
      BY <1>2 DEF Status
    <2> QED
      BY <1>1, <1>2, <2>1 DEF CreateVolumeStatus, InvalidArgumentErrors, Statuses, ForeignErrors
  <1>3. CASE op = "CreateSnapshot"
    <2>1. Status(op, ex) = CreateSnapshotStatus(ex)
      BY <1>3 DEF Status
    <2> QED
      BY <1>1, <1>3, <2>1 DEF CreateSnapshotStatus, Statuses, ForeignErrors
  <1>4. CASE op = "DeleteVolume"
    <2>1. Status(op, ex) = DeleteVolumeStatus(ex)
      BY <1>4 DEF Status
    <2> QED
      BY <1>1, <1>4, <2>1 DEF DeleteVolumeStatus, Statuses, ForeignErrors, Deletes
  <1>5. CASE op = "DeleteSnapshot"
    <2>1. Status(op, ex) = DeleteSnapshotStatus(ex)
      BY <1>5 DEF Status
    <2> QED
      BY <1>1, <1>5, <2>1 DEF DeleteSnapshotStatus, Statuses, ForeignErrors, Deletes
  <1>6. CASE op = "Expand"
    <2>1. Status(op, ex) = ExpandStatus(ex)
      BY <1>6 DEF Status
    <2> QED
      BY <1>1, <1>6, <2>1 DEF ExpandStatus, Statuses, ForeignErrors
  <1> QED
    BY <1>2, <1>3, <1>4, <1>5, <1>6 DEF Ops, Creates, Deletes

\* The errors that the steps raise.
LEMMA RaisedIs ==
  /\ \A ex \in {"VolumeNameBelongsToSnapshotError", "IllegalObjectName", "XCLIError"} :
        [by |-> "get_volume", ex |-> ex] \in Raised
  /\ \A ex \in {"VolumeAlreadyExists", "IllegalObjectName", "PoolDoesNotExist", "PermissionDeniedError",
             "NotEnoughSpaceInPool", "AttributeError", "XCLIError"} :
        [by |-> "create_volume", ex |-> ex] \in Raised
  /\ \A ex \in {"ObjectNotFoundError", "ExpectedSnapshotButFoundVolumeError", "IllegalObjectID",
             "AttributeError", "XCLIError"} :
        [by |-> "get_object_by_id", ex |-> ex] \in Raised
  /\ \A ex \in {"ObjectNotFoundError", "IllegalObjectID", "IllegalObjectName",
             "PermissionDeniedError", "XCLIError"} :
        [by |-> "copy_to_existing_volume_from_source", ex |-> ex] \in Raised
  /\ \A ex \in {"ExpectedSnapshotButFoundVolumeError", "IllegalObjectName", "AttributeError", "XCLIError"} :
        [by |-> "get_snapshot", ex |-> ex] \in Raised
  /\ \A ex \in {"SnapshotAlreadyExists", "ObjectNotFoundError", "IllegalObjectName", "IllegalObjectID",
             "PermissionDeniedError", "SnapshotSourcePoolMismatch", "AttributeError", "XCLIError"} :
        [by |-> "create_snapshot", ex |-> ex] \in Raised
  /\ \A ex \in {"ObjectNotFoundError", "IllegalObjectID", "PermissionDeniedError",
             "ObjectIsStillInUseError", "XCLIError"} :
        [by |-> "delete_volume", ex |-> ex] \in Raised
  /\ \A ex \in {"ObjectNotFoundError", "IllegalObjectID", "PermissionDeniedError",
             "ObjectIsStillInUseError", "XCLIError"} :
        [by |-> "delete_snapshot", ex |-> ex] \in Raised
  /\ \A ex \in {"ObjectNotFoundError", "IllegalObjectID", "NotEnoughSpaceInPool", "XCLIError"} :
        [by |-> "expand_volume", ex |-> ex] \in Raised
  <1>1. ASSUME NEW by \in Methods, NEW ex \in Exceptions,
               \/ [by |-> by, ex |-> ex] \in Undeclared \/ ex \in Raises(by) \/ ex \in ForeignErrors
        PROVE  [by |-> by, ex |-> ex] \in Raised
    BY <1>1 DEF Raised, Explained
  <1>2. \A ex \in {"VolumeNameBelongsToSnapshotError", "IllegalObjectName", "XCLIError"} :
           [by |-> "get_volume", ex |-> ex] \in Raised
    <2>1. ASSUME NEW ex \in {"VolumeNameBelongsToSnapshotError", "IllegalObjectName", "XCLIError"}
          PROVE  /\ "get_volume" \in Methods /\ ex \in Exceptions
                 /\ \/ [by |-> "get_volume", ex |-> ex] \in Undeclared
                    \/ ex \in Raises("get_volume") \/ ex \in ForeignErrors
      BY <2>1, RaisesIs
      DEF Methods, Exceptions, Undeclared, ForeignErrors, ObjectErrorClasses, SnapshotErrorClasses
    <2> QED
      BY <1>1, <2>1
  <1>3. \A ex \in {"VolumeAlreadyExists", "IllegalObjectName", "PoolDoesNotExist", "PermissionDeniedError",
             "NotEnoughSpaceInPool", "AttributeError", "XCLIError"} :
           [by |-> "create_volume", ex |-> ex] \in Raised
    <2>1. ASSUME NEW ex \in {"VolumeAlreadyExists", "IllegalObjectName", "PoolDoesNotExist", "PermissionDeniedError",
                       "NotEnoughSpaceInPool", "AttributeError", "XCLIError"}
          PROVE  /\ "create_volume" \in Methods /\ ex \in Exceptions
                 /\ \/ [by |-> "create_volume", ex |-> ex] \in Undeclared
                    \/ ex \in Raises("create_volume") \/ ex \in ForeignErrors
      BY <2>1, RaisesIs
      DEF Methods, Exceptions, Undeclared, ForeignErrors, ObjectErrorClasses, SnapshotErrorClasses
    <2> QED
      BY <1>1, <2>1
  <1>4. \A ex \in {"ObjectNotFoundError", "ExpectedSnapshotButFoundVolumeError", "IllegalObjectID",
             "AttributeError", "XCLIError"} :
           [by |-> "get_object_by_id", ex |-> ex] \in Raised
    <2>1. ASSUME NEW ex \in {"ObjectNotFoundError", "ExpectedSnapshotButFoundVolumeError", "IllegalObjectID",
                       "AttributeError", "XCLIError"}
          PROVE  /\ "get_object_by_id" \in Methods /\ ex \in Exceptions
                 /\ \/ [by |-> "get_object_by_id", ex |-> ex] \in Undeclared
                    \/ ex \in Raises("get_object_by_id") \/ ex \in ForeignErrors
      BY <2>1, RaisesIs
      DEF Methods, Exceptions, Undeclared, ForeignErrors, ObjectErrorClasses, SnapshotErrorClasses
    <2> QED
      BY <1>1, <2>1
  <1>5. \A ex \in {"ObjectNotFoundError", "IllegalObjectID", "IllegalObjectName",
             "PermissionDeniedError", "XCLIError"} :
           [by |-> "copy_to_existing_volume_from_source", ex |-> ex] \in Raised
    <2>1. ASSUME NEW ex \in {"ObjectNotFoundError", "IllegalObjectID", "IllegalObjectName",
                       "PermissionDeniedError", "XCLIError"}
          PROVE  /\ "copy_to_existing_volume_from_source" \in Methods /\ ex \in Exceptions
                 /\ \/ [by |-> "copy_to_existing_volume_from_source", ex |-> ex] \in Undeclared
                    \/ ex \in Raises("copy_to_existing_volume_from_source") \/ ex \in ForeignErrors
      BY <2>1, RaisesIs
      DEF Methods, Exceptions, Undeclared, ForeignErrors, ObjectErrorClasses, SnapshotErrorClasses
    <2> QED
      BY <1>1, <2>1
  <1>6. \A ex \in {"ExpectedSnapshotButFoundVolumeError", "IllegalObjectName", "AttributeError", "XCLIError"} :
           [by |-> "get_snapshot", ex |-> ex] \in Raised
    <2>1. ASSUME NEW ex \in {"ExpectedSnapshotButFoundVolumeError", "IllegalObjectName", "AttributeError", "XCLIError"}
          PROVE  /\ "get_snapshot" \in Methods /\ ex \in Exceptions
                 /\ \/ [by |-> "get_snapshot", ex |-> ex] \in Undeclared
                    \/ ex \in Raises("get_snapshot") \/ ex \in ForeignErrors
      BY <2>1, RaisesIs
      DEF Methods, Exceptions, Undeclared, ForeignErrors, ObjectErrorClasses, SnapshotErrorClasses
    <2> QED
      BY <1>1, <2>1
  <1>7. \A ex \in {"SnapshotAlreadyExists", "ObjectNotFoundError", "IllegalObjectName", "IllegalObjectID",
             "PermissionDeniedError", "SnapshotSourcePoolMismatch", "AttributeError", "XCLIError"} :
           [by |-> "create_snapshot", ex |-> ex] \in Raised
    <2>1. ASSUME NEW ex \in {"SnapshotAlreadyExists", "ObjectNotFoundError", "IllegalObjectName", "IllegalObjectID",
                       "PermissionDeniedError", "SnapshotSourcePoolMismatch", "AttributeError", "XCLIError"}
          PROVE  /\ "create_snapshot" \in Methods /\ ex \in Exceptions
                 /\ \/ [by |-> "create_snapshot", ex |-> ex] \in Undeclared
                    \/ ex \in Raises("create_snapshot") \/ ex \in ForeignErrors
      BY <2>1, RaisesIs
      DEF Methods, Exceptions, Undeclared, ForeignErrors, ObjectErrorClasses, SnapshotErrorClasses
    <2> QED
      BY <1>1, <2>1
  <1>8. \A ex \in {"ObjectNotFoundError", "IllegalObjectID", "PermissionDeniedError",
             "ObjectIsStillInUseError", "XCLIError"} :
           [by |-> "delete_volume", ex |-> ex] \in Raised
    <2>1. ASSUME NEW ex \in {"ObjectNotFoundError", "IllegalObjectID", "PermissionDeniedError",
                       "ObjectIsStillInUseError", "XCLIError"}
          PROVE  /\ "delete_volume" \in Methods /\ ex \in Exceptions
                 /\ \/ [by |-> "delete_volume", ex |-> ex] \in Undeclared
                    \/ ex \in Raises("delete_volume") \/ ex \in ForeignErrors
      BY <2>1, RaisesIs
      DEF Methods, Exceptions, Undeclared, ForeignErrors, ObjectErrorClasses, SnapshotErrorClasses
    <2> QED
      BY <1>1, <2>1
  <1>9. \A ex \in {"ObjectNotFoundError", "IllegalObjectID", "PermissionDeniedError",
             "ObjectIsStillInUseError", "XCLIError"} :
           [by |-> "delete_snapshot", ex |-> ex] \in Raised
    <2>1. ASSUME NEW ex \in {"ObjectNotFoundError", "IllegalObjectID", "PermissionDeniedError",
                       "ObjectIsStillInUseError", "XCLIError"}
          PROVE  /\ "delete_snapshot" \in Methods /\ ex \in Exceptions
                 /\ \/ [by |-> "delete_snapshot", ex |-> ex] \in Undeclared
                    \/ ex \in Raises("delete_snapshot") \/ ex \in ForeignErrors
      BY <2>1, RaisesIs
      DEF Methods, Exceptions, Undeclared, ForeignErrors, ObjectErrorClasses, SnapshotErrorClasses
    <2> QED
      BY <1>1, <2>1
  <1>10. \A ex \in {"ObjectNotFoundError", "IllegalObjectID", "NotEnoughSpaceInPool", "XCLIError"} :
           [by |-> "expand_volume", ex |-> ex] \in Raised
    <2>1. ASSUME NEW ex \in {"ObjectNotFoundError", "IllegalObjectID", "NotEnoughSpaceInPool", "XCLIError"}
          PROVE  /\ "expand_volume" \in Methods /\ ex \in Exceptions
                 /\ \/ [by |-> "expand_volume", ex |-> ex] \in Undeclared
                    \/ ex \in Raises("expand_volume") \/ ex \in ForeignErrors
      BY <2>1, RaisesIs
      DEF Methods, Exceptions, Undeclared, ForeignErrors, ObjectErrorClasses, SnapshotErrorClasses
    <2> QED
      BY <1>1, <2>1
  <1> QED
    BY <1>2, <1>3, <1>4, <1>5, <1>6, <1>7, <1>8, <1>9, <1>10

LEMMA RaisedHas ==
  ASSUME NEW err \in Raised
  PROVE  /\ err \in Errs /\ Explained(err) /\ err.ex \notin {"none", "NotImplementedError"}
         /\ err # NoError
  <1>1. err \in [by : Methods, ex : Exceptions] /\ Explained(err)
    BY DEF Raised
  <1>2. "none" \notin Exceptions /\ "NotImplementedError" \notin Exceptions
    BY DEF Exceptions, ObjectErrorClasses, SnapshotErrorClasses, ForeignErrors
  <1> QED
    BY <1>1, <1>2 DEF Errs, NoError

\* An idle thread.
LEMMA IdleIs ==
  /\ Idle \in LocRecs /\ Idle.pc = "idle" /\ Idle.call = NoCall /\ NoCall.op = "none" /\ NoCall.id = NoId
  /\ Idle.id = NoId /\ Idle.undo = NoError /\ NoCall \in CallRecs /\ NoError \in Errs
  /\ Sound => LocOK(Idle)
  <1>0. NoError \in Errs
    BY DEF Errs
  <1>1. NoCall \in CallRecs
    BY ProvisioningAssumption DEF NoCall, CallRecs, NoId
  <1>2. Idle \in LocRecs
    BY <1>0, <1>1, ProvisioningAssumption DEF Idle, LocRecs, NoId, Pcs
  <1>3. /\ Idle.pc = "idle" /\ Idle.call = NoCall /\ NoCall.op = "none" /\ NoCall.id = NoId
        /\ Idle.id = NoId /\ Idle.undo = NoError
    BY DEF Idle, NoCall
  <1>4. InStep(Idle)
    BY <1>3 DEF InStep, Copying, Snapping, Undoing, Expanding, Creates
  <1>5. Sound => LocOK(Idle)
    BY <1>2, <1>3, <1>4 DEF Sound, LocOK, Arrayed, NoId, Removing
  <1> QED
    BY <1>0, <1>1, <1>2, <1>3, <1>5

-----------------------------------------------------------------------------
(***************************************************************************)
(* What a command does to the array.                                       *)
(***************************************************************************)

\* No object comes back, and none changes its name or its volume.
Ages ==
    /\ nextId' \in Nat /\ nextId <= nextId'
    /\ \A i \in Ids : i < nextId /\ Exists(i)' => /\ Exists(i) /\ object'[i].name = object[i].name
                                                  /\ object'[i].master = object[i].master

LEMMA ObjectIs ==
  ASSUME Arrayed, NEW i, Exists(i)
  PROVE  /\ i \in Ids /\ i \in Nat \ {0} /\ object[i] \in Objects /\ i < nextId
         /\ object[i].name \in Names /\ object[i].blocks \in Nat /\ object[i].master \in Nat
         /\ object[i].copied \in Nat /\ object[i].data \in Nat
  <1>1. i \in Ids /\ object[i] # NoObject
    BY DEF Exists
  <1>2. object[i] \in Objects
    BY <1>1 DEF Arrayed
  <1>3. i \in Nat \ {0}
    BY <1>1, ArrayAssumption DEF Ids
  <1> QED
    BY <1>1, <1>2, <1>3 DEF Arrayed, Objects

LEMMA ObjectsExist ==
  ASSUME NEW o \in Objects
  PROVE  o # NoObject
  BY ArrayAssumption DEF Objects, NoObject

\* At most one object has a name.
LEMMA CalledIs ==
  ASSUME Arrayed, NEW n, NEW i
  PROVE  /\ i \in Called(n) <=> Exists(i) /\ object[i].name = n
         /\ i \in Called(n) => Called(n) = {i}
  <1>1. i \in Called(n) <=> Exists(i) /\ object[i].name = n
    BY DEF Called, Exists
  <1>2. ASSUME i \in Called(n), NEW j \in Called(n) PROVE j = i
    BY <1>2 DEF Called, Arrayed
  <1> QED
    BY <1>1, <1>2

LEMMA NothingChanges ==
  ASSUME Arrayed, UNCHANGED arrayVars
  PROVE  Arrayed' /\ Ages
  <1>1. object' = object /\ nextId' = nextId
    BY DEF arrayVars
  <1>2. \A i : Exists(i)' = Exists(i) /\ IsSnapshot(i)' = IsSnapshot(i)
    BY <1>1 DEF Exists, IsSnapshot
  <1>3. Arrayed'
    BY <1>1, <1>2 DEF Arrayed
  <1> QED
    BY <1>1, <1>2, <1>3 DEF Ages, Arrayed

\* vol_create and snapshot_create.
LEMMA ObjectIsMade ==
  ASSUME Arrayed, NEW o \in Objects, NEW n \in Ids, n = nextId, nextId' = nextId + 1,
         object' = [object EXCEPT ![n] = o], Called(o.name) = {},
         o.master # NoId => Exists(o.master) /\ ~IsSnapshot(o.master)
  PROVE  /\ Arrayed' /\ Ages /\ Exists(n)' /\ ~Exists(n) /\ object'[n] = o
         /\ \A i \in Ids : i # n => object'[i] = object[i] /\ Exists(i)' = Exists(i)
                                   /\ IsSnapshot(i)' = IsSnapshot(i)
  <1>1. nextId \in Nat /\ object' \in [Ids -> Objects \cup {NoObject}]
    BY DEF Arrayed
  <1>2. object'[n] = o /\ \A i \in Ids : i # n => object'[i] = object[i]
    BY DEF Arrayed
  <1>3. Exists(n)' /\ \A i \in Ids : i # n => Exists(i)' = Exists(i)
    <2>1. Exists(n)'
      BY <1>2, ObjectsExist DEF Exists
    <2> QED
      BY <1>2, <2>1 DEF Exists
  <1>4. ~Exists(n)
    BY <1>1 DEF Arrayed
  <1>5. \A i \in Ids : i # n => IsSnapshot(i)' = IsSnapshot(i)
    BY <1>2 DEF IsSnapshot
  <1>6. \A i \in Ids : Exists(i)' => i < nextId'
    BY <1>1, <1>3 DEF Arrayed, Ids
  <1>7. \A i \in Ids : Exists(i) => object[i].name # o.name
    BY DEF Called
  <1>8. \A i, j \in Ids : Exists(i)' /\ Exists(j)' /\ object'[i].name = object'[j].name => i = j
    BY <1>2, <1>3, <1>7 DEF Arrayed
  <1>9. ASSUME NEW i \in Ids, Exists(i)', IsSnapshot(i)'
        PROVE  \E k \in Ids : k = object'[i].master /\ Exists(k)' /\ ~IsSnapshot(k)'
    <2>1. \E k \in Ids : k = object'[i].master /\ Exists(k) /\ ~IsSnapshot(k)
      <3>1. CASE i = n
        BY <3>1, <1>2, <1>9 DEF IsSnapshot, Exists
      <3>2. CASE i # n
        BY <3>2, <1>2, <1>3, <1>5, <1>9 DEF Arrayed
      <3> QED
        BY <3>1, <3>2
    <2> QED
      BY <2>1, <1>3, <1>4, <1>5
  <1>10. Arrayed'
    BY <1>1, <1>6, <1>8, <1>9 DEF Arrayed
  <1>11. Ages
    BY <1>1, <1>2, <1>3 DEF Ages
  <1> QED
    BY <1>2, <1>3, <1>4, <1>5, <1>10, <1>11

\* vol_format, vol_copy and vol_resize change an object, but not its name and volume.
LEMMA ObjectIsChanged ==
  ASSUME Arrayed, NEW i, Exists(i), NEW o \in Objects, nextId' = nextId,
         object' = [object EXCEPT ![i] = o], o.name = object[i].name, o.master = object[i].master
  PROVE  /\ Arrayed' /\ Ages /\ object'[i] = o
         /\ \A j \in Ids : j # i => object'[j] = object[j]
         /\ \A j : Exists(j)' = Exists(j)
         /\ \A j \in Ids : /\ IsSnapshot(j)' = IsSnapshot(j) /\ object'[j].name = object[j].name
                           /\ object'[j].master = object[j].master
  <1>1. i \in Ids /\ object' \in [Ids -> Objects \cup {NoObject}]
    BY DEF Arrayed, Exists
  <1>2. object'[i] = o /\ \A j \in Ids : j # i => object'[j] = object[j]
    BY <1>1 DEF Arrayed
  <1>3. \A j \in Ids : object'[j].name = object[j].name /\ object'[j].master = object[j].master
    BY <1>2
  <1>4. \A j : Exists(j)' = Exists(j)
    <2>1. o # NoObject
      BY ObjectsExist
    <2> QED
      BY <1>2, <2>1 DEF Exists
  <1>5. \A j \in Ids : IsSnapshot(j)' = IsSnapshot(j)
    BY <1>3 DEF IsSnapshot
  <1>6. ASSUME NEW j \in Ids, Exists(j)', IsSnapshot(j)'
        PROVE  \E k \in Ids : k = object'[j].master /\ Exists(k)' /\ ~IsSnapshot(k)'
    <2>1. \E k \in Ids : k = object[j].master /\ Exists(k) /\ ~IsSnapshot(k)
      BY <1>4, <1>5, <1>6 DEF Arrayed
    <2> QED
      BY <2>1, <1>3, <1>4, <1>5
  <1>7. Arrayed'
    BY <1>1, <1>3, <1>4, <1>6 DEF Arrayed
  <1>8. Ages
    BY <1>3, <1>4 DEF Ages, Arrayed
  <1> QED
    BY <1>2, <1>3, <1>4, <1>5, <1>7, <1>8

\* vol_delete and snapshot_delete: nothing is left without its volume.
LEMMA ObjectsAreRemoved ==
  ASSUME Arrayed, NEW gone, Remove(gone),
         \A j \in Ids : Exists(j) /\ object[j].master \in gone \ {NoId} => j \in gone
  PROVE  /\ Arrayed' /\ Ages /\ nextId' = nextId
         /\ \A j : Exists(j)' <=> Exists(j) /\ j \notin gone
         /\ \A j \in Ids : j \notin gone => object'[j] = object[j] /\ IsSnapshot(j)' = IsSnapshot(j)
  <1>1. nextId' = nextId /\ \A j \in Ids : object'[j] = IF j \in gone THEN NoObject ELSE object[j]
    BY DEF Remove
  <1>2. object' \in [Ids -> Objects \cup {NoObject}]
    BY DEF Remove, Arrayed
  <1>3. \A j : Exists(j)' <=> Exists(j) /\ j \notin gone
    BY <1>1 DEF Exists
  <1>4. \A j \in Ids : j \notin gone => object'[j] = object[j] /\ IsSnapshot(j)' = IsSnapshot(j)
    BY <1>1 DEF IsSnapshot
  <1>5. ASSUME NEW j \in Ids, Exists(j)', IsSnapshot(j)'
        PROVE  \E k \in Ids : k = object'[j].master /\ Exists(k)' /\ ~IsSnapshot(k)'
    <2>1. Exists(j) /\ j \notin gone /\ IsSnapshot(j) /\ object'[j] = object[j]
      BY <1>3, <1>4, <1>5
    <2>2. PICK k \in Ids : k = object[j].master /\ Exists(k) /\ ~IsSnapshot(k)
      BY <2>1 DEF Arrayed
    <2>3. k \notin gone
      BY <2>1, <2>2 DEF IsSnapshot
    <2> QED
      BY <2>1, <2>2, <2>3, <1>3, <1>4
  <1>6. Arrayed'
    <2>1. \A j, k \in Ids : Exists(j)' /\ Exists(k)' /\ object'[j].name = object'[k].name => j = k
      BY <1>3, <1>4 DEF Arrayed
    <2>2. \A j \in Ids : Exists(j)' => j < nextId'
      BY <1>1, <1>3 DEF Arrayed
    <2> QED
      BY <1>1, <1>2, <1>5, <2>1, <2>2 DEF Arrayed
  <1>7. Ages
    BY <1>1, <1>3, <1>4 DEF Ages, Arrayed
  <1> QED
    BY <1>1, <1>3, <1>4, <1>6, <1>7

-----------------------------------------------------------------------------
(***************************************************************************)
(* What the steps of a thread have in common.                              *)
(***************************************************************************)

LEMMA LocKept ==
  ASSUME Sound, Ages, NEW l, LocOK(l)
  PROVE  LocOK(l)'
  <1>1. /\ l \in LocRecs /\ l.id \in Nat /\ l.call \in CallRecs
        /\ nextId \in Nat /\ nextId' \in Nat /\ nextId <= nextId'
    BY DEF LocOK, LocRecs, Sound, Arrayed, Ages
  <1>2. l.call.id \in Nat
    BY <1>1 DEF CallRecs
  <1>3. l.id < nextId' /\ l.call.id < nextId'
    BY <1>1, <1>2 DEF LocOK
  <1>4. l.pc \in Removing /\ Exists(l.id)' => object'[l.id].name = l.from
    BY DEF LocOK, Ages, Exists
  <1>5. InStep(l)'
    BY DEF LocOK, InStep
  <1> QED
    BY <1>1, <1>3, <1>4, <1>5 DEF LocOK

LEMMA AnswerKept ==
  ASSUME Sound, Ages, NEW a, AnswerOK(a)
  PROVE  AnswerOK(a)'
  <1>1. /\ a \in AnswerRecs /\ a.id \in Nat /\ a.call \in CallRecs
        /\ nextId \in Nat /\ nextId' \in Nat /\ nextId <= nextId'
    BY DEF AnswerOK, AnswerRecs, Sound, Arrayed, Ages
  <1>2. a.call.id \in Nat
    BY <1>1 DEF CallRecs
  <1>3. a.id < nextId' /\ a.call.id < nextId'
    BY <1>1, <1>2 DEF AnswerOK
  <1>4. a.status = "OK" /\ a.call.op \in Deletes => ~Exists(a.call.id)'
    BY DEF AnswerOK, Ages, Exists
  <1> QED
    BY <1>1, <1>3, <1>4 DEF AnswerOK

\* A thread goes on, perhaps with an answer.
LEMMA ThreadStep ==
  ASSUME Sound, Arrayed', Ages, Counted', NEW t \in Threads, NEW m, Go(t, m), LocOK(m)',
         NEW A, answers' = answers \cup A, \A a \in A : AnswerOK(a)'
  PROVE  Sound'
  <1>1. m \in LocRecs
    BY DEF LocOK
  <1>2. /\ loc' \in [Threads -> LocRecs] /\ loc'[t] = m
        /\ \A u \in Threads : u # t => loc'[u] = loc[u]
    BY <1>1 DEF Sound, Go
  <1>3. ASSUME NEW u \in Threads PROVE LocOK(loc[u])'
    <2>1. PICK l : l = loc'[u]
      OBVIOUS
    <2>2. LocOK(l)'
      <3>1. CASE u = t
        BY <3>1, <2>1, <1>2
      <3>2. CASE u # t
        BY <3>2, <2>1, <1>2, LocKept DEF Sound
      <3> QED
        BY <3>1, <3>2
    <2> QED
      BY <2>1, <2>2
  <1>4. ASSUME NEW a \in answers' PROVE AnswerOK(a)'
    BY <1>4, AnswerKept DEF Sound
  <1> QED
    BY <1>2, <1>3, <1>4 DEF Sound

\* A step within the call of t, with no answer.
LEMMA ThenStep ==
  ASSUME Sound, Arrayed', Ages, UNCHANGED bounds \/ Counted', NEW t \in Threads, NEW m, Then(t, m), LocOK(m)'
  PROVE  Sound'
  <1>1. Counted'
    BY DEF bounds, Counted, Sound
  <1>2. PICK A : A = {}
    OBVIOUS
  <1>3. Go(t, m) /\ answers' = answers \cup A /\ \A a \in A : AnswerOK(a)'
    BY <1>2 DEF Then
  <1> QED
    BY <1>1, <1>3, ThreadStep

\* An answer.
LEMMA ReplyStep ==
  ASSUME Sound, Arrayed', Ages, UNCHANGED bounds \/ Counted', NEW t \in Threads, loc[t].pc # "idle",
         NEW status \in Statuses, NEW id \in Nat, id < nextId', NEW err \in Errs,
         Reply(t, status, id, err),
         err.ex \in ForeignErrors => status = "INTERNAL",
         status = "OK" /\ loc[t].call.op \in Creates => id # NoId,
         \A d : d = loc[t].call.id /\ status = "OK" /\ loc[t].call.op \in Deletes => ~Exists(d)'
  PROVE  Sound'
  <1>1. Counted'
    BY DEF bounds, Counted, Sound
  <1>2. PICK a : a = [call |-> loc[t].call, status |-> status, id |-> id, err |-> err]
    OBVIOUS
  <1>3. loc[t].call \in CallRecs /\ loc[t].call.id \in Nat /\ loc[t].call.id < nextId
    BY DEF Sound, LocOK, LocRecs, CallRecs
  <1>4. loc[t].call.id < nextId'
    BY <1>3 DEF Ages, Sound, Arrayed
  <1>5. AnswerOK(a)'
    <2>1. a \in AnswerRecs
      BY <1>2, <1>3 DEF AnswerRecs
    <2>2. a.err.ex \in ForeignErrors => a.status = "INTERNAL"
      BY <1>2
    <2>3. a.id < nextId' /\ a.call.id < nextId'
      BY <1>2, <1>4
    <2>4. a.status = "OK" /\ a.call.op \in Creates => a.id # NoId
      BY <1>2
    <2>5. a.status = "OK" /\ a.call.op \in Deletes => ~Exists(a.call.id)'
      BY <1>2
    <2> QED
      BY <2>1, <2>2, <2>3, <2>4, <2>5 DEF AnswerOK
  <1>6. LocOK(Idle)'
    BY IdleIs, LocKept
  <1>7. PICK m : m = Idle
    OBVIOUS
  <1>8. LocOK(m)'
    BY <1>6, <1>7 DEF Idle, NoCall
  <1>9. PICK A : A = {a}
    OBVIOUS
  <1>10. Go(t, m) /\ answers' = answers \cup A
    BY <1>2, <1>7, <1>9 DEF Reply, Go
  <1>11. \A b \in A : AnswerOK(b)'
    BY <1>5, <1>9
  <1> QED
    BY <1>1, <1>8, <1>10, <1>11, ThreadStep

\* A rollback starts or goes on.
LEMMA UndoStep ==
  ASSUME Sound, Arrayed', Ages, UNCHANGED bounds \/ Counted', NEW t \in Threads,
         loc[t].pc \in Copying \cup Undoing, loc[t].call.op = "CreateVolume",
         NEW err \in Raised, NEW rounds \in 0..2, Undo(t, err, rounds)
  PROVE  Sound'
  <1>1. PICK m : m = [loc[t] EXCEPT !.pc = "find", !.undo = err, !.tries = Tries, !.rounds = rounds]
    OBVIOUS
  <1>2. PICK l : l = loc[t]
    OBVIOUS
  <1>3. LocOK(l) /\ l \in LocRecs /\ l.call.op = "CreateVolume" /\ l.pc \in Copying \cup Undoing
    BY <1>2 DEF Sound, LocOK
  <1>4. /\ m \in LocRecs /\ m.pc = "find" /\ m.call = l.call /\ m.id = l.id /\ m.undo = err
        /\ m.tries = Tries
    <2>1. "find" \in Pcs /\ Tries \in 0..Tries
      BY ProvisioningAssumption DEF Pcs, Undoing
    <2>2. err \in Errs
      BY RaisedHas
    <2> QED
      BY <1>1, <1>2, <1>3, <2>1, <2>2 DEF LocRecs
  <1>5. InStep(m)
    <2>1. l.id # NoId
      BY <1>3 DEF LocOK, InStep
    <2>2. err # NoError
      BY RaisedHas
    <2> QED
      BY <1>3, <1>4, <2>1, <2>2, ProvisioningAssumption
      DEF InStep, Copying, Undoing, Snapping, Expanding, Creates, Deletes
  <1>6. LocOK(m)
    BY <1>3, <1>4, <1>5 DEF LocOK, Removing
  <1>7. LocOK(m)'
    BY <1>6, LocKept
  <1>8. Then(t, m)
    BY <1>1 DEF Undo
  <1> QED
    BY <1>7, <1>8, ThenStep

\* delete_volume of a rollback ends.
LEMMA UndoNextStep ==
  ASSUME Sound, Arrayed', Ages, UNCHANGED bounds \/ Counted', NEW t \in Threads, loc[t].undo # NoError,
         NEW err \in Errs, UndoNext(t, err)
  PROVE  Sound'
  <1>1. PICK l : l = loc[t]
    OBVIOUS
  <1>2. LocOK(l) /\ l \in LocRecs /\ l.undo # NoError /\ l.undo \in Raised
    BY <1>1 DEF Sound, LocOK, LocRecs, Errs
  <1>3. l.pc \in Undoing /\ l.call.op = "CreateVolume" /\ l.tries \in 1..Tries /\ l.rounds \in 0..2
    BY <1>2, ProvisioningAssumption DEF LocOK, InStep, LocRecs
  <1>4. PICK end : end = IF err = NoError THEN l.undo ELSE err
    OBVIOUS
  <1>5. end \in Raised
    BY <1>2, <1>4 DEF Errs
  <1>6. CASE err # NoError /\ l.tries > 1
    <2>1. PICK m : m = [l EXCEPT !.pc = "find", !.tries = @ - 1]
      OBVIOUS
    <2>2. /\ m \in LocRecs /\ m.pc = "find" /\ m.call = l.call /\ m.id = l.id /\ m.undo = l.undo
          /\ m.tries = l.tries - 1
      <3>1. "find" \in Pcs /\ l.tries - 1 \in 0..Tries
        BY <1>3, <1>6, ProvisioningAssumption DEF Pcs, Undoing
      <3> QED
        BY <2>1, <1>2, <3>1 DEF LocRecs
    <2>3. InStep(m)
      BY <1>2, <1>3, <1>6, <2>2 DEF LocOK, InStep, Copying, Undoing, Snapping, Expanding, Creates, Deletes
    <2>4. LocOK(m)
      BY <1>2, <2>2, <2>3 DEF LocOK, Removing
    <2>5. Then(t, m)
      BY <1>1, <1>6, <2>1 DEF UndoNext
    <2> QED
      BY <2>4, <2>5, LocKept, ThenStep
  <1>7. CASE ~(err # NoError /\ l.tries > 1) /\ l.rounds > 1
    <2>1. PICK rounds : rounds = l.rounds - 1
      OBVIOUS
    <2>2. Undo(t, end, rounds) /\ rounds \in 0..2
      BY <1>1, <1>3, <1>4, <1>7, <2>1 DEF UndoNext
    <2> QED
      BY <1>1, <1>3, <1>5, <2>2, UndoStep
  <1>8. CASE ~(err # NoError /\ l.tries > 1) /\ ~(l.rounds > 1)
    <2>1. PICK status : status = Status("CreateVolume", end.ex)
      OBVIOUS
    <2>2. Reply(t, status, NoId, end)
      BY <1>1, <1>4, <1>8, <2>1 DEF UndoNext
    <2>3. status \in Statuses /\ status # "OK" /\ (end.ex \in ForeignErrors => status = "INTERNAL")
      BY <1>5, <2>1, StatusIs, RaisedHas DEF Ops, Creates, Deletes
    <2>4. NoId \in Nat /\ NoId < nextId'
      BY DEF NoId, Arrayed
    <2> QED
      BY <1>1, <1>3, <1>5, <2>2, <2>3, <2>4, ReplyStep, RaisedHas DEF Undoing
  <1> QED
    BY <1>6, <1>7, <1>8

\* An exception.
LEMMA RaiseStep ==
  ASSUME Sound, Arrayed', Ages, UNCHANGED bounds \/ Counted', NEW t \in Threads, loc[t].pc # "idle",
         NEW by, NEW ex, [by |-> by, ex |-> ex] \in Raised, Raise(t, by, ex),
         \A d : d = loc[t].id /\ ex = "ObjectNotFoundError" /\ loc[t].call.op \in Deletes => ~Exists(d)'
  PROVE  Sound'
  <1>1. PICK l : l = loc[t]
    OBVIOUS
  <1>2. PICK err : err = [by |-> by, ex |-> ex]
    OBVIOUS
  <1>3. LocOK(l) /\ l \in LocRecs /\ l.call.op \in Ops
    BY <1>1 DEF Sound, LocOK, LocRecs, CallRecs, InStep
  <1>4. err \in Raised /\ err \in Errs /\ err # NoError /\ err.ex = ex
    BY <1>2, RaisedHas
  <1>5. CASE l.undo # NoError
    BY <1>1, <1>2, <1>4, <1>5, UndoNextStep DEF Raise
  <1>6. CASE l.undo = NoError /\ l.pc \in Copying
    <2>1. Undo(t, err, 1) /\ 1 \in 0..2
      BY <1>1, <1>2, <1>6 DEF Raise
    <2>2. l.call.op = "CreateVolume"
      BY <1>3, <1>6 DEF LocOK, InStep
    <2> QED
      BY <1>1, <1>4, <1>6, <2>1, <2>2, UndoStep
  <1>7. CASE l.undo = NoError /\ l.pc \notin Copying
    <2>1. PICK status : status = Status(l.call.op, ex)
      OBVIOUS
    <2>2. PICK id : id = IF status = "OK" THEN l.id ELSE NoId
      OBVIOUS
    <2>3. Reply(t, status, id, err)
      BY <1>1, <1>2, <1>7, <2>1, <2>2 DEF Raise
    <2>4. ex \notin {"none", "NotImplementedError"}
      BY <1>4, RaisedHas
    <2>5. /\ status \in Statuses /\ (ex \in ForeignErrors => status = "INTERNAL")
          /\ status = "OK" => l.call.op \in Deletes /\ ex = "ObjectNotFoundError"
      BY <1>3, <2>1, <2>4, StatusIs
    <2>6. id \in Nat /\ id < nextId'
      BY <1>3, <2>2 DEF LocOK, LocRecs, NoId, Ages, Sound, Arrayed
    <2>7. l.call.op \notin Creates => l.id = l.call.id
      BY <1>3 DEF LocOK, InStep
    <2>8. \A d : d = loc[t].call.id /\ status = "OK" /\ loc[t].call.op \in Deletes => ~Exists(d)'
      BY <1>1, <2>5, <2>7 DEF Creates, Deletes
    <2>9. ~(status = "OK" /\ loc[t].call.op \in Creates)
      BY <1>1, <2>5 DEF Creates, Deletes
    <2> QED
      BY <1>1, <1>4, <2>3, <2>5, <2>6, <2>8, <2>9, ReplyStep
  <1> QED
    BY <1>5, <1>6, <1>7

\* Answers that are no exceptions.
LEMMA RefuseStep ==
  ASSUME Sound, Arrayed', Ages, UNCHANGED bounds \/ Counted', NEW t \in Threads, loc[t].pc # "idle",
         NEW status \in Statuses \ {"OK"}, Refuse(t, status)
  PROVE  Sound'
  <1>1. NoId \in Nat /\ NoId < nextId'
    BY DEF NoId, Arrayed
  <1>2. Reply(t, status, NoId, NoError) /\ NoError \in Errs /\ NoError.ex \notin ForeignErrors
    BY DEF Refuse, Errs, NoError, ForeignErrors
  <1> QED
    BY <1>1, <1>2, ReplyStep

LEMMA OkStep ==
  ASSUME Sound, Arrayed', Ages, UNCHANGED bounds \/ Counted', NEW t \in Threads, loc[t].pc # "idle", Ok(t),
         loc[t].call.op \in Creates => loc[t].id # NoId,
         \A d : d = loc[t].id /\ loc[t].call.op \in Deletes => ~Exists(d)'
  PROVE  Sound'
  <1>1. PICK l : l = loc[t]
    OBVIOUS
  <1>2. LocOK(l)
    BY <1>1 DEF Sound
  <1>3. l.id \in Nat /\ l.id < nextId' /\ (l.call.op \notin Creates => l.id = l.call.id)
    BY <1>2 DEF LocOK, LocRecs, InStep, Ages, Sound, Arrayed
  <1>4. PICK id : id = l.id
    OBVIOUS
  <1>5. PICK err, status : err = NoError /\ status = "OK"
    OBVIOUS
  <1>6. Reply(t, status, id, err) /\ err \in Errs /\ status \in Statuses /\ err.ex \notin ForeignErrors
    BY <1>1, <1>4, <1>5 DEF Ok, Errs, Statuses, NoError, ForeignErrors
  <1>7. \A d : d = loc[t].call.id /\ status = "OK" /\ loc[t].call.op \in Deletes => ~Exists(d)'
    BY <1>1, <1>3 DEF Creates, Deletes
  <1> QED
    BY <1>1, <1>3, <1>4, <1>5, <1>6, <1>7, ReplyStep

\* The steps that a call can be at next.
LEMMA MoveStep ==
  ASSUME Sound, Arrayed', Ages, UNCHANGED bounds, NEW t \in Threads, NEW m \in LocRecs, Then(t, m),
         m.call = loc[t].call, m.undo = loc[t].undo, m.id < nextId', InStep(m),
         m.pc \in Removing /\ Exists(m.id)' => object'[m.id].name = m.from
  PROVE  Sound'
  <1>1. PICK l : l = loc[t]
    OBVIOUS
  <1>2. LocOK(l)'
    BY <1>1, LocKept DEF Sound
  <1>3. LocOK(m)'
    BY <1>1, <1>2 DEF LocOK, InStep
  <1> QED
    BY <1>3, ThenStep

\* The thread of a step.
LEMMA ThreadIs ==
  ASSUME Sound, NEW t \in Threads
  PROVE  /\ LocOK(loc[t]) /\ loc[t] \in LocRecs /\ InStep(loc[t])
         /\ loc[t].call \in CallRecs /\ loc[t].call.op \in Ops \cup {"none"} /\ loc[t].call.name \in Names
         /\ loc[t].call.size \in Nat /\ loc[t].call.id \in Nat /\ loc[t].call.source \in Nat
         /\ loc[t].id \in Nat /\ loc[t].blocks \in Nat /\ loc[t].id < nextId
  <1>1. LocOK(loc[t]) /\ loc[t] \in LocRecs /\ InStep(loc[t]) /\ loc[t].id < nextId
    BY DEF Sound, LocOK
  <1>2. loc[t].call \in CallRecs /\ loc[t].id \in Nat /\ loc[t].blocks \in Nat
    BY <1>1 DEF LocRecs
  <1> QED
    BY <1>1, <1>2 DEF CallRecs

-----------------------------------------------------------------------------
(***************************************************************************)
(* The steps keep the array and the answers sound.                         *)
(***************************************************************************)

LEMMA LookupSound ==
  ASSUME Sound, NEW t \in Threads, Lookup(t)
  PROVE  Sound'
  <1>1. PICK l : l = loc[t]
    OBVIOUS
  <1>2. l \in LocRecs /\ InStep(l) /\ l.pc = "lookup" /\ l.call.op = "CreateVolume" /\ l.id < nextId
    BY <1>1, ThreadIs DEF Lookup, InStep
  <1>3. UNCHANGED bounds /\ Arrayed' /\ Ages /\ nextId' = nextId
    BY NothingChanges DEF Lookup, ReadOnly, Sound, arrayVars
  <1>4. CASE Refuse(t, "OUT_OF_RANGE") \/ Refuse(t, "ALREADY_EXISTS")
    BY <1>1, <1>2, <1>3, <1>4, RefuseStep DEF Statuses
  <1>5. CASE To(t, "create")
    <2>1. PICK m : m = [l EXCEPT !.pc = "create"]
      OBVIOUS
    <2>2. "create" \in Pcs
      BY DEF Pcs
    <2>3. /\ m \in LocRecs /\ m.pc = "create" /\ m.call = l.call /\ m.undo = l.undo /\ m.id = l.id
          /\ Then(t, m)
      BY <1>1, <1>2, <1>5, <2>1, <2>2 DEF LocRecs, To
    <2>4. InStep(m)
      BY <1>2, <2>3 DEF InStep, Copying, Undoing, Snapping, Expanding, Creates
    <2> QED
      BY <1>1, <1>2, <1>3, <2>3, <2>4, MoveStep DEF Removing
  <1>6. CASE Raise(t, "get_volume", "VolumeNameBelongsToSnapshotError")
    BY <1>1, <1>2, <1>3, <1>6, RaiseStep, RaisedIs
  <1>7. ASSUME NEW i \in Called(l.call.name), Reply(t, "OK", i, NoError) PROVE Sound'
    <2>1. i \in Nat \ {0} /\ i < nextId
      BY <1>7, CalledIs, ObjectIs DEF Sound
    <2> QED
      BY <1>1, <1>2, <1>3, <1>7, <2>1, ReplyStep DEF Errs, Statuses, NoId, Deletes, NoError, ForeignErrors
  <1> QED
    BY <1>1, <1>4, <1>5, <1>6, <1>7 DEF Lookup

\* A step that only moves the thread to another step of its call.
LEMMA ToStep ==
  ASSUME Sound, Arrayed', Ages, UNCHANGED bounds, NEW t \in Threads, NEW pc \in Pcs \ Removing,
         To(t, pc), \A m : m.pc = pc /\ m.call = loc[t].call /\ m.undo = loc[t].undo /\ m.id = loc[t].id
                             /\ m.tries = loc[t].tries => InStep(m)
  PROVE  Sound'
  <1>1. PICK l : l = loc[t]
    OBVIOUS
  <1>2. l \in LocRecs /\ l.id \in Nat /\ l.id < nextId
    BY <1>1, ThreadIs
  <1>3. PICK m : m = [l EXCEPT !.pc = pc]
    OBVIOUS
  <1>4. /\ m \in LocRecs /\ m.pc = pc /\ m.call = l.call /\ m.undo = l.undo /\ m.id = l.id
        /\ m.tries = l.tries
    BY <1>2, <1>3 DEF LocRecs
  <1>5. Then(t, m) /\ InStep(m)
    BY <1>1, <1>3, <1>4 DEF To
  <1>6. m.id < nextId'
    BY <1>2, <1>4 DEF Ages, Sound, Arrayed
  <1> QED
    BY <1>1, <1>4, <1>5, <1>6, MoveStep

LEMMA CreateSound ==
  ASSUME Sound, NEW t \in Threads, Create(t)
  PROVE  Sound'
  <1>1. PICK l : l = loc[t]
    OBVIOUS
  <1>2. /\ l \in LocRecs /\ InStep(l) /\ l.pc = "create" /\ l.call.op = "CreateVolume" /\ l.id < nextId
        /\ l.call.name \in Names /\ l.call.size \in Nat /\ l.undo = NoError
    BY <1>1, ThreadIs DEF Create, InStep
  <1>3. UNCHANGED bounds
    BY DEF Create
  <1>4. CASE UNCHANGED arrayVars /\ Raise(t, "create_volume", "VolumeAlreadyExists")
    BY <1>1, <1>2, <1>3, <1>4, NothingChanges, RaiseStep, RaisedIs DEF Sound
  <1>5. CASE /\ Called(l.call.name) = {} /\ VolCreate(l.call.name, ToBlocks(Required(l.call)))
             /\ IF l.call.source = NoId THEN Reply(t, "OK", nextId, NoError)
                ELSE Then(t, [l EXCEPT !.pc = "findSource", !.id = nextId])
    <2>1. ToBlocks(Required(l.call)) \in Nat
      BY <1>2, ProvisioningAssumption DEF ToBlocks, Required
    <2>2. PICK o : o = [NoObject EXCEPT !.name = l.call.name, !.blocks = ToBlocks(Required(l.call))]
      OBVIOUS
    <2>3. o \in Objects /\ o.name = l.call.name /\ o.master = NoId
      BY <1>2, <2>1, <2>2 DEF NoObject, Objects, NoId
    <2>4. PICK n : n = nextId
      OBVIOUS
    <2>5. n \in Ids /\ nextId' = nextId + 1 /\ object' = [object EXCEPT ![n] = o]
      BY <1>5, <2>2, <2>4 DEF VolCreate
    <2>6. Arrayed' /\ Ages
      BY <1>5, <2>3, <2>4, <2>5, ObjectIsMade DEF Sound
    <2>7. n \in Nat \ {0} /\ n < nextId'
      BY <2>4, <2>5 DEF Sound, Arrayed
    <2>8. CASE l.call.source = NoId
      <3>1. Reply(t, "OK", n, NoError)
        BY <1>5, <2>4, <2>8
      <3> QED
        BY <1>1, <1>2, <1>3, <2>6, <2>7, <3>1, ReplyStep
        DEF Errs, Statuses, NoId, Deletes, NoError, ForeignErrors
    <2>9. CASE l.call.source # NoId
      <3>1. PICK m : m = [l EXCEPT !.pc = "findSource", !.id = n]
        OBVIOUS
      <3>2. "findSource" \in Pcs
        BY DEF Pcs, Copying
      <3>3. /\ m \in LocRecs /\ m.pc = "findSource" /\ m.call = l.call /\ m.undo = l.undo /\ m.id = n
            /\ Then(t, m)
        BY <1>2, <1>5, <2>4, <2>7, <2>9, <3>1, <3>2 DEF LocRecs
      <3>4. InStep(m)
        BY <1>2, <2>7, <3>3 DEF InStep, Copying, Undoing, Snapping, Expanding, Creates, NoId
      <3> QED
        BY <1>1, <1>3, <2>6, <2>7, <3>3, <3>4, MoveStep DEF Removing
    <2> QED
      BY <2>8, <2>9
  <1> QED
    BY <1>1, <1>4, <1>5 DEF Create

\* The name that is read of an object's volume.
LEMMA MasterNameIs ==
  ASSUME Sound, NEW i, Exists(i)
  PROVE  /\ MasterName(i) \in Names
         /\ IsSnapshot(i) => \A v \in Ids : v = object[i].master => object[v].name = MasterName(i)
  <1>1. CASE IsSnapshot(i)
    <2>1. PICK k \in Ids : k = object[i].master /\ Exists(k)
      BY <1>1 DEF Sound, Arrayed, Exists
    <2> QED
      BY <1>1, <2>1, ObjectIs DEF MasterName, Sound
  <1>2. CASE ~IsSnapshot(i)
    BY <1>2, ObjectIs DEF MasterName, Sound
  <1> QED
    BY <1>1, <1>2

LEMMA FindSourceSound ==
  ASSUME Sound, NEW t \in Threads, FindSource(t)
  PROVE  Sound'
  <1>1. PICK l : l = loc[t]
    OBVIOUS
  <1>2. /\ l \in LocRecs /\ InStep(l) /\ l.pc = "findSource" /\ l.call.op = "CreateVolume"
        /\ l.id \in Nat /\ l.id < nextId /\ l.undo = NoError
    BY <1>1, ThreadIs DEF FindSource, InStep, Copying
  <1>3. UNCHANGED bounds /\ Arrayed' /\ Ages /\ nextId' = nextId
    BY NothingChanges DEF FindSource, ReadOnly, Sound, arrayVars
  <1>4. PICK err : err = [by |-> "get_object_by_id", ex |-> "ObjectNotFoundError"]
    OBVIOUS
  <1>5. CASE Undo(t, err, 2)
    <2>1. err \in Raised /\ 2 \in 0..2
      BY <1>4, RaisedIs
    <2> QED
      BY <1>1, <1>2, <1>3, <1>5, <2>1, UndoStep DEF Copying
  <1>6. CASE Raise(t, "get_object_by_id", "ExpectedSnapshotButFoundVolumeError")
    BY <1>1, <1>2, <1>3, <1>6, RaiseStep, RaisedIs
  <1>7. ASSUME NEW pc \in {"fmaster", "names"}, Exists(l.call.source),
               Then(t, [l EXCEPT !.pc = pc, !.from = MasterName(l.call.source),
                                 !.blocks = object[l.call.source].blocks])
        PROVE  Sound'
    <2>1. PICK m : m = [l EXCEPT !.pc = pc, !.from = MasterName(l.call.source),
                                 !.blocks = object[l.call.source].blocks]
      OBVIOUS
    <2>2. pc \in Pcs
      BY DEF Pcs, Copying
    <2>3. object[l.call.source].blocks \in Nat /\ MasterName(l.call.source) \in Names
      BY <1>7, ObjectIs, MasterNameIs DEF Sound
    <2>4. /\ m \in LocRecs /\ m.pc = pc /\ m.call = l.call /\ m.undo = l.undo /\ m.id = l.id
          /\ Then(t, m)
      BY <1>2, <1>7, <2>1, <2>2, <2>3 DEF LocRecs
    <2>5. InStep(m)
      BY <1>2, <2>4 DEF InStep, Copying, Undoing, Snapping, Expanding, Creates
    <2> QED
      BY <1>1, <1>2, <1>3, <2>4, <2>5, MoveStep DEF Removing
  <1> QED
    BY <1>1, <1>4, <1>5, <1>6, <1>7 DEF FindSource

LEMMA FindMasterSound ==
  ASSUME Sound, NEW t \in Threads, FindMaster(t)
  PROVE  Sound'
  <1>1. PICK l : l = loc[t]
    OBVIOUS
  <1>2. /\ l \in LocRecs /\ InStep(l) /\ l.pc \in {"fmaster", "smaster", "cmaster"}
        /\ l.call.op \in Creates /\ l.id # NoId /\ (l.pc = "fmaster" => l.call.op = "CreateVolume")
        /\ l.undo = NoError
    BY <1>1, ThreadIs DEF FindMaster, InStep, Copying, Snapping, Creates
  <1>3. UNCHANGED bounds /\ Arrayed' /\ Ages /\ nextId' = nextId
    BY NothingChanges DEF FindMaster, ReadOnly, Sound, arrayVars
  <1>4. ASSUME NEW by \in {"get_object_by_id", "get_snapshot", "create_snapshot"},
               Raise(t, by, "AttributeError")
        PROVE  Sound'
    BY <1>1, <1>2, <1>3, <1>4, RaiseStep, RaisedIs
  <1>5. CASE To(t, "names") /\ l.pc = "fmaster"
    <2>1. "names" \in Pcs \ Removing
      BY DEF Pcs, Copying, Removing
    <2>2. ASSUME NEW m, m.pc = "names", m.call = l.call, m.undo = l.undo, m.id = l.id PROVE InStep(m)
      BY <1>2, <1>5, <2>2 DEF InStep, Copying, Undoing, Snapping, Expanding, Creates
    <2> QED
      BY <1>1, <1>3, <1>5, <2>1, <2>2, ToStep
  <1>6. CASE Ok(t)
    BY <1>1, <1>2, <1>3, <1>6, OkStep DEF Creates, Deletes
  <1>7. CASE Refuse(t, "ALREADY_EXISTS")
    BY <1>1, <1>2, <1>3, <1>7, RefuseStep DEF Statuses
  <1>8. CASE l.pc = "fmaster"
    BY <1>1, <1>4, <1>5, <1>8 DEF FindMaster
  <1>9. CASE l.pc = "smaster"
    BY <1>1, <1>4, <1>6, <1>7, <1>9 DEF FindMaster
  <1>10. CASE l.pc = "cmaster"
    BY <1>1, <1>4, <1>6, <1>10 DEF FindMaster
  <1> QED
    BY <1>2, <1>8, <1>9, <1>10

LEMMA FindNamesSound ==
  ASSUME Sound, NEW t \in Threads, FindNames(t)
  PROVE  Sound'
  <1>1. PICK l : l = loc[t]
    OBVIOUS
  <1>2. /\ l \in LocRecs /\ InStep(l) /\ l.pc = "names" /\ l.call.op = "CreateVolume"
        /\ l.id \in Nat /\ l.id < nextId /\ l.undo = NoError
    BY <1>1, ThreadIs DEF FindNames, InStep, Copying
  <1>3. UNCHANGED bounds /\ Arrayed' /\ Ages /\ nextId' = nextId
    BY NothingChanges DEF FindNames, ReadOnly, Sound, arrayVars
  <1>4. CASE Raise(t, "copy_to_existing_volume_from_source", "ObjectNotFoundError")
    BY <1>1, <1>2, <1>3, <1>4, RaiseStep, RaisedIs DEF Deletes
  <1>5. CASE /\ Exists(l.call.source)
             /\ Then(t, [l EXCEPT !.pc = "format", !.from = object[l.call.source].name])
    <2>1. PICK m : m = [l EXCEPT !.pc = "format", !.from = object[l.call.source].name]
      OBVIOUS
    <2>2. "format" \in Pcs /\ object[l.call.source].name \in Names
      BY <1>5, ObjectIs DEF Pcs, Copying, Sound
    <2>3. /\ m \in LocRecs /\ m.pc = "format" /\ m.call = l.call /\ m.undo = l.undo /\ m.id = l.id
          /\ Then(t, m)
      BY <1>2, <1>5, <2>1, <2>2 DEF LocRecs
    <2>4. InStep(m)
      BY <1>2, <2>3 DEF InStep, Copying, Undoing, Snapping, Expanding, Creates
    <2> QED
      BY <1>1, <1>2, <1>3, <2>3, <2>4, MoveStep DEF Removing
  <1> QED
    BY <1>1, <1>4, <1>5 DEF FindNames

\* The commands that change an object.
LEMMA FormatIs ==
  ASSUME Arrayed, NEW i, Exists(i), VolFormat(i), NEW o, o = [object[i] EXCEPT !.data = NoId]
  PROVE  o \in Objects /\ nextId' = nextId /\ object' = [object EXCEPT ![i] = o]
         /\ o.name = object[i].name /\ o.master = object[i].master /\ o.blocks = object[i].blocks
         /\ o.copied = object[i].copied /\ o.data = NoId
  <1>1. object[i] \in Objects
    BY ObjectIs
  <1> QED
    BY <1>1 DEF VolFormat, Objects, NoId

LEMMA CopyIs ==
  ASSUME Arrayed, NEW i, Exists(i), NEW s, Exists(s), VolCopy(s, i)
  PROVE  \E o \in Objects : /\ nextId' = nextId /\ object' = [object EXCEPT ![i] = o]
                            /\ o.name = object[i].name /\ o.master = object[i].master
                            /\ o.blocks = object[s].blocks /\ o.copied = s /\ o.data = s
  <1>1. PICK o : o = [object[i] EXCEPT !.blocks = object[s].blocks, !.copied = s, !.data = s]
    OBVIOUS
  <1>2. object[i] \in Objects /\ object[s].blocks \in Nat /\ s \in Nat /\ i \in Ids
    BY ObjectIs
  <1>3. o \in Objects /\ o.name = object[i].name /\ o.master = object[i].master
        /\ o.blocks = object[s].blocks /\ o.copied = s /\ o.data = s
    BY <1>1, <1>2 DEF Objects
  <1>4. object' = [object EXCEPT ![i] = o]
    BY <1>1, <1>2 DEF VolCopy, Arrayed
  <1> QED
    BY <1>3, <1>4 DEF VolCopy

LEMMA ResizeIs ==
  ASSUME Arrayed, NEW i, Exists(i), NEW blocks \in Nat, VolResize(i, blocks),
         NEW o, o = [object[i] EXCEPT !.blocks = blocks]
  PROVE  o \in Objects /\ nextId' = nextId /\ object' = [object EXCEPT ![i] = o]
         /\ o.name = object[i].name /\ o.master = object[i].master /\ o.blocks = blocks
         /\ o.copied = object[i].copied /\ o.data = object[i].data
  <1>1. object[i] \in Objects
    BY ObjectIs
  <1> QED
    BY <1>1 DEF VolResize, Objects

LEMMA FormatSound ==
  ASSUME Sound, NEW t \in Threads, Format(t)
  PROVE  Sound'
  <1>1. PICK l : l = loc[t]
    OBVIOUS
  <1>2. /\ l \in LocRecs /\ InStep(l) /\ l.pc = "format" /\ l.call.op = "CreateVolume"
        /\ l.id \in Nat /\ l.id < nextId /\ l.undo = NoError
    BY <1>1, ThreadIs DEF Format, InStep, Copying
  <1>3. UNCHANGED bounds
    BY DEF Format
  <1>4. CASE UNCHANGED arrayVars /\ Raise(t, "copy_to_existing_volume_from_source", "ObjectNotFoundError")
    BY <1>1, <1>2, <1>3, <1>4, NothingChanges, RaiseStep, RaisedIs DEF Sound, Deletes
  <1>5. ASSUME NEW i \in Called(l.call.name), VolFormat(i), To(t, "copy") PROVE Sound'
    <2>1. Exists(i)
      BY <1>5, CalledIs DEF Sound
    <2>2. PICK o : o = [object[i] EXCEPT !.data = NoId]
      OBVIOUS
    <2>3. Arrayed' /\ Ages
      BY <1>5, <2>1, <2>2, FormatIs, ObjectIsChanged DEF Sound
    <2>4. "copy" \in Pcs \ Removing
      BY DEF Pcs, Copying, Removing
    <2>5. ASSUME NEW m, m.pc = "copy", m.call = l.call, m.undo = l.undo, m.id = l.id PROVE InStep(m)
      BY <1>2, <2>5 DEF InStep, Copying, Undoing, Snapping, Expanding, Creates
    <2> QED
      BY <1>1, <1>3, <1>5, <2>3, <2>4, <2>5, ToStep
  <1> QED
    BY <1>1, <1>4, <1>5 DEF Format

LEMMA CopySound ==
  ASSUME Sound, NEW t \in Threads, Copy(t)
  PROVE  Sound'
  <1>1. PICK l : l = loc[t]
    OBVIOUS
  <1>2. /\ l \in LocRecs /\ InStep(l) /\ l.pc = "copy" /\ l.call.op = "CreateVolume"
        /\ l.id # NoId /\ l.undo = NoError
    BY <1>1, ThreadIs DEF Copy, InStep, Copying
  <1>3. UNCHANGED bounds
    BY DEF Copy
  <1>4. CASE UNCHANGED arrayVars /\ Raise(t, "copy_to_existing_volume_from_source", "ObjectNotFoundError")
    BY <1>1, <1>2, <1>3, <1>4, NothingChanges, RaiseStep, RaisedIs DEF Sound, Deletes
  <1>5. ASSUME NEW s \in Called(l.from), NEW i \in Called(l.call.name), VolCopy(s, i),
               To(t, "resize") \/ Ok(t)
        PROVE  Sound'
    <2>1. Exists(i) /\ Exists(s)
      BY <1>5, CalledIs DEF Sound
    <2>2. PICK o \in Objects : /\ nextId' = nextId /\ object' = [object EXCEPT ![i] = o]
                              /\ o.name = object[i].name /\ o.master = object[i].master
      BY <1>5, <2>1, CopyIs DEF Sound
    <2>3. Arrayed' /\ Ages
      BY <2>1, <2>2, ObjectIsChanged DEF Sound
    <2>4. "resize" \in Pcs \ Removing
      BY DEF Pcs, Copying, Removing
    <2>5. ASSUME NEW m, m.pc = "resize", m.call = l.call, m.undo = l.undo, m.id = l.id PROVE InStep(m)
      BY <1>2, <2>5 DEF InStep, Copying, Undoing, Snapping, Expanding, Creates
    <2>6. CASE To(t, "resize")
      BY <1>1, <1>3, <2>3, <2>4, <2>5, <2>6, ToStep
    <2>7. CASE Ok(t)
      BY <1>1, <1>2, <1>3, <2>3, <2>7, OkStep DEF Deletes
    <2> QED
      BY <1>5, <2>6, <2>7
  <1> QED
    BY <1>1, <1>4, <1>5 DEF Copy

LEMMA ResizeSound ==
  ASSUME Sound, NEW t \in Threads, Resize(t)
  PROVE  Sound'
  <1>1. PICK l : l = loc[t]
    OBVIOUS
  <1>2. /\ l \in LocRecs /\ InStep(l) /\ l.pc = "resize" /\ l.call.op = "CreateVolume"
        /\ l.id # NoId /\ l.undo = NoError /\ l.call.size \in Nat
    BY <1>1, ThreadIs DEF Resize, InStep, Copying
  <1>3. UNCHANGED bounds
    BY DEF Resize
  <1>4. ASSUME UNCHANGED arrayVars, NEW ex \in {"ObjectNotFoundError", "XCLIError"},
               Raise(t, "copy_to_existing_volume_from_source", ex)
        PROVE  Sound'
    BY <1>1, <1>2, <1>3, <1>4, NothingChanges, RaiseStep, RaisedIs DEF Sound, Deletes
  <1>5. ASSUME NEW i \in Called(l.call.name), VolResize(i, ToBlocks(Required(l.call))), Ok(t)
        PROVE  Sound'
    <2>1. Exists(i)
      BY <1>5, CalledIs DEF Sound
    <2>2. PICK blocks \in Nat : blocks = ToBlocks(Required(l.call))
      BY <1>2, ProvisioningAssumption DEF ToBlocks, Required
    <2>3. PICK o : o = [object[i] EXCEPT !.blocks = blocks]
      OBVIOUS
    <2>4. Arrayed' /\ Ages
      BY <1>5, <2>1, <2>2, <2>3, ResizeIs, ObjectIsChanged DEF Sound
    <2> QED
      BY <1>1, <1>2, <1>3, <1>5, <2>4, OkStep DEF Deletes
  <1> QED
    BY <1>1, <1>4, <1>5 DEF Resize

LEMMA SnapshotLookupSound ==
  ASSUME Sound, NEW t \in Threads, SnapshotLookup(t)
  PROVE  Sound'
  <1>1. PICK l : l = loc[t]
    OBVIOUS
  <1>2. l \in LocRecs /\ InStep(l) /\ l.pc = "slook" /\ l.call.op = "CreateSnapshot" /\ l.undo = NoError
    BY <1>1, ThreadIs DEF SnapshotLookup, InStep, Snapping
  <1>3. UNCHANGED bounds /\ Arrayed' /\ Ages /\ nextId' = nextId
    BY NothingChanges DEF SnapshotLookup, ReadOnly, Sound, arrayVars
  <1>4. CASE To(t, "ssource")
    <2>1. "ssource" \in Pcs \ Removing
      BY DEF Pcs, Snapping, Removing
    <2>2. ASSUME NEW m, m.pc = "ssource", m.call = l.call, m.undo = l.undo, m.id = l.id PROVE InStep(m)
      BY <1>2, <2>2 DEF InStep, Copying, Undoing, Snapping, Expanding, Creates
    <2> QED
      BY <1>1, <1>3, <1>4, <2>1, <2>2, ToStep
  <1>5. CASE Raise(t, "get_snapshot", "ExpectedSnapshotButFoundVolumeError")
    BY <1>1, <1>2, <1>3, <1>5, RaiseStep, RaisedIs
  <1>6. CASE Refuse(t, "ALREADY_EXISTS")
    BY <1>1, <1>2, <1>3, <1>6, RefuseStep DEF Statuses
  <1>7. ASSUME NEW i \in Called(l.call.name),
               \/ Reply(t, "OK", i, NoError)
               \/ Then(t, [l EXCEPT !.pc = "smaster", !.id = i, !.from = MasterName(i)])
        PROVE  Sound'
    <2>1. i \in Nat \ {0} /\ i < nextId
      BY <1>7, CalledIs, ObjectIs DEF Sound
    <2>2. CASE Reply(t, "OK", i, NoError)
      BY <1>1, <1>2, <1>3, <2>1, <2>2, ReplyStep
      DEF Errs, Statuses, NoId, Deletes, NoError, ForeignErrors
    <2>3. CASE Then(t, [l EXCEPT !.pc = "smaster", !.id = i, !.from = MasterName(i)])
      <3>1. PICK m : m = [l EXCEPT !.pc = "smaster", !.id = i, !.from = MasterName(i)]
        OBVIOUS
      <3>2. "smaster" \in Pcs /\ MasterName(i) \in Names
        BY <1>7, MasterNameIs DEF Pcs, Snapping, Called
      <3>3. /\ m \in LocRecs /\ m.pc = "smaster" /\ m.call = l.call /\ m.undo = l.undo /\ m.id = i
            /\ Then(t, m)
        BY <1>2, <2>1, <2>3, <3>1, <3>2 DEF LocRecs
      <3>4. InStep(m)
        BY <1>2, <2>1, <3>3 DEF InStep, Copying, Undoing, Snapping, Expanding, Creates, NoId
      <3> QED
        BY <1>1, <1>3, <2>1, <3>3, <3>4, MoveStep DEF Removing
    <2> QED
      BY <1>7, <2>2, <2>3
  <1> QED
    BY <1>1, <1>4, <1>5, <1>6, <1>7 DEF SnapshotLookup

LEMMA SnapshotSourceSound ==
  ASSUME Sound, NEW t \in Threads, SnapshotSource(t)
  PROVE  Sound'
  <1>1. PICK l : l = loc[t]
    OBVIOUS
  <1>2. /\ l \in LocRecs /\ InStep(l) /\ l.pc = "ssource" /\ l.call.op = "CreateSnapshot"
        /\ l.undo = NoError /\ l.id < nextId
    BY <1>1, ThreadIs DEF SnapshotSource, InStep, Snapping
  <1>3. UNCHANGED bounds /\ Arrayed' /\ Ages /\ nextId' = nextId
    BY NothingChanges DEF SnapshotSource, ReadOnly, Sound, arrayVars
  <1>4. CASE Raise(t, "create_snapshot", "AttributeError")
    BY <1>1, <1>2, <1>3, <1>4, RaiseStep, RaisedIs
  <1>5. CASE /\ Exists(l.call.source)
             /\ Then(t, [l EXCEPT !.pc = "snap", !.from = object[l.call.source].name])
    <2>1. PICK m : m = [l EXCEPT !.pc = "snap", !.from = object[l.call.source].name]
      OBVIOUS
    <2>2. "snap" \in Pcs /\ object[l.call.source].name \in Names
      BY <1>5, ObjectIs DEF Pcs, Snapping, Sound
    <2>3. /\ m \in LocRecs /\ m.pc = "snap" /\ m.call = l.call /\ m.undo = l.undo /\ m.id = l.id
          /\ Then(t, m)
      BY <1>2, <1>5, <2>1, <2>2 DEF LocRecs
    <2>4. InStep(m)
      BY <1>2, <2>3 DEF InStep, Copying, Undoing, Snapping, Expanding, Creates
    <2> QED
      BY <1>1, <1>2, <1>3, <2>3, <2>4, MoveStep DEF Removing
  <1> QED
    BY <1>1, <1>4, <1>5 DEF SnapshotSource

LEMMA SnapSound ==
  ASSUME Sound, NEW t \in Threads, Snap(t)
  PROVE  Sound'
  <1>1. PICK l : l = loc[t]
    OBVIOUS
  <1>2. /\ l \in LocRecs /\ InStep(l) /\ l.pc = "snap" /\ l.call.op = "CreateSnapshot"
        /\ l.undo = NoError /\ l.call.name \in Names
    BY <1>1, ThreadIs DEF Snap, InStep, Snapping
  <1>3. UNCHANGED bounds
    BY DEF Snap
  <1>4. ASSUME UNCHANGED arrayVars, NEW ex \in {"SnapshotAlreadyExists", "ObjectNotFoundError", "XCLIError"},
               Raise(t, "create_snapshot", ex)
        PROVE  Sound'
    BY <1>1, <1>2, <1>3, <1>4, NothingChanges, RaiseStep, RaisedIs DEF Sound, Deletes
  <1>5. ASSUME Called(l.call.name) = {}, NEW s \in Called(l.from), ~IsSnapshot(s),
               SnapshotCreate(l.call.name, s),
               \/ Then(t, [l EXCEPT !.pc = "cmaster", !.id = nextId])
               \/ Reply(t, "OK", nextId, NoError)
        PROVE  Sound'
    <2>1. Exists(s) /\ s \in Nat /\ object[s].blocks \in Nat
      BY <1>5, CalledIs, ObjectIs DEF Sound
    <2>2. PICK o : o = [name |-> l.call.name, blocks |-> object[s].blocks, master |-> s,
                        copied |-> s, data |-> s]
      OBVIOUS
    <2>3. o \in Objects /\ o.name = l.call.name /\ o.master = s
      BY <1>2, <2>1, <2>2 DEF Objects
    <2>4. PICK n : n = nextId
      OBVIOUS
    <2>5. n \in Ids /\ nextId' = nextId + 1 /\ object' = [object EXCEPT ![n] = o]
      BY <1>5, <2>2, <2>4 DEF SnapshotCreate
    <2>6. Arrayed' /\ Ages
      BY <1>5, <2>1, <2>3, <2>4, <2>5, ObjectIsMade DEF Sound
    <2>7. n \in Nat \ {0} /\ n < nextId'
      BY <2>4, <2>5 DEF Sound, Arrayed
    <2>8. CASE Reply(t, "OK", n, NoError)
      BY <1>1, <1>2, <1>3, <2>6, <2>7, <2>8, ReplyStep
      DEF Errs, Statuses, NoId, Deletes, NoError, ForeignErrors
    <2>9. CASE Then(t, [l EXCEPT !.pc = "cmaster", !.id = nextId])
      <3>1. PICK m : m = [l EXCEPT !.pc = "cmaster", !.id = n]
        OBVIOUS
      <3>2. "cmaster" \in Pcs
        BY DEF Pcs, Snapping
      <3>3. /\ m \in LocRecs /\ m.pc = "cmaster" /\ m.call = l.call /\ m.undo = l.undo /\ m.id = n
            /\ Then(t, m)
        BY <1>2, <2>4, <2>7, <2>9, <3>1, <3>2 DEF LocRecs
      <3>4. InStep(m)
        BY <1>2, <2>7, <3>3 DEF InStep, Copying, Undoing, Snapping, Expanding, Creates, NoId
      <3> QED
        BY <1>1, <1>3, <2>6, <2>7, <3>3, <3>4, MoveStep DEF Removing
    <2> QED
      BY <1>5, <2>4, <2>8, <2>9
  <1> QED
    BY <1>1, <1>4, <1>5 DEF Snap

LEMMA FindObjectSound ==
  ASSUME Sound, NEW t \in Threads, FindObject(t)
  PROVE  Sound'
  <1>1. PICK l : l = loc[t]
    OBVIOUS
  <1>2. /\ l \in LocRecs /\ InStep(l) /\ l.pc = "find" /\ l.id < nextId
        /\ l.call.op \in Deletes \cup {"CreateVolume"}
    BY <1>1, ThreadIs DEF FindObject, InStep, Undoing
  <1>3. UNCHANGED bounds /\ Arrayed' /\ Ages /\ nextId' = nextId /\ object' = object
    BY NothingChanges DEF FindObject, ReadOnly, Sound, arrayVars
  <1>4. CASE ~Exists(l.id) /\ Raise(t, Deleter(t), "ObjectNotFoundError")
    <2>1. Deleter(t) \in {"delete_snapshot", "delete_volume"}
      BY DEF Deleter
    <2>2. [by |-> Deleter(t), ex |-> "ObjectNotFoundError"] \in Raised
      BY <2>1, RaisedIs
    <2>3. ~Exists(l.id)'
      BY <1>3, <1>4 DEF Exists
    <2> QED
      BY <1>1, <1>2, <1>3, <1>4, <2>2, <2>3, RaiseStep
  <1>5. ASSUME Exists(l.id), NEW pc,
               pc = IF l.call.op = "DeleteSnapshot" THEN "rmsnapshot" ELSE "snapshots",
               Then(t, [l EXCEPT !.from = object[l.id].name, !.pc = pc])
        PROVE  Sound'
    <2>1. PICK m : m = [l EXCEPT !.from = object[l.id].name, !.pc = pc]
      OBVIOUS
    <2>2. pc \in Pcs /\ object[l.id].name \in Names
      BY <1>5, ObjectIs DEF Pcs, Removing, Sound
    <2>3. /\ m \in LocRecs /\ m.pc = pc /\ m.call = l.call /\ m.undo = l.undo /\ m.id = l.id
          /\ m.from = object[l.id].name /\ Then(t, m) /\ m.tries = l.tries
      BY <1>2, <1>5, <2>1, <2>2 DEF LocRecs
    <2>4. InStep(m)
      BY <1>2, <1>5, <2>3 DEF InStep, Copying, Undoing, Snapping, Expanding, Creates, Deletes
    <2> QED
      BY <1>1, <1>2, <1>3, <2>3, <2>4, MoveStep
  <1> QED
    BY <1>1, <1>4, <1>5 DEF FindObject

LEMMA ListSnapshotsSound ==
  ASSUME Sound, NEW t \in Threads, ListSnapshots(t)
  PROVE  Sound'
  <1>1. PICK l : l = loc[t]
    OBVIOUS
  <1>2. /\ LocOK(l) /\ l \in LocRecs /\ InStep(l) /\ l.pc = "snapshots" /\ l.id < nextId
        /\ l.call.op \in {"DeleteVolume", "CreateVolume"}
    BY <1>1, ThreadIs DEF ListSnapshots, InStep, Undoing, Deletes
  <1>3. UNCHANGED bounds /\ Arrayed' /\ Ages /\ nextId' = nextId /\ object' = object
    BY NothingChanges DEF ListSnapshots, ReadOnly, Sound, arrayVars
  <1>4. ASSUME NEW ex \in {"XCLIError", "ObjectIsStillInUseError"}, Raise(t, "delete_volume", ex)
        PROVE  Sound'
    BY <1>1, <1>2, <1>3, <1>4, RaiseStep, RaisedIs
  <1>5. CASE To(t, "rmvolume")
    <2>1. PICK m : m = [l EXCEPT !.pc = "rmvolume"]
      OBVIOUS
    <2>2. "rmvolume" \in Pcs
      BY DEF Pcs, Removing
    <2>3. /\ m \in LocRecs /\ m.pc = "rmvolume" /\ m.call = l.call /\ m.undo = l.undo /\ m.id = l.id
          /\ m.from = l.from /\ Then(t, m) /\ m.tries = l.tries
      BY <1>1, <1>2, <1>5, <2>1, <2>2 DEF LocRecs, To
    <2>4. InStep(m)
      BY <1>2, <2>3 DEF InStep, Copying, Undoing, Snapping, Expanding, Creates, Deletes
    <2>5. Exists(m.id)' => object'[m.id].name = m.from
      BY <1>2, <1>3, <2>3 DEF LocOK, Exists, Removing
    <2> QED
      BY <1>1, <1>2, <1>3, <2>3, <2>4, <2>5, MoveStep
  <1> QED
    BY <1>1, <1>4, <1>5 DEF ListSnapshots

\* vol_delete of a volume and snapshot_delete of a snapshot.
LEMMA RemovalIs ==
  ASSUME Arrayed, NEW i, Exists(i), IF IsSnapshot(i) THEN SnapshotDelete(i) ELSE VolDelete(i)
  PROVE  /\ Arrayed' /\ Ages /\ nextId' = nextId
         /\ \A j : Exists(j)' <=> Exists(j) /\ j # i /\ object[j].master # i
         /\ \A j : Exists(j)' => object'[j] = object[j]
  <1>1. i \in Nat \ {0} /\ i \in Ids
    BY ObjectIs
  <1>2. PICK gone : gone = IF IsSnapshot(i) THEN {i} ELSE {i} \cup Snapshots(i)
    OBVIOUS
  <1>3. Remove(gone)
    BY <1>2 DEF SnapshotDelete, VolDelete, Remove, Snapshots
  <1>4. ASSUME NEW j \in Ids, Exists(j) PROVE j \in gone <=> j = i \/ object[j].master = i
    <2>1. CASE IsSnapshot(i)
      <3>1. object[j].master # i
        BY <1>1, <1>4, <2>1 DEF Arrayed, IsSnapshot, NoId
      <3> QED
        BY <1>2, <2>1, <3>1
    <2>2. CASE ~IsSnapshot(i)
      BY <1>2, <1>4, <2>2 DEF Snapshots
    <2> QED
      BY <2>1, <2>2
  <1>5. ASSUME NEW j \in Ids, Exists(j), object[j].master \in gone \ {NoId} PROVE j \in gone
    <2>1. PICK k \in Ids : k = object[j].master /\ Exists(k) /\ ~IsSnapshot(k)
      BY <1>5 DEF Arrayed, IsSnapshot
    <2>2. k = i
      BY <1>1, <1>4, <1>5, <2>1 DEF IsSnapshot, NoId
    <2> QED
      BY <1>4, <1>5, <2>1, <2>2
  <1>6. /\ Arrayed' /\ Ages /\ nextId' = nextId
        /\ \A j : Exists(j)' <=> Exists(j) /\ j \notin gone
        /\ \A j \in Ids : j \notin gone => object'[j] = object[j]
    BY <1>3, <1>5, ObjectsAreRemoved
  <1>7. \A j : Exists(j) => j \in Ids
    BY DEF Exists
  <1> QED
    BY <1>4, <1>6, <1>7

LEMMA RemoveObjectSound ==
  ASSUME Sound, NEW t \in Threads, RemoveObject(t)
  PROVE  Sound'
  <1>1. PICK l : l = loc[t]
    OBVIOUS
  <1>2. /\ LocOK(l) /\ l \in LocRecs /\ InStep(l) /\ l.pc \in {"rmvolume", "rmsnapshot"}
        /\ l.id < nextId /\ l.call.op \in Deletes \cup {"CreateVolume"}
    BY <1>1, ThreadIs DEF RemoveObject, InStep, Undoing, Deletes
  <1>3. UNCHANGED bounds
    BY DEF RemoveObject
  <1>4. \A ex \in {"ObjectNotFoundError", "XCLIError"} : [by |-> Deleter(t), ex |-> ex] \in Raised
    BY RaisedIs DEF Deleter
  <1>5. CASE UNCHANGED arrayVars /\ Called(l.from) = {} /\ Raise(t, Deleter(t), "ObjectNotFoundError")
    <2>1. ~Exists(l.id)
      BY <1>2, <1>5, CalledIs DEF Sound, LocOK, Removing
    <2>2. ~Exists(l.id)'
      BY <1>5, <2>1 DEF arrayVars, Exists
    <2> QED
      BY <1>1, <1>2, <1>3, <1>4, <1>5, <2>2, NothingChanges, RaiseStep DEF Sound
  <1>6. CASE UNCHANGED arrayVars /\ Raise(t, Deleter(t), "XCLIError")
    BY <1>1, <1>2, <1>3, <1>4, <1>6, NothingChanges, RaiseStep DEF Sound
  <1>7. ASSUME NEW i \in Called(l.from), IsSnapshot(i) = (l.pc = "rmsnapshot"),
               IF l.pc = "rmvolume" THEN VolDelete(i) ELSE SnapshotDelete(i),
               IF l.undo = NoError THEN Ok(t) ELSE UndoNext(t, NoError)
        PROVE  Sound'
    <2>1. Exists(i) /\ object[i].name = l.from
      BY <1>7, CalledIs DEF Sound
    <2>2. IF IsSnapshot(i) THEN SnapshotDelete(i) ELSE VolDelete(i)
      BY <1>2, <1>7
    <2>3. Arrayed' /\ Ages /\ \A j : Exists(j)' => Exists(j) /\ j # i
      BY <2>1, <2>2, RemovalIs DEF Sound
    <2>4. CASE l.undo = NoError
      <3>1. l.call.op \in Deletes
        BY <1>2, <2>4 DEF InStep, Undoing
      <3>2. ~Exists(l.id)'
        BY <1>2, <2>1, <2>3 DEF LocOK, Removing, Sound, Arrayed, Exists
      <3> QED
        BY <1>1, <1>2, <1>3, <1>7, <2>3, <2>4, <3>1, <3>2, OkStep DEF Creates, Deletes
    <2>5. CASE l.undo # NoError
      <3>1. NoError \in Errs
        BY DEF Errs
      <3> QED
        BY <1>1, <1>3, <1>7, <2>3, <2>5, <3>1, UndoNextStep
    <2> QED
      BY <2>4, <2>5
  <1> QED
    BY <1>1, <1>5, <1>6, <1>7 DEF RemoveObject

LEMMA ExpandLookupSound ==
  ASSUME Sound, NEW t \in Threads, ExpandLookup(t)
  PROVE  Sound'
  <1>1. PICK l : l = loc[t]
    OBVIOUS
  <1>2. l \in LocRecs /\ InStep(l) /\ l.pc = "xlook" /\ l.call.op = "Expand"
    BY <1>1, ThreadIs DEF ExpandLookup, InStep, Expanding
  <1>3. UNCHANGED bounds /\ Arrayed' /\ Ages /\ nextId' = nextId
    BY NothingChanges DEF ExpandLookup, ReadOnly, Sound, arrayVars
  <1>4. CASE Refuse(t, "NOT_FOUND") \/ Refuse(t, "OUT_OF_RANGE")
    BY <1>1, <1>2, <1>3, <1>4, RefuseStep DEF Statuses
  <1>5. CASE Ok(t)
    BY <1>1, <1>2, <1>3, <1>5, OkStep DEF Creates, Deletes
  <1>6. CASE To(t, "xfind")
    <2>1. "xfind" \in Pcs \ Removing
      BY DEF Pcs, Expanding, Removing
    <2>2. ASSUME NEW m, m.pc = "xfind", m.call = l.call, m.undo = l.undo, m.id = l.id PROVE InStep(m)
      BY <1>2, <2>2 DEF InStep, Copying, Undoing, Snapping, Expanding, Creates
    <2> QED
      BY <1>1, <1>3, <1>6, <2>1, <2>2, ToStep
  <1> QED
    BY <1>1, <1>4, <1>5, <1>6 DEF ExpandLookup

LEMMA ExpandFindSound ==
  ASSUME Sound, NEW t \in Threads, ExpandFind(t)
  PROVE  Sound'
  <1>1. PICK l : l = loc[t]
    OBVIOUS
  <1>2. l \in LocRecs /\ InStep(l) /\ l.pc = "xfind" /\ l.call.op = "Expand" /\ l.id < nextId
    BY <1>1, ThreadIs DEF ExpandFind, InStep, Expanding
  <1>3. UNCHANGED bounds /\ Arrayed' /\ Ages /\ nextId' = nextId
    BY NothingChanges DEF ExpandFind, ReadOnly, Sound, arrayVars
  <1>4. CASE Raise(t, "expand_volume", "ObjectNotFoundError")
    BY <1>1, <1>2, <1>3, <1>4, RaiseStep, RaisedIs DEF Deletes
  <1>5. CASE Exists(l.id) /\ Then(t, [l EXCEPT !.pc = "xresize", !.from = object[l.id].name])
    <2>1. PICK m : m = [l EXCEPT !.pc = "xresize", !.from = object[l.id].name]
      OBVIOUS
    <2>2. "xresize" \in Pcs /\ object[l.id].name \in Names
      BY <1>5, ObjectIs DEF Pcs, Expanding, Sound
    <2>3. /\ m \in LocRecs /\ m.pc = "xresize" /\ m.call = l.call /\ m.undo = l.undo /\ m.id = l.id
          /\ Then(t, m)
      BY <1>2, <1>5, <2>1, <2>2 DEF LocRecs
    <2>4. InStep(m)
      BY <1>2, <2>3 DEF InStep, Copying, Undoing, Snapping, Expanding, Creates
    <2> QED
      BY <1>1, <1>2, <1>3, <2>3, <2>4, MoveStep DEF Removing
  <1> QED
    BY <1>1, <1>4, <1>5 DEF ExpandFind

LEMMA ExpandResizeSound ==
  ASSUME Sound, NEW t \in Threads, ExpandResize(t)
  PROVE  Sound'
  <1>1. PICK l : l = loc[t]
    OBVIOUS
  <1>2. l \in LocRecs /\ InStep(l) /\ l.pc = "xresize" /\ l.call.op = "Expand" /\ l.call.size \in Nat
    BY <1>1, ThreadIs DEF ExpandResize, InStep, Expanding
  <1>3. UNCHANGED bounds
    BY DEF ExpandResize
  <1>4. ASSUME UNCHANGED arrayVars, NEW ex \in {"ObjectNotFoundError", "XCLIError"},
               Raise(t, "expand_volume", ex)
        PROVE  Sound'
    BY <1>1, <1>2, <1>3, <1>4, NothingChanges, RaiseStep, RaisedIs DEF Sound, Deletes
  <1>5. ASSUME NEW i \in Called(l.from), VolResize(i, ToBlocks(l.call.size)), To(t, "xafter")
        PROVE  Sound'
    <2>1. Exists(i)
      BY <1>5, CalledIs DEF Sound
    <2>2. PICK blocks \in Nat : blocks = ToBlocks(l.call.size)
      BY <1>2, ProvisioningAssumption DEF ToBlocks
    <2>3. PICK o : o = [object[i] EXCEPT !.blocks = blocks]
      OBVIOUS
    <2>4. Arrayed' /\ Ages
      BY <1>5, <2>1, <2>2, <2>3, ResizeIs, ObjectIsChanged DEF Sound
    <2>5. "xafter" \in Pcs \ Removing
      BY DEF Pcs, Expanding, Removing
    <2>6. ASSUME NEW m, m.pc = "xafter", m.call = l.call, m.undo = l.undo, m.id = l.id PROVE InStep(m)
      BY <1>2, <2>6 DEF InStep, Copying, Undoing, Snapping, Expanding, Creates
    <2> QED
      BY <1>1, <1>3, <1>5, <2>4, <2>5, <2>6, ToStep
  <1> QED
    BY <1>1, <1>4, <1>5 DEF ExpandResize

LEMMA ExpandAfterSound ==
  ASSUME Sound, NEW t \in Threads, ExpandAfter(t)
  PROVE  Sound'
  <1>1. loc[t].pc = "xafter" /\ loc[t].call.op = "Expand"
    BY ThreadIs DEF ExpandAfter, InStep, Expanding
  <1>2. UNCHANGED bounds /\ Arrayed' /\ Ages
    BY NothingChanges DEF ExpandAfter, ReadOnly, Sound
  <1>3. CASE Refuse(t, "NOT_FOUND")
    BY <1>1, <1>2, <1>3, RefuseStep DEF Statuses
  <1>4. CASE Ok(t)
    BY <1>1, <1>2, <1>4, OkStep DEF Creates, Deletes
  <1> QED
    BY <1>3, <1>4 DEF ExpandAfter

\* What a failing command may raise.
LEMMA RefusalsAre ==
  ASSUME Sound, NEW t \in Threads, loc[t].pc # "idle", NEW err \in Refusals(t)
  PROVE  /\ err = [by |-> err.by, ex |-> err.ex] /\ err \in Raised
         /\ err.ex \notin {"ObjectNotFoundError", "VolumeAlreadyExists"}
  <1> DEFINE Own == {"ObjectNotFoundError", "VolumeAlreadyExists"}
  <1>1. PICK l : l = loc[t]
    OBVIOUS
  <1>2. l \in LocRecs /\ l.pc \in Pcs \ {"idle"} /\ Deleter(t) \in {"delete_volume", "delete_snapshot"}
    BY <1>1, ThreadIs DEF LocRecs, Deleter
  <1>3. ASSUME NEW by, NEW exs, Refusals(t) = [by : {by}, ex : exs],
               \A ex \in exs : [by |-> by, ex |-> ex] \in Raised /\ ex \notin Own
        PROVE  /\ err = [by |-> err.by, ex |-> err.ex] /\ err \in Raised
               /\ err.ex \notin Own
    BY <1>3
  <1>4. CASE l.pc = "lookup"
    <2>1. Refusals(t) = [by : {"get_volume"}, ex : {"IllegalObjectName"} \cup {"XCLIError"}]
      BY <1>1, <1>4 DEF Refusals
    <2> QED
      BY <1>3, <2>1, RaisedIs
  <1>5. CASE l.pc = "create"
    <2>1. Refusals(t) = [by : {"create_volume"}, ex : {"IllegalObjectName", "PoolDoesNotExist",
                           "PermissionDeniedError", "NotEnoughSpaceInPool", "AttributeError"}
                           \cup {"XCLIError"}]
      BY <1>1, <1>5 DEF Refusals
    <2> QED
      BY <1>3, <2>1, RaisedIs
  <1>6. CASE l.pc \in {"findSource", "fmaster", "xlook", "xafter"}
    <2>1. Refusals(t) = [by : {"get_object_by_id"}, ex : {"IllegalObjectID"} \cup {"XCLIError"}]
      BY <1>1, <1>6 DEF Refusals
    <2> QED
      BY <1>3, <2>1, RaisedIs
  <1>7. CASE l.pc \in {"names", "format", "copy", "resize"}
    <2>1. PICK exs : /\ Refusals(t) = [by : {"copy_to_existing_volume_from_source"}, ex : exs]
                     /\ exs \subseteq {"IllegalObjectID", "IllegalObjectName", "PermissionDeniedError",
                                       "XCLIError"}
      <3>1. CASE l.pc = "names"
        <4>1. Refusals(t) = [by : {"copy_to_existing_volume_from_source"},
                             ex : {"IllegalObjectID"} \cup {"XCLIError"}]
          BY <1>1, <3>1 DEF Refusals
        <4> QED
          BY <4>1
      <3>2. CASE l.pc \in {"format", "copy", "resize"}
        <4>1. Refusals(t) = [by : {"copy_to_existing_volume_from_source"},
                             ex : {"IllegalObjectName", "PermissionDeniedError"} \cup {"XCLIError"}]
          BY <1>1, <3>2 DEF Refusals
        <4> QED
          BY <4>1
      <3> QED
        BY <1>7, <3>1, <3>2
    <2> QED
      BY <1>3, <2>1, RaisedIs
  <1>8. CASE l.pc \in {"slook", "smaster"}
    <2>1. Refusals(t) = [by : {"get_snapshot"}, ex : {"IllegalObjectName"} \cup {"XCLIError"}]
      BY <1>1, <1>8 DEF Refusals
    <2> QED
      BY <1>3, <2>1, RaisedIs
  <1>9. CASE l.pc \in {"ssource", "snap", "cmaster"}
    <2>1. PICK exs : /\ Refusals(t) = [by : {"create_snapshot"}, ex : exs]
                     /\ exs \subseteq {"IllegalObjectID", "SnapshotSourcePoolMismatch",
                                       "IllegalObjectName", "PermissionDeniedError", "XCLIError"}
      <3>1. CASE l.pc = "ssource"
        <4>1. Refusals(t) = [by : {"create_snapshot"},
                             ex : {"IllegalObjectID", "SnapshotSourcePoolMismatch"} \cup {"XCLIError"}]
          BY <1>1, <3>1 DEF Refusals
        <4> QED
          BY <4>1
      <3>2. CASE l.pc \in {"snap", "cmaster"}
        <4>1. Refusals(t) = [by : {"create_snapshot"},
                             ex : {"IllegalObjectName", "PermissionDeniedError"} \cup {"XCLIError"}]
          BY <1>1, <3>2 DEF Refusals
        <4> QED
          BY <4>1
      <3> QED
        BY <1>9, <3>1, <3>2
    <2> QED
      BY <1>3, <2>1, RaisedIs
  <1>10. CASE l.pc \in {"find", "snapshots", "rmvolume", "rmsnapshot"}
    <2>1. PICK exs : /\ Refusals(t) = [by : {Deleter(t)}, ex : exs]
                     /\ exs \subseteq {"IllegalObjectID", "PermissionDeniedError", "XCLIError"}
      <3>1. CASE l.pc = "find"
        <4>1. Refusals(t) = [by : {Deleter(t)}, ex : {"IllegalObjectID"} \cup {"XCLIError"}]
          BY <1>1, <3>1 DEF Refusals
        <4> QED
          BY <4>1
      <3>2. CASE l.pc = "snapshots"
        <4>1. Refusals(t) = [by : {Deleter(t)}, ex : {} \cup {"XCLIError"}]
          BY <1>1, <3>2 DEF Refusals
        <4> QED
          BY <4>1
      <3>3. CASE l.pc \in {"rmvolume", "rmsnapshot"}
        <4>1. Refusals(t) = [by : {Deleter(t)}, ex : {"PermissionDeniedError"} \cup {"XCLIError"}]
          BY <1>1, <3>3 DEF Refusals
        <4> QED
          BY <4>1
      <3> QED
        BY <1>10, <3>1, <3>2, <3>3
    <2>2. \A ex \in exs : [by |-> Deleter(t), ex |-> ex] \in Raised /\ ex \notin Own
      BY <1>2, <2>1, RaisedIs
    <2> QED
      BY <1>3, <2>1, <2>2
  <1>11. CASE l.pc \in {"xfind", "xresize"}
    <2>1. PICK exs : /\ Refusals(t) = [by : {"expand_volume"}, ex : exs]
                     /\ exs \subseteq {"IllegalObjectID", "NotEnoughSpaceInPool", "XCLIError"}
      <3>1. CASE l.pc = "xfind"
        <4>1. Refusals(t) = [by : {"expand_volume"}, ex : {"IllegalObjectID"} \cup {"XCLIError"}]
          BY <1>1, <3>1 DEF Refusals
        <4> QED
          BY <4>1
      <3>2. CASE l.pc = "xresize"
        <4>1. Refusals(t) = [by : {"expand_volume"}, ex : {"NotEnoughSpaceInPool"} \cup {"XCLIError"}]
          BY <1>1, <3>2 DEF Refusals
        <4> QED
          BY <4>1
      <3> QED
        BY <1>11, <3>1, <3>2
    <2> QED
      BY <1>3, <2>1, RaisedIs
  <1> QED
    BY <1>2, <1>4, <1>5, <1>6, <1>7, <1>8, <1>9, <1>10, <1>11
    DEF Pcs, Copying, Snapping, Undoing, Removing, Expanding

LEMMA FaultSound ==
  ASSUME Sound, NEW t \in Threads, Fault(t)
  PROVE  Sound'
  <1>1. PICK err \in Refusals(t) : Raise(t, err.by, err.ex)
    BY DEF Fault
  <1>2. loc[t].pc # "idle"
    BY DEF Fault
  <1>3. /\ [by |-> err.by, ex |-> err.ex] \in Raised
        /\ loc[t].call.op \in Deletes => err.ex # "ObjectNotFoundError"
    BY <1>2, RefusalsAre
  <1>4. Arrayed' /\ Ages /\ Counted'
    BY NothingChanges DEF Fault, Sound, Counted
  <1> QED
    BY <1>1, <1>2, <1>3, <1>4, RaiseStep

LEMMA CrashSound ==
  ASSUME Sound, Crash
  PROVE  Sound'
  <1>1. Arrayed' /\ Ages /\ Counted' /\ answers' = answers /\ loc' = [t \in Threads |-> Idle]
    BY NothingChanges DEF Crash, Sound, Counted
  <1>2. PICK m : m = Idle
    OBVIOUS
  <1>3. LocOK(m)'
    BY <1>1, <1>2, IdleIs, LocKept
  <1>4. \A t \in Threads : LocOK(loc[t])'
    BY <1>1, <1>2, <1>3
  <1>5. \A a \in answers' : AnswerOK(a)'
    BY <1>1, AnswerKept DEF Sound
  <1>6. loc' \in [Threads -> LocRecs]
    BY <1>1, IdleIs
  <1> QED
    BY <1>1, <1>4, <1>5, <1>6 DEF Sound

\* What the orchestrator knows was answered to it.
LEMMA KnownIs ==
  ASSUME Sound, NEW k \in Known
  PROVE  /\ k.id \in Nat \ {0} /\ k.id < nextId /\ k.name \in Names /\ k.op \in Creates
         /\ (k \in Volumes <=> k.op = "CreateVolume")
         /\ \/ k.id = 1 /\ k.name = Source /\ k.op = "CreateVolume"
            \/ \E a \in answers : /\ a.status = "OK" /\ a.call.op \in Creates
                                  /\ k.id = a.id /\ k.name = a.call.name /\ k.op = a.call.op
  <1>1. k \in Volumes <=> k.op = "CreateVolume"
    BY DEF Volumes
  <1>2. CASE k = [id |-> 1, name |-> Source, op |-> "CreateVolume"]
    BY <1>1, <1>2, ProvisioningAssumption DEF Sound, Arrayed, Creates
  <1>3. ASSUME NEW a \in OkTo(Creates), k = [id |-> a.id, name |-> a.call.name, op |-> a.call.op]
        PROVE  /\ k.id \in Nat \ {0} /\ k.id < nextId /\ k.name \in Names /\ k.op \in Creates
               /\ \E b \in answers : /\ b.status = "OK" /\ b.call.op \in Creates
                                     /\ k.id = b.id /\ k.name = b.call.name /\ k.op = b.call.op
    <2>1. a \in answers /\ a.status = "OK" /\ a.call.op \in Creates
      BY DEF OkTo
    <2>2. AnswerOK(a) /\ a \in AnswerRecs
      BY <2>1 DEF Sound, AnswerOK
    <2>3. a.id \in Nat \ {0} /\ a.id < nextId /\ a.call \in CallRecs
      BY <2>1, <2>2 DEF AnswerOK, AnswerRecs, NoId
    <2>4. a.call.name \in Names
      BY <2>3, SMTT(30) DEF CallRecs
    <2> QED
      BY <1>3, <2>1, <2>3, <2>4
  <1> QED
    BY <1>1, <1>2, <1>3 DEF Known

\* The calls of the orchestrator.
LEMMA CallsAre ==
  ASSUME Sound, NEW t \in Threads, Start(t)
  PROVE  \E c : c \in CallRecs /\ CallOK(c) /\ Ask(t, c)
  <1>1. /\ NoCall \in CallRecs /\ NoCall.id = NoId /\ NoCall.source = NoId /\ NoCall.kind = "volume"
        /\ NoCall.size = 0 /\ NoCall.name \in Names
    BY ProvisioningAssumption, IdleIs DEF NoCall
  <1>2. nextId \in Nat /\ NoId \in Nat /\ NoId < nextId
    BY DEF Sound, Arrayed, NoId
  <1>3. {"CreateVolume", "CreateSnapshot", "DeleteVolume", "DeleteSnapshot", "Expand"} \subseteq Ops
    BY DEF Ops, Creates, Deletes
  <1>4. ASSUME NEW n \in Names \ {Source}, NEW z \in Sizes, NEW c,
               c = [NoCall EXCEPT !.op = "CreateVolume", !.name = n, !.size = z]
        PROVE  c \in CallRecs /\ CallOK(c)
    <2>1. z \in Nat
      BY ProvisioningAssumption
    <2>2. /\ c \in CallRecs /\ c.op = "CreateVolume" /\ c.name = n /\ c.id = NoId /\ c.source = NoId
      BY <1>1, <1>3, <1>4, <2>1 DEF CallRecs
    <2> QED
      BY <1>2, <1>3, <2>2 DEF CallOK, Creates
  <1>5. ASSUME NEW n \in Names \ {Source}, NEW z \in Sizes, NEW k \in Known, NEW c,
               c = [NoCall EXCEPT !.op = "CreateVolume", !.name = n, !.size = z, !.source = k.id,
                                  !.kind = IF k \in Volumes THEN "volume" ELSE "snapshot"]
        PROVE  c \in CallRecs /\ CallOK(c)
    <2>1. z \in Nat /\ k.id \in Nat /\ k.id < nextId /\ (k \in Volumes <=> k.op = "CreateVolume")
      BY ProvisioningAssumption, KnownIs
    <2>2. /\ c \in CallRecs /\ c.op = "CreateVolume" /\ c.name = n /\ c.id = NoId /\ c.source = k.id
          /\ c.kind = IF k \in Volumes THEN "volume" ELSE "snapshot"
      BY <1>1, <1>3, <1>5, <2>1 DEF CallRecs
    <2>3. c.kind = "volume" <=> k.op = "CreateVolume"
      BY <2>1, <2>2
    <2> QED
      BY <1>2, <1>3, <2>1, <2>2, <2>3 DEF CallOK, Creates
  <1>6. ASSUME NEW n \in Names \ {Source}, NEW k \in Volumes, NEW c,
               c = [NoCall EXCEPT !.op = "CreateSnapshot", !.name = n, !.source = k.id]
        PROVE  c \in CallRecs /\ CallOK(c)
    <2>1. k \in Known /\ k.id \in Nat /\ k.id < nextId /\ k.op = "CreateVolume"
      BY KnownIs DEF Volumes
    <2>2. c \in CallRecs /\ c.op = "CreateSnapshot" /\ c.name = n /\ c.id = NoId /\ c.source = k.id
      BY <1>1, <1>3, <1>6, <2>1 DEF CallRecs
    <2> QED
      BY <1>2, <1>3, <2>1, <2>2 DEF CallOK, Creates
  <1>7. ASSUME NEW k \in Known, NEW c,
               c = [NoCall EXCEPT !.op = IF k \in Volumes THEN "DeleteVolume" ELSE "DeleteSnapshot",
                                  !.name = k.name, !.id = k.id]
        PROVE  c \in CallRecs /\ CallOK(c)
    <2>1. /\ k.id \in Nat /\ k.id < nextId /\ k.name \in Names /\ (k \in Volumes <=> k.op = "CreateVolume")
          /\ k.op \in Creates
      BY KnownIs
    <2>2. /\ c \in CallRecs /\ c.name = k.name /\ c.id = k.id /\ c.source = NoId
          /\ c.op = IF k \in Volumes THEN "DeleteVolume" ELSE "DeleteSnapshot"
      BY <1>1, <1>3, <1>7, <2>1 DEF CallRecs
    <2>3. /\ c.op \in {"DeleteVolume", "DeleteSnapshot"}
          /\ k.op = IF c.op = "DeleteSnapshot" THEN "CreateSnapshot" ELSE "CreateVolume"
      BY <2>1, <2>2 DEF Creates
    <2> QED
      BY <1>2, <1>3, <2>1, <2>2, <2>3 DEF CallOK, Creates
  <1>8. ASSUME NEW k \in Volumes, NEW z \in Sizes, NEW c,
               c = [NoCall EXCEPT !.op = "Expand", !.name = k.name, !.id = k.id, !.size = z]
        PROVE  c \in CallRecs /\ CallOK(c)
    <2>1. /\ k \in Known /\ k.id \in Nat /\ k.id < nextId /\ k.op = "CreateVolume" /\ k.name \in Names
          /\ z \in Nat
      BY KnownIs, ProvisioningAssumption DEF Volumes
    <2>2. c \in CallRecs /\ c.op = "Expand" /\ c.name = k.name /\ c.id = k.id /\ c.source = NoId
      BY <1>1, <1>3, <1>8, <2>1 DEF CallRecs
    <2> QED
      BY <1>2, <1>3, <2>1, <2>2 DEF CallOK, Creates
  <1> QED
    BY <1>4, <1>5, <1>6, <1>7, <1>8 DEF Start

LEMMA AskSound ==
  ASSUME Sound, NEW t \in Threads, NEW c \in CallRecs, CallOK(c), Ask(t, c)
  PROVE  Sound' /\ Arrayed' /\ Ages
  <1>1. PICK m : m = [Idle EXCEPT !.call = c, !.id = c.id, !.pc = FirstStep[c.op]]
    OBVIOUS
  <1>2. /\ c.op = "CreateVolume" => FirstStep[c.op] = "lookup"
        /\ c.op = "CreateSnapshot" => FirstStep[c.op] = "slook"
        /\ c.op \in Deletes => FirstStep[c.op] = "find"
        /\ c.op = "Expand" => FirstStep[c.op] = "xlook"
    BY DEF FirstStep, Deletes
  <1>3. /\ c.op \in Ops /\ c.id \in Nat /\ c.id < nextId
        /\ c.op \in {"CreateVolume", "CreateSnapshot", "Expand"} \cup Deletes
    BY DEF CallOK, CallRecs, Ops, Creates
  <1>4. FirstStep[c.op] \in Pcs \ Removing
    BY <1>2, <1>3 DEF Pcs, Snapping, Undoing, Expanding, Removing
  <1>5. m \in LocRecs /\ m.pc = FirstStep[c.op] /\ m.call = c /\ m.id = c.id /\ m.undo = NoError
    BY <1>1, <1>3, <1>4, IdleIs DEF LocRecs
  <1>6. InStep(m)
    BY <1>2, <1>3, <1>5 DEF InStep, Copying, Undoing, Snapping, Expanding, Creates, Deletes
  <1>7. Arrayed' /\ Ages /\ Counted' /\ nextId' = nextId
    BY NothingChanges DEF Ask, Sound, Counted, arrayVars
  <1>8. LocOK(m)'
    BY <1>3, <1>4, <1>5, <1>6, <1>7 DEF LocOK, InStep
  <1>9. Then(t, m)
    BY <1>1 DEF Ask
  <1> QED
    BY <1>7, <1>8, <1>9, ThenStep

-----------------------------------------------------------------------------
(***************************************************************************)
(* Every step keeps Sound.                                                 *)
(***************************************************************************)

LEMMA SoundInit == Init => Sound
  <1> SUFFICES ASSUME Init PROVE Sound
    OBVIOUS
  <1>1. PICK o : o = [NoObject EXCEPT !.name = Source, !.blocks = SourceBlocks]
    OBVIOUS
  <1>2. o \in Objects /\ o.master = NoId /\ o # NoObject
    <2>1. o \in Objects /\ o.master = NoId
      BY <1>1, ProvisioningAssumption DEF NoObject, Objects, NoId
    <2> QED
      BY <2>1, ObjectsExist
  <1>3. object = [i \in Ids |-> IF i = 1 THEN o ELSE NoObject] /\ nextId = 2
    BY <1>1 DEF Init
  <1>4. \A i \in Ids : Exists(i) => i = 1 /\ ~IsSnapshot(i)
    BY <1>2, <1>3 DEF Exists, IsSnapshot
  <1>5. object \in [Ids -> Objects \cup {NoObject}]
    BY <1>2, <1>3
  <1>6. Arrayed
    BY <1>3, <1>4, <1>5 DEF Arrayed
  <1>7. Counted
    BY DEF Init, Counted
  <1>8. InStep(Idle)
    BY IdleIs DEF InStep, Copying, Snapping, Undoing, Expanding, Creates
  <1>9. LocOK(Idle)
    BY <1>3, <1>8, IdleIs DEF LocOK, NoId, Removing
  <1> QED
    BY <1>6, <1>7, <1>9, IdleIs DEF Init, Sound

LEMMA SoundNext == Sound /\ [Next]_vars => Sound'
  <1> SUFFICES ASSUME Sound, [Next]_vars PROVE Sound'
    OBVIOUS
  <1>1. CASE UNCHANGED vars
    <2>1. UNCHANGED arrayVars /\ loc' = loc /\ answers' = answers /\ Counted'
      BY <1>1 DEF vars, bounds, Sound, Counted
    <2>2. Arrayed' /\ Ages
      BY <2>1, NothingChanges DEF Sound
    <2>3. \A t \in Threads : LocOK(loc[t])'
      BY <2>1, <2>2, LocKept DEF Sound
    <2>4. \A a \in answers' : AnswerOK(a)'
      BY <2>1, <2>2, AnswerKept DEF Sound
    <2> QED
      BY <2>1, <2>2, <2>3, <2>4 DEF Sound
  <1>2. ASSUME NEW t \in Threads, Command(t) PROVE Sound'
    BY <1>2, LookupSound, CreateSound, FindSourceSound, FindMasterSound, FindNamesSound, FormatSound,
       CopySound, ResizeSound, SnapshotLookupSound, SnapshotSourceSound, SnapSound, FindObjectSound,
       ListSnapshotsSound, RemoveObjectSound, ExpandLookupSound, ExpandFindSound, ExpandResizeSound,
       ExpandAfterSound DEF Command
  <1>3. ASSUME NEW t \in Threads, Start(t) PROVE Sound'
    BY <1>3, CallsAre, AskSound
  <1> QED
    BY <1>1, <1>2, <1>3, FaultSound, CrashSound DEF Next

\* The inductive invariant: the array's names and snapshots, the steps of the
\* threads and the errors and statuses of the answers are as the code has them.
THEOREM SoundAlways == Spec => []Sound
  BY SoundInit, SoundNext, PTL DEF Spec

\* No two objects of the array ever have one name, no snapshot is left without its
\* volume, a rollback stays within the tries of @retry, and the handlers answer
\* with the codes of their tables; a deletion that was answered OK, by its own
\* removal or because the object was not found, has left nothing behind.
THEOREM ArrayIsTyped == Spec => [](TypeOK /\ GoneWhenOk)
  <1>1. Sound => TypeOK
    <2> SUFFICES ASSUME Sound PROVE TypeOK
      OBVIOUS
    <2>1. ASSUME NEW n \in Names PROVE Cardinality(Called(n)) <= 1
      <3>1. CASE Called(n) = {}
        BY <3>1, FS_EmptySet
      <3>2. ASSUME NEW i \in Called(n) PROVE Cardinality(Called(n)) <= 1
        <4>1. Called(n) = {i}
          BY CalledIs DEF Sound
        <4>2. Cardinality(Called(n)) = 1
          BY <4>1, FS_Singleton, Zenon
        <4> QED
          BY <4>2
      <3> QED
        BY <3>1, <3>2
    <2>2. \A i \in Ids : Exists(i) /\ IsSnapshot(i) => Exists(object[i].master)
      BY DEF Sound, Arrayed
    <2>3. \A t \in Threads : loc[t].tries \in 0..Tries /\ loc[t].rounds \in 0..2
      BY ThreadIs DEF LocRecs
    <2>4. \A a \in answers : a.status \in Statuses
      BY DEF Sound, AnswerOK, AnswerRecs
    <2> QED
      BY <2>1, <2>2, <2>3, <2>4 DEF TypeOK, Statuses
  <1>2. Sound => GoneWhenOk
    BY DEF Sound, AnswerOK, GoneWhenOk, OkTo
  <1> QED
    BY <1>1, <1>2, SoundAlways, PTL

\* XCLI's errors, Python's and those of the interface: nothing else reaches a handler.
THEOREM ErrorsAreDeclared == Spec => []RaisesDeclared
  <1>1. Sound => RaisesDeclared
    <2> SUFFICES ASSUME Sound, NEW a \in answers, a.err \notin Undeclared \cup {NoError},
                        a.err.ex \notin Raises(a.err.by)
                 PROVE  a.err.ex \in ForeignErrors /\ a.status = "INTERNAL"
      BY DEF RaisesDeclared
    <2>1. AnswerOK(a) /\ a.err \in Errs
      BY DEF Sound, AnswerOK, AnswerRecs
    <2>2. a.err \in Raised
      BY <2>1 DEF Errs
    <2>3. Explained(a.err)
      BY <2>2, RaisedHas
    <2> QED
      BY <2>1, <2>3 DEF Explained, AnswerOK
  <1> QED
    BY <1>1, SoundAlways, PTL

-----------------------------------------------------------------------------
(***************************************************************************)
(* What a call has looked up agrees with the array.                        *)
(***************************************************************************)

\* What the orchestrator is told by an answer.
LEMMA KnownGrows ==
  ASSUME answers \subseteq answers'
  PROVE  Known \subseteq Known'
  BY DEF Known, OkTo

LEMMA KnownAfter ==
  ASSUME NEW t \in Threads, NEW status, NEW id, NEW err, Reply(t, status, id, err)
  PROVE  /\ Known \subseteq Known' /\ answers \subseteq answers'
         /\ \A k \in Known' : \/ k \in Known
                              \/ /\ status = "OK" /\ loc[t].call.op \in Creates
                                 /\ k = [id |-> id, name |-> loc[t].call.name, op |-> loc[t].call.op]
         /\ status = "OK" /\ loc[t].call.op \in Creates =>
               [id |-> id, name |-> loc[t].call.name, op |-> loc[t].call.op] \in Known'
  <1>1. PICK a : a = [call |-> loc[t].call, status |-> status, id |-> id, err |-> err]
    OBVIOUS
  <1>2. answers' = answers \cup {a} /\ a.call = loc[t].call /\ a.status = status /\ a.id = id
    BY <1>1 DEF Reply
  <1>3. Known \subseteq Known'
    BY <1>2, KnownGrows
  <1>4. \A b : b \in OkTo(Creates)' <=> \/ b \in OkTo(Creates)
                                        \/ b = a /\ status = "OK" /\ loc[t].call.op \in Creates
    BY <1>2 DEF OkTo, Creates
  <1>5. ASSUME NEW k \in Known', k \notin Known
        PROVE  /\ status = "OK" /\ loc[t].call.op \in Creates
               /\ k = [id |-> id, name |-> loc[t].call.name, op |-> loc[t].call.op]
    BY <1>2, <1>4, <1>5 DEF Known
  <1>6. status = "OK" /\ loc[t].call.op \in Creates =>
               [id |-> id, name |-> loc[t].call.name, op |-> loc[t].call.op] \in Known'
    BY <1>2, <1>4 DEF Known
  <1> QED
    BY <1>2, <1>3, <1>5, <1>6

\* The calls of the others agree with the array still.
LEMMA CallKept ==
  ASSUME Sound, Ages, NEW c \in CallRecs, CallOK(c), Known \subseteq Known'
  PROVE  CallOK(c)'
  <1>1. c.id < nextId' /\ c.source < nextId'
    BY DEF CallOK, CallRecs, Ages, Sound, Arrayed
  <1> QED
    BY <1>1 DEF CallOK

LEMMA LocToldKept ==
  ASSUME Sound, Ages, NEW l, LocOK(l), LocTold(l), Known \subseteq Known', asked \subseteq asked'
  PROVE  LocTold(l)'
  <1>1. l.id < nextId /\ (Exists(l.id)' => l.id \in Ids)
    BY DEF LocOK, Exists
  <1>2. l.pc # "idle" /\ Exists(l.id)' => object'[l.id].name = l.call.name
    BY <1>1 DEF LocTold, Ages
  <1>3. l.pc \in {"smaster", "cmaster"} /\ Exists(l.id)' => IsSnapshot(l.id)' /\ Traced(l)'
    <2> SUFFICES ASSUME l.pc \in {"smaster", "cmaster"}, Exists(l.id)' PROVE IsSnapshot(l.id)' /\ Traced(l)'
      OBVIOUS
    <2>1. /\ Exists(l.id) /\ object'[l.id].master = object[l.id].master /\ IsSnapshot(l.id) /\ Traced(l)
          /\ l.id \in Ids
      BY <1>1 DEF LocTold, Ages
    <2>2. PICK k \in Ids : k = object[l.id].master /\ Exists(k)
      BY <2>1 DEF Sound, Arrayed
    <2>3. k < nextId
      BY <2>2 DEF Sound, Arrayed
    <2>4. Exists(k)' => object'[k].name = object[k].name
      BY <2>2, <2>3 DEF Ages
    <2> QED
      BY <2>1, <2>2, <2>4 DEF Traced, IsSnapshot
  <1>4. l.pc \in {"snap", "format", "copy"} =>
          \E k \in Known' : /\ k.id = l.call.source /\ k.name = l.from
                            /\ k.op = IF l.pc = "snap" \/ l.call.kind = "volume"
                                      THEN "CreateVolume" ELSE "CreateSnapshot"
    BY DEF LocTold
  <1> QED
    BY <1>2, <1>3, <1>4 DEF LocTold

\* A thread goes on, perhaps with an answer.
LEMMA ToldStep ==
  ASSUME Sound, Told, Ages, NEW t \in Threads, NEW m, Go(t, m), LocTold(m)',
         m = Idle \/ m.call = loc[t].call, asked' = asked, torn' = torn, answers \subseteq answers',
         \A a \in answers' : \/ a \in answers
                             \/ /\ loc[t].pc # "idle" /\ a.call = loc[t].call
                                /\ a.call.op \notin Creates /\ a.status = "OK" => a.id = a.call.id,
         \A k \in Known' : k \in Known \/ (Exists(k.id)' => object'[k.id].name = k.name)
  PROVE  Told'
  <1>1. Known \subseteq Known'
    BY KnownGrows
  <1>2. loc'[t] = m /\ \A u \in Threads : u # t => loc'[u] = loc[u]
    BY DEF Go, Sound
  <1>3. \A c \in asked' : c \in CallRecs /\ CallOK(c)'
    BY <1>1, CallKept DEF Told
  <1>4. \A a \in answers' : a.call \in asked' /\ (a.call.op \notin Creates /\ a.status = "OK" => a.id = a.call.id)
    BY DEF Told, LocTold
  <1>5. ASSUME NEW k \in Known', Exists(k.id)' PROVE object'[k.id].name = k.name
    BY <1>5, KnownIs DEF Told, Ages, Exists
  <1>6. ASSUME NEW u \in Threads PROVE LocTold(loc[u])'
    <2>1. PICK l : l = loc'[u]
      OBVIOUS
    <2>2. LocTold(l)'
      <3>1. CASE u = t
        BY <3>1, <2>1, <1>2
      <3>2. CASE u # t
        BY <3>2, <2>1, <1>1, <1>2, LocToldKept DEF Sound, Told
      <3> QED
        BY <3>1, <3>2
    <2> QED
      BY <2>1, <2>2
  <1>7. ASSUME NEW u \in Threads, NEW v \in Threads, loc'[u].call.op = "DeleteVolume",
               loc'[v].call.op = "CreateSnapshot", loc'[u].call.id = loc'[v].call.source
        PROVE  loc'[u].call.id \in torn'
    <2>1. ASSUME NEW w \in Threads, loc'[w].call.op # "none" PROVE loc'[w].call = loc[w].call
      BY <1>2, <2>1, IdleIs
    <2>2. loc'[u].call = loc[u].call /\ loc'[v].call = loc[v].call
      BY <1>7, <2>1
    <2> QED
      BY <1>7, <2>2 DEF Told
  <1> QED
    BY <1>3, <1>4, <1>5, <1>6, <1>7 DEF Told

\* An idle thread agrees with everything.
LEMMA IdleTold ==
  ASSUME NEW m, m = Idle
  PROVE  LocTold(m)'
  <1>1. m.pc = "idle" /\ m.undo.ex = "none"
    BY IdleIs DEF NoError
  <1> QED
    BY <1>1 DEF LocTold, Removing, Copying

LEMMA ThenTold ==
  ASSUME Sound, Told, Ages, NEW t \in Threads, NEW m, Then(t, m), m.call = loc[t].call, LocTold(m)',
         asked' = asked, torn' = torn
  PROVE  Told'
  <1>1. Go(t, m) /\ answers' = answers
    BY DEF Then
  <1>2. Known' = Known
    BY <1>1 DEF Known, OkTo
  <1> QED
    BY <1>1, <1>2, ToldStep

LEMMA ReplyTold ==
  ASSUME Sound, Told, Ages, NEW t \in Threads, loc[t].pc # "idle",
         NEW status, NEW id, NEW err, Reply(t, status, id, err), asked' = asked, torn' = torn,
         loc[t].call.op \notin Creates /\ status = "OK" => id = loc[t].call.id,
         status = "OK" /\ loc[t].call.op \in Creates /\ Exists(id)' => object'[id].name = loc[t].call.name
  PROVE  Told'
  <1>1. PICK m : m = Idle
    OBVIOUS
  <1>2. Go(t, m) /\ LocTold(m)'
    BY <1>1, IdleTold DEF Reply, Go
  <1>3. PICK a : a = [call |-> loc[t].call, status |-> status, id |-> id, err |-> err]
    OBVIOUS
  <1>4. answers' = answers \cup {a} /\ a.call = loc[t].call /\ a.status = status /\ a.id = id
    BY <1>3 DEF Reply
  <1>5. ASSUME NEW k \in Known', k \notin Known, Exists(k.id)' PROVE object'[k.id].name = k.name
    <2>1. /\ status = "OK" /\ loc[t].call.op \in Creates
          /\ k = [id |-> id, name |-> loc[t].call.name, op |-> loc[t].call.op]
      BY <1>5, KnownAfter
    <2>2. k.id = id /\ k.name = loc[t].call.name
      BY <2>1
    <2> QED
      BY <1>5, <2>1, <2>2
  <1> QED
    BY <1>1, <1>2, <1>4, <1>5, ToldStep

LEMMA UndoTold ==
  ASSUME Sound, Told, Ages, NEW t \in Threads, loc[t].pc # "idle", NEW err, err.ex # "VolumeAlreadyExists",
         NEW rounds, Undo(t, err, rounds), asked' = asked, torn' = torn
  PROVE  Told'
  <1>1. PICK l : l = loc[t]
    OBVIOUS
  <1>2. LocOK(l) /\ LocTold(l) /\ l \in LocRecs
    BY <1>1, ThreadIs DEF Told
  <1>3. PICK m : m = [l EXCEPT !.pc = "find", !.undo = err, !.tries = Tries, !.rounds = rounds]
    OBVIOUS
  <1>4. Then(t, m) /\ m.pc = "find" /\ m.undo = err /\ m.call = l.call /\ m.id = l.id
    BY <1>1, <1>2, <1>3 DEF Undo, LocRecs
  <1>5. LocTold(l)'
    <2>1. Known \subseteq Known'
      BY <1>4, KnownGrows DEF Then
    <2> QED
      BY <1>2, <2>1, LocToldKept
  <1>6. LocTold(m)'
    BY <1>1, <1>4, <1>5 DEF LocTold, Removing, Copying
  <1> QED
    BY <1>1, <1>4, <1>6, ThenTold

LEMMA UndoNextTold ==
  ASSUME Sound, Told, Ages, NEW t \in Threads, loc[t].undo # NoError, NEW err \in Errs,
         err.ex # "VolumeAlreadyExists", UndoNext(t, err), asked' = asked, torn' = torn
  PROVE  Told'
  <1>1. PICK l : l = loc[t]
    OBVIOUS
  <1>2. /\ LocOK(l) /\ LocTold(l) /\ l \in LocRecs /\ l.undo \in Raised /\ l.pc # "idle"
        /\ l.call.op = "CreateVolume" /\ l.undo.ex # "VolumeAlreadyExists"
    BY <1>1, ThreadIs DEF Told, LocTold, LocRecs, Errs, InStep, Undoing
  <1>3. PICK end : end = IF err = NoError THEN l.undo ELSE err
    OBVIOUS
  <1>4. end \in Raised /\ end.ex # "VolumeAlreadyExists"
    BY <1>2, <1>3 DEF Errs
  <1>5. CASE err # NoError /\ l.tries > 1
    <2>1. PICK m : m = [l EXCEPT !.pc = "find", !.tries = @ - 1]
      OBVIOUS
    <2>2. Then(t, m) /\ m.pc = "find" /\ m.undo = l.undo /\ m.call = l.call /\ m.id = l.id
      BY <1>1, <1>2, <1>5, <2>1 DEF UndoNext, LocRecs
    <2>3. Known \subseteq Known'
      BY <2>2, KnownGrows DEF Then
    <2>4. LocTold(l)'
      BY <1>2, <2>3, LocToldKept
    <2>5. LocTold(m)'
      BY <1>2, <2>2, <2>4 DEF LocTold, Removing, Copying
    <2> QED
      BY <1>1, <2>2, <2>5, ThenTold
  <1>6. CASE ~(err # NoError /\ l.tries > 1) /\ l.rounds > 1
    <2>1. PICK rounds : rounds = l.rounds - 1
      OBVIOUS
    <2>2. Undo(t, end, rounds)
      BY <1>1, <1>3, <1>6, <2>1 DEF UndoNext
    <2> QED
      BY <1>1, <1>2, <1>4, <2>2, UndoTold
  <1>7. CASE ~(err # NoError /\ l.tries > 1) /\ ~(l.rounds > 1)
    <2>1. PICK status : status = Status("CreateVolume", end.ex)
      OBVIOUS
    <2>2. Reply(t, status, NoId, end)
      BY <1>1, <1>3, <1>7, <2>1 DEF UndoNext
    <2>3. status # "OK"
      BY <1>4, <2>1, StatusIs, RaisedHas DEF Ops, Creates, Deletes
    <2> QED
      BY <1>1, <1>2, <2>2, <2>3, ReplyTold
  <1> QED
    BY <1>5, <1>6, <1>7

LEMMA RaiseTold ==
  ASSUME Sound, Told, Ages, NEW t \in Threads, loc[t].pc # "idle", NEW by, NEW ex,
         [by |-> by, ex |-> ex] \in Raised, Raise(t, by, ex), asked' = asked, torn' = torn,
         loc[t].pc \in Copying \/ loc[t].undo # NoError => ex # "VolumeAlreadyExists"
  PROVE  Told'
  <1>1. PICK l : l = loc[t]
    OBVIOUS
  <1>2. PICK err : err = [by |-> by, ex |-> ex]
    OBVIOUS
  <1>3. LocOK(l) /\ l \in LocRecs /\ l.call.op \in Ops /\ (l.call.op \notin Creates => l.id = l.call.id)
    BY <1>1 DEF Sound, LocOK, LocRecs, CallRecs, InStep
  <1>4. err \in Raised /\ err \in Errs /\ err.ex = ex
    BY <1>2, RaisedHas
  <1>5. CASE l.undo # NoError
    BY <1>1, <1>2, <1>4, <1>5, UndoNextTold DEF Raise
  <1>6. CASE l.undo = NoError /\ l.pc \in Copying
    BY <1>1, <1>2, <1>4, <1>6, UndoTold DEF Raise
  <1>7. CASE l.undo = NoError /\ l.pc \notin Copying
    <2>1. PICK status : status = Status(l.call.op, ex)
      OBVIOUS
    <2>2. PICK id : id = IF status = "OK" THEN l.id ELSE NoId
      OBVIOUS
    <2>3. Reply(t, status, id, err)
      BY <1>1, <1>2, <1>7, <2>1, <2>2 DEF Raise
    <2>4. status = "OK" => l.call.op \in Deletes
      BY <1>3, <1>4, <2>1, StatusIs, RaisedHas
    <2> QED
      BY <1>1, <1>3, <2>2, <2>3, <2>4, ReplyTold DEF Creates, Deletes
  <1> QED
    BY <1>5, <1>6, <1>7

LEMMA RefuseTold ==
  ASSUME Sound, Told, Ages, NEW t \in Threads, loc[t].pc # "idle", NEW status, status # "OK",
         Refuse(t, status), asked' = asked, torn' = torn
  PROVE  Told'
  BY ReplyTold DEF Refuse

LEMMA OkTold ==
  ASSUME Sound, Told, Ages, NEW t \in Threads, loc[t].pc # "idle", Ok(t), asked' = asked, torn' = torn
  PROVE  Told'
  <1>1. PICK l : l = loc[t]
    OBVIOUS
  <1>2. PICK id : id = l.id
    OBVIOUS
  <1>3. LocOK(l) /\ LocTold(l) /\ (l.call.op \notin Creates => l.id = l.call.id) /\ id < nextId
    BY <1>1, <1>2, ThreadIs DEF Told, InStep
  <1>4. Reply(t, "OK", id, NoError)
    BY <1>1, <1>2 DEF Ok
  <1>5. Exists(id)' => object'[id].name = l.call.name
    BY <1>1, <1>2, <1>3 DEF LocTold, Ages, Exists
  <1> QED
    BY <1>1, <1>2, <1>3, <1>4, <1>5, ReplyTold

LEMMA ToTold ==
  ASSUME Sound, Told, Ages, NEW t \in Threads, NEW pc, To(t, pc), asked' = asked, torn' = torn,
         \A m : m.pc = pc /\ m.call = loc[t].call /\ m.undo = loc[t].undo /\ m.id = loc[t].id
                  /\ m.from = loc[t].from => LocTold(m)'
  PROVE  Told'
  <1>1. PICK l : l = loc[t]
    OBVIOUS
  <1>2. PICK m : m = [l EXCEPT !.pc = pc]
    OBVIOUS
  <1>3. l \in LocRecs
    BY <1>1, ThreadIs
  <1>4. /\ m.pc = pc /\ m.call = l.call /\ m.undo = l.undo /\ m.id = l.id /\ m.from = l.from
        /\ Then(t, m)
    BY <1>1, <1>2, <1>3 DEF LocRecs, To
  <1> QED
    BY <1>1, <1>4, ThenTold

\* The effects of the commands on the array.
Added(i) ==
    /\ i = nextId /\ nextId' = nextId + 1 /\ i \in Ids /\ i \in Nat \ {0} /\ i < nextId'
    /\ ~Exists(i) /\ Exists(i)'
    /\ \A j \in Ids : j # i => object'[j] = object[j] /\ Exists(j)' = Exists(j)

Touched(i) ==
    /\ nextId' = nextId /\ \A j : Exists(j)' = Exists(j)
    /\ \A j \in Ids : /\ j # i => object'[j] = object[j]
                      /\ object'[j].name = object[j].name /\ object'[j].master = object[j].master

LEMMA CreateDoes ==
  ASSUME Arrayed, NEW n \in Names, NEW blocks \in Nat, Called(n) = {}, VolCreate(n, blocks), NEW i, i = nextId
  PROVE  /\ Arrayed' /\ Ages /\ Added(i)
         /\ object'[i].name = n /\ object'[i].blocks = blocks /\ object'[i].master = NoId
         /\ object'[i].copied = NoId /\ object'[i].data = NoId
  <1>1. PICK o : o = [NoObject EXCEPT !.name = n, !.blocks = blocks]
    OBVIOUS
  <1>2. /\ o \in Objects /\ o.name = n /\ o.blocks = blocks /\ o.master = NoId /\ o.copied = NoId
        /\ o.data = NoId
    BY <1>1 DEF NoObject, Objects, NoId
  <1>3. i \in Ids /\ nextId' = nextId + 1 /\ object' = [object EXCEPT ![i] = o]
    BY <1>1 DEF VolCreate
  <1>4. /\ Arrayed' /\ Ages /\ Exists(i)' /\ ~Exists(i) /\ object'[i] = o
        /\ \A j \in Ids : j # i => object'[j] = object[j] /\ Exists(j)' = Exists(j)
    BY <1>2, <1>3, ObjectIsMade
  <1>5. i \in Nat \ {0} /\ i < nextId'
    BY <1>3 DEF Arrayed
  <1> QED
    BY <1>2, <1>3, <1>4, <1>5 DEF Added

LEMMA SnapshotDoes ==
  ASSUME Arrayed, NEW n \in Names, Called(n) = {}, NEW s, Exists(s), ~IsSnapshot(s),
         SnapshotCreate(n, s), NEW i, i = nextId
  PROVE  /\ Arrayed' /\ Ages /\ Added(i)
         /\ object'[i].name = n /\ object'[i].blocks = object[s].blocks /\ object'[i].master = s
         /\ object'[i].copied = s /\ object'[i].data = s
  <1>1. PICK o : o = [name |-> n, blocks |-> object[s].blocks, master |-> s, copied |-> s, data |-> s]
    OBVIOUS
  <1>2. s \in Nat /\ object[s].blocks \in Nat
    BY ObjectIs
  <1>3. /\ o \in Objects /\ o.name = n /\ o.blocks = object[s].blocks /\ o.master = s /\ o.copied = s
        /\ o.data = s
    BY <1>1, <1>2 DEF Objects
  <1>4. i \in Ids /\ nextId' = nextId + 1 /\ object' = [object EXCEPT ![i] = o]
    BY <1>1 DEF SnapshotCreate
  <1>5. /\ Arrayed' /\ Ages /\ Exists(i)' /\ ~Exists(i) /\ object'[i] = o
        /\ \A j \in Ids : j # i => object'[j] = object[j] /\ Exists(j)' = Exists(j)
    <2>1. o \in Objects /\ Called(o.name) = {}
      BY <1>3
    <2>2. o.master # NoId => Exists(o.master) /\ ~IsSnapshot(o.master)
      BY <1>3
    <2> QED
      BY <1>4, <2>1, <2>2, ObjectIsMade, ZenonT(30)
  <1>6. i \in Nat \ {0} /\ i < nextId'
    BY <1>4 DEF Arrayed
  <1> QED
    BY <1>3, <1>4, <1>5, <1>6 DEF Added

LEMMA FormatDoes ==
  ASSUME Arrayed, NEW i, Exists(i), VolFormat(i)
  PROVE  /\ Arrayed' /\ Ages /\ Touched(i)
         /\ object'[i].blocks = object[i].blocks /\ object'[i].copied = object[i].copied
         /\ object'[i].data = NoId
  <1>1. PICK o : o = [object[i] EXCEPT !.data = NoId]
    OBVIOUS
  <1>2. /\ o \in Objects /\ nextId' = nextId /\ object' = [object EXCEPT ![i] = o]
        /\ o.name = object[i].name /\ o.master = object[i].master /\ o.blocks = object[i].blocks
        /\ o.copied = object[i].copied /\ o.data = NoId
    BY <1>1, FormatIs
  <1> QED
    BY <1>2, ObjectIsChanged DEF Touched

LEMMA CopyDoes ==
  ASSUME Arrayed, NEW i, Exists(i), NEW s, Exists(s), VolCopy(s, i)
  PROVE  /\ Arrayed' /\ Ages /\ Touched(i)
         /\ object'[i].blocks = object[s].blocks /\ object'[i].copied = s /\ object'[i].data = s
  <1>1. PICK o \in Objects : /\ nextId' = nextId /\ object' = [object EXCEPT ![i] = o]
                             /\ o.name = object[i].name /\ o.master = object[i].master
                             /\ o.blocks = object[s].blocks /\ o.copied = s /\ o.data = s
    BY CopyIs
  <1> QED
    BY <1>1, ObjectIsChanged DEF Touched

LEMMA ResizeDoes ==
  ASSUME Arrayed, NEW i, Exists(i), NEW blocks \in Nat, VolResize(i, blocks)
  PROVE  /\ Arrayed' /\ Ages /\ Touched(i)
         /\ object'[i].blocks = blocks /\ object'[i].copied = object[i].copied
         /\ object'[i].data = object[i].data
  <1>1. PICK o : o = [object[i] EXCEPT !.blocks = blocks]
    OBVIOUS
  <1>2. /\ o \in Objects /\ nextId' = nextId /\ object' = [object EXCEPT ![i] = o]
        /\ o.name = object[i].name /\ o.master = object[i].master /\ o.blocks = blocks
        /\ o.copied = object[i].copied /\ o.data = object[i].data
    BY <1>1, ResizeIs
  <1> QED
    BY <1>2, ObjectIsChanged, ZenonT(30) DEF Touched

-----------------------------------------------------------------------------
(***************************************************************************)
(* The steps keep Told.                                                    *)
(***************************************************************************)

\* The thread of a step, and what a reading step leaves alone.
LEMMA ThreadTold ==
  ASSUME Sound, Told, NEW t \in Threads, NEW l, l = loc[t]
  PROVE  /\ LocOK(l) /\ LocTold(l) /\ l \in LocRecs /\ InStep(l) /\ l.id < nextId
         /\ l.pc # "idle" => l.call \in asked /\ CallOK(l.call)
  BY ThreadIs DEF Told, LocTold

LEMMA ReadOnlyIs ==
  ASSUME Sound, ReadOnly
  PROVE  /\ asked' = asked /\ torn' = torn /\ object' = object /\ nextId' = nextId /\ Arrayed' /\ Ages
         /\ \A i : Exists(i)' = Exists(i)
  BY NothingChanges DEF ReadOnly, Sound, arrayVars, bounds, Exists

LEMMA LookupTold ==
  ASSUME Sound, Told, NEW t \in Threads, Lookup(t)
  PROVE  Told'
  <1>1. PICK l : l = loc[t]
    OBVIOUS
  <1>2. l.pc = "lookup" /\ l.call.op = "CreateVolume" /\ LocTold(l) /\ l.undo = NoError
    BY <1>1, ThreadTold DEF Lookup, InStep
  <1>3. asked' = asked /\ torn' = torn /\ object' = object /\ Ages
    BY ReadOnlyIs DEF Lookup
  <1>4. CASE Refuse(t, "OUT_OF_RANGE") \/ Refuse(t, "ALREADY_EXISTS")
    BY <1>1, <1>2, <1>3, <1>4, RefuseTold
  <1>5. CASE To(t, "create")
    <2>1. ASSUME NEW m, m.pc = "create", m.call = l.call, m.undo = l.undo, m.id = l.id PROVE LocTold(m)'
      BY <1>2, <1>3, <2>1 DEF LocTold, Removing, Copying, Exists
    <2> QED
      BY <1>1, <1>3, <1>5, <2>1, ToTold
  <1>6. CASE Raise(t, "get_volume", "VolumeNameBelongsToSnapshotError")
    BY <1>1, <1>2, <1>3, <1>6, RaiseTold, RaisedIs
  <1>7. ASSUME NEW i \in Called(l.call.name), Reply(t, "OK", i, NoError) PROVE Told'
    <2>1. object'[i].name = l.call.name
      BY <1>3, <1>7 DEF Called
    <2> QED
      BY <1>1, <1>2, <1>3, <1>7, <2>1, ReplyTold DEF Creates
  <1> QED
    BY <1>1, <1>4, <1>5, <1>6, <1>7 DEF Lookup

LEMMA CreateTold ==
  ASSUME Sound, Told, NEW t \in Threads, Create(t)
  PROVE  Told'
  <1>1. PICK l : l = loc[t]
    OBVIOUS
  <1>2. /\ l \in LocRecs /\ l.pc = "create" /\ l.call.op = "CreateVolume" /\ LocTold(l) /\ l.undo = NoError
        /\ l.call.name \in Names /\ l.call.size \in Nat
    BY <1>1, ThreadTold, ThreadIs DEF Create, InStep
  <1>3. asked' = asked /\ torn' = torn
    BY DEF Create, bounds
  <1>4. CASE UNCHANGED arrayVars /\ Raise(t, "create_volume", "VolumeAlreadyExists")
    BY <1>1, <1>2, <1>3, <1>4, NothingChanges, RaiseTold, RaisedIs DEF Sound, Copying
  <1>5. CASE /\ Called(l.call.name) = {} /\ VolCreate(l.call.name, ToBlocks(Required(l.call)))
             /\ IF l.call.source = NoId THEN Reply(t, "OK", nextId, NoError)
                ELSE Then(t, [l EXCEPT !.pc = "findSource", !.id = nextId])
    <2>1. PICK blocks : blocks = ToBlocks(Required(l.call))
      OBVIOUS
    <2>2. blocks \in Nat
      BY <1>2, <2>1, ProvisioningAssumption DEF ToBlocks, Required
    <2>3. PICK n, name : n = nextId /\ name = l.call.name
      OBVIOUS
    <2>4. Ages /\ object'[n].name = l.call.name
      BY <1>2, <1>5, <2>1, <2>2, <2>3, CreateDoes DEF Sound
    <2>5. CASE l.call.source = NoId
      BY <1>1, <1>2, <1>3, <1>5, <2>3, <2>4, <2>5, ReplyTold DEF Creates
    <2>6. CASE l.call.source # NoId
      <3>1. PICK m : m = [l EXCEPT !.pc = "findSource", !.id = n]
        OBVIOUS
      <3>2. m.pc = "findSource" /\ m.call = l.call /\ m.undo = l.undo /\ m.id = n /\ Then(t, m)
        BY <1>2, <1>5, <2>3, <2>6, <3>1 DEF LocRecs
      <3>3. LocTold(m)'
        BY <1>2, <1>3, <2>4, <2>6, <3>2 DEF LocTold, Removing, Copying
      <3> QED
        BY <1>1, <1>3, <2>4, <3>2, <3>3, ThenTold
    <2> QED
      BY <2>5, <2>6
  <1> QED
    BY <1>1, <1>4, <1>5 DEF Create

LEMMA FindSourceTold ==
  ASSUME Sound, Told, NEW t \in Threads, FindSource(t)
  PROVE  Told'
  <1>1. PICK l : l = loc[t]
    OBVIOUS
  <1>2. /\ l \in LocRecs /\ l.pc = "findSource" /\ l.call.op = "CreateVolume" /\ LocTold(l)
        /\ l.undo = NoError
    BY <1>1, ThreadTold DEF FindSource, InStep, Copying
  <1>3. asked' = asked /\ torn' = torn /\ object' = object /\ Ages
    BY ReadOnlyIs DEF FindSource
  <1>4. PICK err : err = [by |-> "get_object_by_id", ex |-> "ObjectNotFoundError"]
    OBVIOUS
  <1>5. CASE Undo(t, err, 2)
    BY <1>1, <1>2, <1>3, <1>4, <1>5, UndoTold
  <1>6. CASE Raise(t, "get_object_by_id", "ExpectedSnapshotButFoundVolumeError")
    BY <1>1, <1>2, <1>3, <1>6, RaiseTold, RaisedIs
  <1>7. ASSUME NEW pc \in {"fmaster", "names"}, NEW from, NEW blocks,
               Then(t, [l EXCEPT !.pc = pc, !.from = from, !.blocks = blocks])
        PROVE  Told'
    <2>1. PICK m : m = [l EXCEPT !.pc = pc, !.from = from, !.blocks = blocks]
      OBVIOUS
    <2>2. m.pc = pc /\ m.call = l.call /\ m.undo = l.undo /\ m.id = l.id /\ Then(t, m)
      BY <1>2, <1>7, <2>1 DEF LocRecs
    <2>3. LocTold(m)'
      BY <1>2, <1>3, <2>2 DEF LocTold, Removing, Copying, Exists
    <2> QED
      BY <1>1, <1>3, <2>2, <2>3, ThenTold
  <1> QED
    BY <1>1, <1>4, <1>5, <1>6, <1>7 DEF FindSource

LEMMA FindMasterTold ==
  ASSUME Sound, Told, NEW t \in Threads, FindMaster(t)
  PROVE  Told'
  <1>1. PICK l : l = loc[t]
    OBVIOUS
  <1>2. l \in LocRecs /\ l.pc \in {"fmaster", "smaster", "cmaster"} /\ LocTold(l) /\ l.undo = NoError
    BY <1>1, ThreadTold DEF FindMaster, InStep, Copying, Snapping
  <1>3. asked' = asked /\ torn' = torn /\ object' = object /\ Ages
    BY ReadOnlyIs DEF FindMaster
  <1>4. ASSUME NEW by \in {"get_object_by_id", "get_snapshot", "create_snapshot"},
               Raise(t, by, "AttributeError")
        PROVE  Told'
    BY <1>1, <1>2, <1>3, <1>4, RaiseTold, RaisedIs
  <1>5. CASE To(t, "names") /\ l.pc = "fmaster"
    <2>1. ASSUME NEW m, m.pc = "names", m.call = l.call, m.undo = l.undo, m.id = l.id PROVE LocTold(m)'
      BY <1>2, <1>3, <1>5, <2>1 DEF LocTold, Removing, Copying, Exists
    <2> QED
      BY <1>1, <1>3, <1>5, <2>1, ToTold
  <1>6. CASE Ok(t)
    BY <1>1, <1>2, <1>3, <1>6, OkTold
  <1>7. CASE Refuse(t, "ALREADY_EXISTS")
    BY <1>1, <1>2, <1>3, <1>7, RefuseTold
  <1>8. CASE l.pc = "fmaster"
    BY <1>1, <1>4, <1>5, <1>8 DEF FindMaster
  <1>9. CASE l.pc = "smaster"
    BY <1>1, <1>4, <1>6, <1>7, <1>9 DEF FindMaster
  <1>10. CASE l.pc = "cmaster"
    BY <1>1, <1>4, <1>6, <1>10 DEF FindMaster
  <1> QED
    BY <1>2, <1>8, <1>9, <1>10

\* The name of the source that a call has looked up.
LEMMA SourceTold ==
  ASSUME Sound, Told, NEW c \in asked, c.op \in Creates, c.source # NoId, Exists(c.source), NEW name,
         name = object[c.source].name
  PROVE  \E k \in Known : /\ k.id = c.source /\ k.name = name
                          /\ k.op = IF c.op = "CreateSnapshot" \/ c.kind = "volume"
                                    THEN "CreateVolume" ELSE "CreateSnapshot"
  <1>1. CallOK(c)
    BY DEF Told
  <1>2. PICK k \in Known : /\ k.id = c.source
                           /\ k.op = "CreateVolume" <=> (c.op = "CreateSnapshot" \/ c.kind = "volume")
    BY <1>1 DEF CallOK, Creates
  <1>3. k.op \in Creates /\ k.name = name
    BY <1>2, KnownIs DEF Told
  <1> QED
    BY <1>2, <1>3 DEF Creates

LEMMA FindNamesTold ==
  ASSUME Sound, Told, NEW t \in Threads, FindNames(t)
  PROVE  Told'
  <1>1. PICK l : l = loc[t]
    OBVIOUS
  <1>2. /\ l \in LocRecs /\ l.pc = "names" /\ l.call.op = "CreateVolume" /\ LocTold(l)
        /\ l.undo = NoError /\ l.call \in asked /\ l.call.source # NoId
    BY <1>1, ThreadTold DEF FindNames, InStep, Copying, LocTold
  <1>3. asked' = asked /\ torn' = torn /\ object' = object /\ Ages
    BY ReadOnlyIs DEF FindNames
  <1>4. CASE Raise(t, "copy_to_existing_volume_from_source", "ObjectNotFoundError")
    BY <1>1, <1>2, <1>3, <1>4, RaiseTold, RaisedIs
  <1>5. CASE /\ Exists(l.call.source)
             /\ Then(t, [l EXCEPT !.pc = "format", !.from = object[l.call.source].name])
    <2>1. PICK name, c : name = object[l.call.source].name /\ c = l.call
      OBVIOUS
    <2>2. PICK m : m = [l EXCEPT !.pc = "format", !.from = name]
      OBVIOUS
    <2>3. /\ m.pc = "format" /\ m.call = l.call /\ m.undo = l.undo /\ m.id = l.id /\ m.from = name
          /\ Then(t, m)
      BY <1>2, <1>5, <2>1, <2>2 DEF LocRecs
    <2>4. \E k \in Known : /\ k.id = l.call.source /\ k.name = name
                           /\ k.op = IF l.call.kind = "volume" THEN "CreateVolume" ELSE "CreateSnapshot"
      BY <1>2, <1>5, <2>1, SourceTold DEF Creates
    <2>5. Known \subseteq Known'
      BY <2>3, KnownGrows DEF Then
    <2>6. LocTold(m)'
      BY <1>2, <1>3, <2>3, <2>4, <2>5 DEF LocTold, Removing, Copying, Exists
    <2> QED
      BY <1>1, <1>3, <2>3, <2>6, ThenTold
  <1> QED
    BY <1>1, <1>4, <1>5 DEF FindNames

LEMMA FormatTold ==
  ASSUME Sound, Told, NEW t \in Threads, Format(t)
  PROVE  Told'
  <1>1. PICK l : l = loc[t]
    OBVIOUS
  <1>2. /\ LocOK(l) /\ LocTold(l) /\ l.pc = "format" /\ l.undo = NoError
    BY <1>1, ThreadTold DEF Format, InStep, Copying
  <1>3. asked' = asked /\ torn' = torn
    BY DEF Format, bounds
  <1>4. CASE UNCHANGED arrayVars /\ Raise(t, "copy_to_existing_volume_from_source", "ObjectNotFoundError")
    BY <1>1, <1>2, <1>3, <1>4, NothingChanges, RaiseTold, RaisedIs DEF Sound
  <1>5. ASSUME NEW i \in Called(l.call.name), VolFormat(i), To(t, "copy") PROVE Told'
    <2>1. Exists(i)
      BY <1>5, CalledIs DEF Sound
    <2>2. Ages
      BY <1>5, <2>1, FormatDoes DEF Sound
    <2>3. LocTold(l)'
      BY <1>2, <1>3, <1>5, <2>2, LocToldKept, KnownGrows DEF To, Then
    <2>4. ASSUME NEW m, m.pc = "copy", m.call = l.call, m.undo = l.undo, m.id = l.id, m.from = l.from
          PROVE  LocTold(m)'
      BY <1>2, <2>3, <2>4 DEF LocTold, Removing, Copying
    <2> QED
      BY <1>1, <1>3, <1>5, <2>2, <2>4, ToTold
  <1> QED
    BY <1>1, <1>4, <1>5 DEF Format

LEMMA CopyTold ==
  ASSUME Sound, Told, NEW t \in Threads, Copy(t)
  PROVE  Told'
  <1>1. PICK l : l = loc[t]
    OBVIOUS
  <1>2. /\ LocOK(l) /\ LocTold(l) /\ l.pc = "copy" /\ l.undo = NoError
    BY <1>1, ThreadTold DEF Copy, InStep, Copying
  <1>3. asked' = asked /\ torn' = torn
    BY DEF Copy, bounds
  <1>4. CASE UNCHANGED arrayVars /\ Raise(t, "copy_to_existing_volume_from_source", "ObjectNotFoundError")
    BY <1>1, <1>2, <1>3, <1>4, NothingChanges, RaiseTold, RaisedIs DEF Sound
  <1>5. ASSUME NEW s \in Called(l.from), NEW i \in Called(l.call.name), VolCopy(s, i),
               To(t, "resize") \/ Ok(t)
        PROVE  Told'
    <2>1. Exists(i) /\ Exists(s)
      BY <1>5, CalledIs DEF Sound
    <2>2. Ages
      BY <1>5, <2>1, CopyDoes DEF Sound
    <2>3. CASE To(t, "resize")
      <3>1. LocTold(l)'
        BY <1>2, <1>3, <2>3, <2>2, LocToldKept, KnownGrows DEF To, Then
      <3>2. ASSUME NEW m, m.pc = "resize", m.call = l.call, m.undo = l.undo, m.id = l.id
            PROVE  LocTold(m)'
        BY <1>2, <3>1, <3>2 DEF LocTold, Removing, Copying
      <3> QED
        BY <1>1, <1>3, <2>2, <2>3, <3>2, ToTold
    <2>4. CASE Ok(t)
      BY <1>1, <1>2, <1>3, <2>2, <2>4, OkTold
    <2> QED
      BY <1>5, <2>3, <2>4
  <1> QED
    BY <1>1, <1>4, <1>5 DEF Copy

LEMMA ResizeTold ==
  ASSUME Sound, Told, NEW t \in Threads, Resize(t)
  PROVE  Told'
  <1>1. PICK l : l = loc[t]
    OBVIOUS
  <1>2. l.pc = "resize" /\ l.undo = NoError /\ l.call.size \in Nat
    BY <1>1, ThreadIs DEF Resize, InStep, Copying
  <1>3. asked' = asked /\ torn' = torn
    BY DEF Resize, bounds
  <1>4. ASSUME UNCHANGED arrayVars, NEW ex \in {"ObjectNotFoundError", "XCLIError"},
               Raise(t, "copy_to_existing_volume_from_source", ex)
        PROVE  Told'
    BY <1>1, <1>2, <1>3, <1>4, NothingChanges, RaiseTold, RaisedIs DEF Sound
  <1>5. ASSUME NEW i \in Called(l.call.name), VolResize(i, ToBlocks(Required(l.call))), Ok(t)
        PROVE  Told'
    <2>1. Exists(i)
      BY <1>5, CalledIs DEF Sound
    <2>2. PICK blocks \in Nat : blocks = ToBlocks(Required(l.call))
      BY <1>2, ProvisioningAssumption DEF ToBlocks, Required
    <2>3. Ages
      BY <1>5, <2>1, <2>2, ResizeDoes DEF Sound
    <2> QED
      BY <1>1, <1>2, <1>3, <1>5, <2>3, OkTold
  <1> QED
    BY <1>1, <1>4, <1>5 DEF Resize

LEMMA SnapshotLookupTold ==
  ASSUME Sound, Told, NEW t \in Threads, SnapshotLookup(t)
  PROVE  Told'
  <1>1. PICK l : l = loc[t]
    OBVIOUS
  <1>2. /\ l \in LocRecs /\ LocTold(l) /\ l.pc = "slook" /\ l.call.op = "CreateSnapshot" /\ l.undo = NoError
    BY <1>1, ThreadTold DEF SnapshotLookup, InStep, Snapping
  <1>3. asked' = asked /\ torn' = torn /\ object' = object /\ Ages
    BY ReadOnlyIs DEF SnapshotLookup
  <1>4. CASE To(t, "ssource")
    <2>1. ASSUME NEW m, m.pc = "ssource", m.call = l.call, m.undo = l.undo, m.id = l.id PROVE LocTold(m)'
      BY <1>2, <1>3, <2>1 DEF LocTold, Removing, Copying, Exists
    <2> QED
      BY <1>1, <1>3, <1>4, <2>1, ToTold
  <1>5. CASE Raise(t, "get_snapshot", "ExpectedSnapshotButFoundVolumeError")
    BY <1>1, <1>2, <1>3, <1>5, RaiseTold, RaisedIs
  <1>6. CASE Refuse(t, "ALREADY_EXISTS")
    BY <1>1, <1>2, <1>3, <1>6, RefuseTold
  <1>7. ASSUME NEW i \in Called(l.call.name), Reply(t, "OK", i, NoError) PROVE Told'
    <2>1. object'[i].name = l.call.name
      BY <1>3, <1>7 DEF Called
    <2> QED
      BY <1>1, <1>2, <1>3, <1>7, <2>1, ReplyTold DEF Creates
  <1>8. ASSUME NEW i \in Called(l.call.name), IsSnapshot(i),
               Then(t, [l EXCEPT !.pc = "smaster", !.id = i, !.from = MasterName(i)])
        PROVE  Told'
    <2>1. object'[i].name = l.call.name /\ IsSnapshot(i)' /\ Exists(i)
      BY <1>3, <1>8 DEF Called, IsSnapshot
    <2>2. PICK m : m = [l EXCEPT !.pc = "smaster", !.id = i, !.from = MasterName(i)]
      OBVIOUS
    <2>3. /\ m.pc = "smaster" /\ m.call = l.call /\ m.undo = l.undo /\ m.id = i /\ m.from = MasterName(i)
          /\ Then(t, m)
      BY <1>2, <1>8, <2>2 DEF LocRecs
    <2>4. Traced(m)'
      BY <1>3, <1>8, <2>1, <2>3, MasterNameIs DEF Traced
    <2>5. LocTold(m)'
      BY <1>2, <1>3, <2>1, <2>3, <2>4 DEF LocTold, Removing, Copying
    <2> QED
      BY <1>1, <1>3, <2>3, <2>5, ThenTold
  <1> QED
    BY <1>1, <1>4, <1>5, <1>6, <1>7, <1>8 DEF SnapshotLookup

LEMMA SnapshotSourceTold ==
  ASSUME Sound, Told, NEW t \in Threads, SnapshotSource(t)
  PROVE  Told'
  <1>1. PICK l : l = loc[t]
    OBVIOUS
  <1>2. /\ l \in LocRecs /\ l.pc = "ssource" /\ l.call.op = "CreateSnapshot" /\ LocTold(l)
        /\ l.undo = NoError /\ l.call \in asked
    BY <1>1, ThreadTold DEF SnapshotSource, InStep, Snapping
  <1>3. asked' = asked /\ torn' = torn /\ object' = object /\ Ages
    BY ReadOnlyIs DEF SnapshotSource
  <1>4. CASE Raise(t, "create_snapshot", "AttributeError")
    BY <1>1, <1>2, <1>3, <1>4, RaiseTold, RaisedIs
  <1>5. CASE /\ Exists(l.call.source)
             /\ Then(t, [l EXCEPT !.pc = "snap", !.from = object[l.call.source].name])
    <2>1. PICK name, c : name = object[l.call.source].name /\ c = l.call
      OBVIOUS
    <2>2. PICK m : m = [l EXCEPT !.pc = "snap", !.from = name]
      OBVIOUS
    <2>3. /\ m.pc = "snap" /\ m.call = l.call /\ m.undo = l.undo /\ m.id = l.id /\ m.from = name
          /\ Then(t, m)
      BY <1>2, <1>5, <2>1, <2>2 DEF LocRecs
    <2>4. l.call.source # NoId
      BY <1>5, ObjectIs DEF Sound, NoId
    <2>5. \E k \in Known : k.id = l.call.source /\ k.name = name /\ k.op = "CreateVolume"
      BY <1>2, <1>5, <2>1, <2>4, SourceTold DEF Creates
    <2>6. Known \subseteq Known'
      BY <2>3, KnownGrows DEF Then
    <2>7. LocTold(m)'
      BY <1>2, <1>3, <2>3, <2>5, <2>6 DEF LocTold, Removing, Copying, Exists
    <2> QED
      BY <1>1, <1>3, <2>3, <2>7, ThenTold
  <1> QED
    BY <1>1, <1>4, <1>5 DEF SnapshotSource

LEMMA SnapTold ==
  ASSUME Sound, Told, NEW t \in Threads, Snap(t)
  PROVE  Told'
  <1>1. PICK l : l = loc[t]
    OBVIOUS
  <1>2. /\ l \in LocRecs /\ LocTold(l) /\ l.pc = "snap" /\ l.call.op = "CreateSnapshot"
        /\ l.undo = NoError /\ l.call.name \in Names
    BY <1>1, ThreadTold, ThreadIs DEF Snap, InStep, Snapping
  <1>3. asked' = asked /\ torn' = torn
    BY DEF Snap, bounds
  <1>4. ASSUME UNCHANGED arrayVars, NEW ex \in {"SnapshotAlreadyExists", "ObjectNotFoundError", "XCLIError"},
               Raise(t, "create_snapshot", ex)
        PROVE  Told'
    BY <1>1, <1>2, <1>3, <1>4, NothingChanges, RaiseTold, RaisedIs DEF Sound
  <1>5. ASSUME Called(l.call.name) = {}, NEW s \in Called(l.from), ~IsSnapshot(s),
               SnapshotCreate(l.call.name, s),
               \/ Then(t, [l EXCEPT !.pc = "cmaster", !.id = nextId])
               \/ Reply(t, "OK", nextId, NoError)
        PROVE  Told'
    <2>1. Exists(s) /\ s \in Nat \ {0}
      BY <1>5, CalledIs, ObjectIs DEF Sound
    <2>2. PICK n, name : n = nextId /\ name = l.call.name
      OBVIOUS
    <2>3. Ages /\ object'[n].name = l.call.name /\ object'[n].master = s
      BY <1>2, <1>5, <2>1, <2>2, SnapshotDoes DEF Sound
    <2>4. CASE Reply(t, "OK", n, NoError)
      BY <1>1, <1>2, <1>3, <2>3, <2>4, ReplyTold DEF Creates
    <2>5. CASE Then(t, [l EXCEPT !.pc = "cmaster", !.id = nextId])
      <3>1. PICK m : m = [l EXCEPT !.pc = "cmaster", !.id = n]
        OBVIOUS
      <3>2. /\ m.pc = "cmaster" /\ m.call = l.call /\ m.undo = l.undo /\ m.id = n /\ m.from = l.from
            /\ Then(t, m)
        BY <1>2, <2>2, <2>5, <3>1 DEF LocRecs
      <3>3. IsSnapshot(n)'
        BY <2>1, <2>3 DEF IsSnapshot, NoId
      <3>4. object[s].name = l.from /\ s < nextId /\ s \in Ids
        BY <1>5, <2>1, ObjectIs DEF Called, Sound
      <3>5. Traced(m)'
        BY <2>1, <2>3, <3>2, <3>4 DEF Traced, Ages
      <3>6. LocTold(m)'
        BY <1>2, <1>3, <2>3, <3>2, <3>3, <3>5 DEF LocTold, Removing, Copying
      <3> QED
        BY <1>1, <1>3, <2>3, <3>2, <3>6, ThenTold
    <2> QED
      BY <1>5, <2>2, <2>4, <2>5
  <1> QED
    BY <1>1, <1>4, <1>5 DEF Snap

LEMMA FindObjectTold ==
  ASSUME Sound, Told, NEW t \in Threads, FindObject(t)
  PROVE  Told'
  <1>1. PICK l : l = loc[t]
    OBVIOUS
  <1>2. l \in LocRecs /\ LocTold(l) /\ l.pc = "find"
    BY <1>1, ThreadTold DEF FindObject
  <1>3. asked' = asked /\ torn' = torn /\ object' = object /\ Ages
    BY ReadOnlyIs DEF FindObject
  <1>4. CASE Raise(t, Deleter(t), "ObjectNotFoundError")
    BY <1>1, <1>2, <1>3, <1>4, RaiseTold, RaisedIs DEF Deleter
  <1>5. ASSUME Exists(l.id), NEW pc \in {"rmsnapshot", "snapshots"},
               Then(t, [l EXCEPT !.from = object[l.id].name, !.pc = pc])
        PROVE  Told'
    <2>1. PICK name : name = object[l.id].name
      OBVIOUS
    <2>2. PICK m : m = [l EXCEPT !.from = name, !.pc = pc]
      OBVIOUS
    <2>3. m.pc = pc /\ m.call = l.call /\ m.undo = l.undo /\ m.id = l.id /\ m.from = name /\ Then(t, m)
      BY <1>2, <1>5, <2>1, <2>2 DEF LocRecs
    <2>4. name = l.call.name
      BY <1>2, <1>5, <2>1 DEF LocTold
    <2>5. LocTold(m)'
      BY <1>2, <1>3, <2>3, <2>4 DEF LocTold, Removing, Copying, Exists
    <2> QED
      BY <1>1, <1>3, <2>3, <2>5, ThenTold
  <1> QED
    BY <1>1, <1>4, <1>5 DEF FindObject

LEMMA ListSnapshotsTold ==
  ASSUME Sound, Told, NEW t \in Threads, ListSnapshots(t)
  PROVE  Told'
  <1>1. PICK l : l = loc[t]
    OBVIOUS
  <1>2. LocTold(l) /\ l.pc = "snapshots"
    BY <1>1, ThreadTold DEF ListSnapshots
  <1>3. asked' = asked /\ torn' = torn /\ object' = object /\ Ages
    BY ReadOnlyIs DEF ListSnapshots
  <1>4. ASSUME NEW ex \in {"XCLIError", "ObjectIsStillInUseError"}, Raise(t, "delete_volume", ex)
        PROVE  Told'
    BY <1>1, <1>2, <1>3, <1>4, RaiseTold, RaisedIs
  <1>5. CASE To(t, "rmvolume")
    <2>1. ASSUME NEW m, m.pc = "rmvolume", m.call = l.call, m.undo = l.undo, m.id = l.id, m.from = l.from
          PROVE  LocTold(m)'
      BY <1>2, <1>3, <2>1 DEF LocTold, Removing, Copying, Exists
    <2> QED
      BY <1>1, <1>3, <1>5, <2>1, ToTold
  <1> QED
    BY <1>1, <1>4, <1>5 DEF ListSnapshots

LEMMA RemoveObjectTold ==
  ASSUME Sound, Told, NEW t \in Threads, RemoveObject(t)
  PROVE  Told'
  <1>1. PICK l : l = loc[t]
    OBVIOUS
  <1>2. l.pc \in {"rmvolume", "rmsnapshot"}
    BY <1>1 DEF RemoveObject
  <1>3. asked' = asked /\ torn' = torn
    BY DEF RemoveObject, bounds
  <1>4. \A ex \in {"ObjectNotFoundError", "XCLIError"} : [by |-> Deleter(t), ex |-> ex] \in Raised
    BY RaisedIs DEF Deleter
  <1>5. ASSUME UNCHANGED arrayVars, NEW ex \in {"ObjectNotFoundError", "XCLIError"},
               Raise(t, Deleter(t), ex)
        PROVE  Told'
    BY <1>1, <1>2, <1>3, <1>4, <1>5, NothingChanges, RaiseTold DEF Sound
  <1>6. ASSUME NEW i \in Called(l.from), IsSnapshot(i) = (l.pc = "rmsnapshot"),
               IF l.pc = "rmvolume" THEN VolDelete(i) ELSE SnapshotDelete(i),
               IF l.undo = NoError THEN Ok(t) ELSE UndoNext(t, NoError)
        PROVE  Told'
    <2>1. Exists(i)
      BY <1>6, CalledIs DEF Sound
    <2>2. IF IsSnapshot(i) THEN SnapshotDelete(i) ELSE VolDelete(i)
      BY <1>2, <1>6
    <2>3. Ages
      BY <2>1, <2>2, RemovalIs DEF Sound
    <2>4. NoError \in Errs /\ NoError.ex # "VolumeAlreadyExists"
      BY DEF Errs, NoError
    <2> QED
      BY <1>1, <1>2, <1>3, <1>6, <2>3, <2>4, OkTold, UndoNextTold
  <1> QED
    BY <1>1, <1>5, <1>6 DEF RemoveObject

LEMMA ExpandLookupTold ==
  ASSUME Sound, Told, NEW t \in Threads, ExpandLookup(t)
  PROVE  Told'
  <1>1. PICK l : l = loc[t]
    OBVIOUS
  <1>2. LocTold(l) /\ l.pc = "xlook"
    BY <1>1, ThreadTold DEF ExpandLookup
  <1>3. asked' = asked /\ torn' = torn /\ object' = object /\ Ages
    BY ReadOnlyIs DEF ExpandLookup
  <1>4. CASE Refuse(t, "NOT_FOUND") \/ Refuse(t, "OUT_OF_RANGE")
    BY <1>1, <1>2, <1>3, <1>4, RefuseTold
  <1>5. CASE Ok(t)
    BY <1>1, <1>2, <1>3, <1>5, OkTold
  <1>6. CASE To(t, "xfind")
    <2>1. ASSUME NEW m, m.pc = "xfind", m.call = l.call, m.undo = l.undo, m.id = l.id PROVE LocTold(m)'
      BY <1>2, <1>3, <2>1 DEF LocTold, Removing, Copying, Exists
    <2> QED
      BY <1>1, <1>3, <1>6, <2>1, ToTold
  <1> QED
    BY <1>1, <1>4, <1>5, <1>6 DEF ExpandLookup

LEMMA ExpandFindTold ==
  ASSUME Sound, Told, NEW t \in Threads, ExpandFind(t)
  PROVE  Told'
  <1>1. PICK l : l = loc[t]
    OBVIOUS
  <1>2. l \in LocRecs /\ LocTold(l) /\ l.pc = "xfind" /\ l.undo = NoError
    BY <1>1, ThreadTold DEF ExpandFind, InStep, Undoing
  <1>3. asked' = asked /\ torn' = torn /\ object' = object /\ Ages
    BY ReadOnlyIs DEF ExpandFind
  <1>4. CASE Raise(t, "expand_volume", "ObjectNotFoundError")
    BY <1>1, <1>2, <1>3, <1>4, RaiseTold, RaisedIs
  <1>5. CASE Exists(l.id) /\ Then(t, [l EXCEPT !.pc = "xresize", !.from = object[l.id].name])
    <2>1. PICK name : name = object[l.id].name
      OBVIOUS
    <2>2. PICK m : m = [l EXCEPT !.pc = "xresize", !.from = name]
      OBVIOUS
    <2>3. /\ m.pc = "xresize" /\ m.call = l.call /\ m.undo = l.undo /\ m.id = l.id /\ m.from = name
          /\ Then(t, m)
      BY <1>2, <1>5, <2>1, <2>2 DEF LocRecs
    <2>4. name = l.call.name
      BY <1>2, <1>5, <2>1 DEF LocTold
    <2>5. LocTold(m)'
      BY <1>2, <1>3, <2>3, <2>4 DEF LocTold, Removing, Copying, Exists
    <2> QED
      BY <1>1, <1>3, <2>3, <2>5, ThenTold
  <1> QED
    BY <1>1, <1>4, <1>5 DEF ExpandFind

LEMMA ExpandResizeTold ==
  ASSUME Sound, Told, NEW t \in Threads, ExpandResize(t)
  PROVE  Told'
  <1>1. PICK l : l = loc[t]
    OBVIOUS
  <1>2. LocOK(l) /\ LocTold(l) /\ l.pc = "xresize" /\ l.call.size \in Nat /\ l.undo = NoError
    BY <1>1, ThreadTold, ThreadIs DEF ExpandResize, InStep, Undoing
  <1>3. asked' = asked /\ torn' = torn
    BY DEF ExpandResize, bounds
  <1>4. ASSUME UNCHANGED arrayVars, NEW ex \in {"ObjectNotFoundError", "XCLIError"},
               Raise(t, "expand_volume", ex)
        PROVE  Told'
    BY <1>1, <1>2, <1>3, <1>4, NothingChanges, RaiseTold, RaisedIs DEF Sound
  <1>5. ASSUME NEW i \in Called(l.from), VolResize(i, ToBlocks(l.call.size)), To(t, "xafter")
        PROVE  Told'
    <2>1. Exists(i)
      BY <1>5, CalledIs DEF Sound
    <2>2. PICK blocks \in Nat : blocks = ToBlocks(l.call.size)
      BY <1>2, ProvisioningAssumption DEF ToBlocks
    <2>3. Ages
      BY <1>5, <2>1, <2>2, ResizeDoes DEF Sound
    <2>4. LocTold(l)'
      BY <1>2, <1>3, <1>5, <2>3, LocToldKept, KnownGrows DEF To, Then
    <2>5. ASSUME NEW m, m.pc = "xafter", m.call = l.call, m.undo = l.undo, m.id = l.id PROVE LocTold(m)'
      BY <1>2, <2>4, <2>5 DEF LocTold, Removing, Copying
    <2> QED
      BY <1>1, <1>3, <1>5, <2>3, <2>5, ToTold
  <1> QED
    BY <1>1, <1>4, <1>5 DEF ExpandResize

LEMMA ExpandAfterTold ==
  ASSUME Sound, Told, NEW t \in Threads, ExpandAfter(t)
  PROVE  Told'
  <1>1. asked' = asked /\ torn' = torn /\ Ages /\ loc[t].pc = "xafter"
    BY ReadOnlyIs DEF ExpandAfter
  <1> QED
    BY <1>1, OkTold, RefuseTold DEF ExpandAfter

LEMMA FaultTold ==
  ASSUME Sound, Told, NEW t \in Threads, Fault(t)
  PROVE  Told'
  <1>1. PICK err \in Refusals(t) : Raise(t, err.by, err.ex)
    BY DEF Fault
  <1>2. loc[t].pc # "idle" /\ asked' = asked /\ torn' = torn /\ Ages
    BY NothingChanges DEF Fault, Sound
  <1>3. [by |-> err.by, ex |-> err.ex] \in Raised /\ err.ex # "VolumeAlreadyExists"
    BY <1>2, RefusalsAre
  <1> QED
    BY <1>1, <1>2, <1>3, RaiseTold

LEMMA CrashTold ==
  ASSUME Sound, Told, Crash
  PROVE  Told'
  <1>1. /\ Ages /\ answers' = answers /\ asked' = asked /\ torn' = torn /\ object' = object
        /\ loc' = [t \in Threads |-> Idle]
    BY NothingChanges DEF Crash, Sound, arrayVars
  <1>2. Known' = Known /\ \A i : Exists(i)' = Exists(i)
    BY <1>1 DEF Known, OkTo, Exists
  <1>3. PICK m : m = Idle
    OBVIOUS
  <1>4. LocTold(m)'
    BY <1>3, IdleTold
  <1>5. \A t \in Threads : loc'[t] = m
    BY <1>1, <1>3
  <1>6. \A t \in Threads : LocTold(loc[t])'
    BY <1>4, <1>5
  <1>7. \A c \in asked' : c \in CallRecs /\ CallOK(c)'
    BY <1>1, <1>2, CallKept DEF Told
  <1>8. \A t \in Threads : loc'[t].call.op = "none"
    BY <1>3, <1>5, IdleIs
  <1>9. \A k \in Known' : Exists(k.id)' => object'[k.id].name = k.name
    BY <1>1, <1>2 DEF Told
  <1> QED
    BY <1>1, <1>6, <1>7, <1>8, <1>9 DEF Told

LEMMA AskTold ==
  ASSUME Sound, Told, NEW t \in Threads, NEW c \in CallRecs, CallOK(c), Ask(t, c)
  PROVE  Told'
  <1>1. PICK m : m = [Idle EXCEPT !.call = c, !.id = c.id, !.pc = FirstStep[c.op]]
    OBVIOUS
  <1>2. /\ c.op = "CreateVolume" => FirstStep[c.op] = "lookup"
        /\ c.op = "CreateSnapshot" => FirstStep[c.op] = "slook"
        /\ c.op \in Deletes => FirstStep[c.op] = "find"
        /\ c.op = "Expand" => FirstStep[c.op] = "xlook"
    BY DEF FirstStep, Deletes
  <1>3. /\ c.op \in {"CreateVolume", "CreateSnapshot", "Expand"} \cup Deletes
        /\ c.op \in Creates => c.id = NoId
    BY DEF CallOK, CallRecs, Ops, Creates
  <1>4. /\ m.pc \in {"lookup", "slook", "find", "xlook"} /\ m.call = c /\ m.id = c.id /\ m.undo = NoError
        /\ m.pc \in {"lookup", "slook"} => c.op \in Creates
    BY <1>1, <1>2, <1>3, IdleIs DEF LocRecs, Creates, Deletes
  <1>5. /\ Then(t, m) /\ answers' = answers /\ asked' = asked \cup {c} /\ object' = object
        /\ torn' = torn \cup UNION {Halves(c, loc[o].call) : o \in Threads} /\ Ages
    BY <1>1, NothingChanges DEF Ask, Then, arrayVars, Sound
  <1>6. Known' = Known /\ \A i : Exists(i)' = Exists(i)
    BY <1>5 DEF Known, OkTo, Exists
  <1>7. loc'[t] = m /\ \A u \in Threads : u # t => loc'[u] = loc[u]
    BY <1>5 DEF Then, Go, Sound
  <1>8. c.op \notin Creates /\ Exists(c.id) => object[c.id].name = c.name
    BY DEF CallOK, Told
  <1>9. ~Exists(NoId)
    BY ObjectIs DEF Sound, NoId
  <1>10. LocTold(m)'
    BY <1>3, <1>4, <1>5, <1>6, <1>8, <1>9 DEF LocTold, Removing, Copying, NoError
  <1>11. ASSUME NEW u \in Threads PROVE LocTold(loc[u])'
    <2>1. PICK l : l = loc'[u]
      OBVIOUS
    <2>2. LocTold(l)'
      <3>1. CASE u = t
        BY <3>1, <2>1, <1>7, <1>10
      <3>2. CASE u # t
        BY <3>2, <2>1, <1>5, <1>6, <1>7, LocToldKept DEF Sound, Told
      <3> QED
        BY <3>1, <3>2
    <2> QED
      BY <2>1, <2>2
  <1>12. \A d \in asked' : d \in CallRecs /\ CallOK(d)'
    BY <1>5, <1>6, CallKept DEF Told
  <1>13. \A d, e \in asked' : d.op \in Creates /\ d.op = e.op /\ d.name = e.name => d = e
    BY <1>5 DEF Told, Ask
  <1>14. ASSUME NEW u \in Threads, NEW v \in Threads, loc'[u].call.op = "DeleteVolume",
                loc'[v].call.op = "CreateSnapshot", loc'[u].call.id = loc'[v].call.source
         PROVE  loc'[u].call.id \in torn'
    <2>1. PICK i : i = loc'[u].call.id
      OBVIOUS
    <2>2. \A d : /\ d.op = "DeleteVolume" /\ CallOK(d) => d.id # NoId
      <3> SUFFICES ASSUME NEW d, d.op = "DeleteVolume", CallOK(d) PROVE d.id # NoId
        OBVIOUS
      <3> QED
        BY KnownIs DEF CallOK, Creates, NoId
    <2>3. ASSUME NEW w \in Threads, loc[w].call.op # "none" PROVE CallOK(loc[w].call)
      <3>1. loc[w].pc # "idle"
        BY <2>3, ThreadIs, IdleIs DEF InStep
      <3> QED
        BY <3>1, ThreadTold
    <2>4. CASE u = t /\ v # t
      <3>1. c.op = "DeleteVolume" /\ loc[v].call.op = "CreateSnapshot" /\ c.id = i /\ loc[v].call.source = i
        BY <1>4, <1>7, <1>14, <2>1, <2>4
      <3>2. i \in Halves(c, loc[v].call)
        BY <2>2, <3>1 DEF Halves
      <3> QED
        BY <1>5, <2>1, <3>2
    <2>5. CASE u # t /\ v = t
      <3>1. /\ c.op = "CreateSnapshot" /\ loc[u].call.op = "DeleteVolume" /\ c.source = i
            /\ loc[u].call.id = i
        BY <1>4, <1>7, <1>14, <2>1, <2>5
      <3>2. i # NoId
        BY <2>2, <2>3, <3>1
      <3>3. i \in Halves(c, loc[u].call)
        BY <3>1, <3>2 DEF Halves
      <3> QED
        BY <1>5, <2>1, <3>3
    <2>6. CASE u # t /\ v # t
      BY <1>5, <1>7, <1>14, <2>6 DEF Told
    <2> QED
      BY <1>7, <1>14, <2>4, <2>5, <2>6
  <1>15. \A k \in Known' : Exists(k.id)' => object'[k.id].name = k.name
    BY <1>5, <1>6 DEF Told
  <1>16. \A a \in answers' : a.call \in asked' /\ (a.call.op \notin Creates /\ a.status = "OK" => a.id = a.call.id)
    BY <1>5 DEF Told
  <1> QED
    BY <1>11, <1>12, <1>13, <1>14, <1>15, <1>16 DEF Told

LEMMA ToldInit == Init => Told
  <1> SUFFICES ASSUME Init PROVE Told
    OBVIOUS
  <1>1. /\ answers = {} /\ asked = {} /\ loc = [t \in Threads |-> Idle]
        /\ object = [i \in Ids |-> IF i = 1 THEN [NoObject EXCEPT !.name = Source, !.blocks = SourceBlocks]
                                            ELSE NoObject]
    BY DEF Init
  <1>2. \A k \in Known : k.id = 1 /\ k.name = Source
    BY <1>1 DEF Known, OkTo
  <1>3. Exists(1) => object[1].name = Source
    BY <1>1 DEF Exists, NoObject
  <1>4. Idle.pc = "idle" /\ Idle.undo.ex = "none" /\ Idle.call.op = "none"
    BY IdleIs DEF NoError
  <1>5. LocTold(Idle)
    BY <1>4 DEF LocTold, Removing, Copying
  <1> QED
    BY <1>1, <1>2, <1>3, <1>4, <1>5 DEF Told

LEMMA ToldNext == Sound /\ Told /\ [Next]_vars => Told'
  <1> SUFFICES ASSUME Sound, Told, [Next]_vars PROVE Told'
    OBVIOUS
  <1>1. CASE UNCHANGED vars
    <2>1. /\ object' = object /\ nextId' = nextId /\ loc' = loc /\ answers' = answers /\ asked' = asked
          /\ torn' = torn
      BY <1>1 DEF vars, bounds, arrayVars
    <2>2. Known' = Known /\ (\A i : Exists(i)' = Exists(i) /\ IsSnapshot(i)' = IsSnapshot(i))
      BY <2>1 DEF Known, OkTo, Exists, IsSnapshot
    <2>3. \A l : LocTold(l)' = LocTold(l)
      BY <2>1, <2>2 DEF LocTold, Traced
    <2>4. \A c : CallOK(c)' = CallOK(c)
      BY <2>1, <2>2 DEF CallOK
    <2> QED
      BY <2>1, <2>2, <2>3, <2>4 DEF Told
  <1>2. ASSUME NEW t \in Threads, Command(t) PROVE Told'
    BY <1>2, LookupTold, CreateTold, FindSourceTold, FindMasterTold, FindNamesTold, FormatTold,
       CopyTold, ResizeTold, SnapshotLookupTold, SnapshotSourceTold, SnapTold, FindObjectTold,
       ListSnapshotsTold, RemoveObjectTold, ExpandLookupTold, ExpandFindTold, ExpandResizeTold,
       ExpandAfterTold DEF Command
  <1>3. ASSUME NEW t \in Threads, Start(t) PROVE Told'
    BY <1>3, CallsAre, AskTold
  <1> QED
    BY <1>1, <1>2, <1>3, FaultTold, CrashTold DEF Next

-----------------------------------------------------------------------------
(***************************************************************************)
(* As long as calls about one name do not overlap, a call works on what it *)
(* has made or looked up.                                                  *)
(***************************************************************************)

\* What a step of a thread with state l does to the array: it removes its object,
\* makes one of its name, or changes its own.
Calm(l) ==
    /\ \A i : Exists(i) /\ ~Exists(i)' =>
          /\ Exists(l.id) /\ (i = l.id \/ object[i].master = l.id)
          /\ l.pc \in {"rmvolume", "rmsnapshot"} /\ (IsSnapshot(l.id) <=> l.pc = "rmsnapshot")
          /\ \A j : Exists(j)' => Exists(j) /\ j # l.id
    /\ \A i \in Ids : Exists(i)' /\ ~Exists(i) =>
          /\ l.pc \in {"create", "snap"} /\ object'[i].name = l.call.name
          /\ object'[i].master # NoId => l.pc = "snap" /\ object'[i].master = l.call.source
    /\ \A i \in Ids : Exists(i) /\ Exists(i)' /\ object'[i] # object[i] =>
          /\ i = l.id /\ l.pc \in {"format", "copy", "resize", "xresize"}
          /\ l.pc = "xresize" => /\ object'[i].blocks >= object[i].blocks
                                 /\ object'[i].copied = object[i].copied
                                 /\ object'[i].data = object[i].data

\* What the orchestrator learns from a step of that thread.
Learns(l) ==
    \A k \in Known' : k \in Known \/ /\ k.name = l.call.name /\ k.op = l.call.op
                                     /\ Exists(k.id)' /\ object'[k.id].name = k.name
                                     /\ IsSnapshot(k.id)' <=> k.op = "CreateSnapshot"

LEMMA QuietIsCalm ==
  ASSUME UNCHANGED arrayVars, NEW l
  PROVE  Calm(l)
  BY DEF Calm, arrayVars, Exists

\* The other calls keep what they have.
LEMMA OthersHeld ==
  ASSUME Sound, Told, Held, Ages, torn' = torn, NEW t \in Threads, NEW u \in Threads, u # t,
         NEW l, l = loc[t], l.pc # "idle", NEW v, v = loc[u], Calm(l), Learns(l), Known \subseteq Known'
  PROVE  LocHeld(v)'
  <1>1. /\ LocOK(l) /\ LocTold(l) /\ InStep(l) /\ LocOK(v) /\ LocTold(v) /\ InStep(v) /\ LocHeld(v)
        /\ l.id < nextId /\ v.id < nextId /\ CallOK(l.call)
    BY ThreadTold DEF Held
  <1>2. CASE v.pc = "idle"
    BY <1>1, <1>2, IdleIs DEF InStep, LocHeld, Copying, Removing
  <1>3. CASE v.pc # "idle"
    <2>1. v.call.name # l.call.name
      BY <1>3 DEF Held, Alone
    <2>2. Exists(v.id)' => /\ Exists(v.id) /\ object'[v.id].name = v.call.name
                           /\ object'[v.id].master = object[v.id].master
      BY <1>1, <1>3 DEF Ages, LocTold, Exists
    <2>3. Exists(v.id) /\ Exists(l.id) => v.id # l.id
      BY <1>1, <1>3, <2>1 DEF LocTold
    <2>4. \A i : Exists(i)' => Exists(i) \/ object'[i].name = l.call.name
      BY DEF Calm, Exists
    <2>5. ASSUME NEW i, Exists(i)', object'[i].name = v.call.name PROVE i \in Called(v.call.name)
      <3>1. Exists(i) /\ i < nextId /\ i \in Ids
        BY <2>1, <2>4, <2>5, ObjectIs DEF Sound
      <3> QED
        BY <2>5, <3>1 DEF Ages, Called
    <2>6. Called(v.call.name) = {} => Called(v.call.name)' = {}
      BY <2>5 DEF Called
    <2>7. v.id \notin KnownIds => v.id \notin KnownIds'
      BY <2>1, <2>2 DEF Learns, KnownIds
    <2>8. ASSUME NEW j \in Snapshots(v.id)', Exists(v.id)', j \notin Snapshots(v.id)
          PROVE  l.call.op = "CreateSnapshot" /\ l.call.source = v.id
      <3>1. Exists(j)' /\ j \in Ids /\ object'[j].master = v.id
        BY <2>8 DEF Snapshots
      <3>2. ~Exists(j)
        <4> SUFFICES ASSUME Exists(j) PROVE FALSE
          OBVIOUS
        <4>1. j < nextId
          BY ObjectIs DEF Sound
        <4> QED
          BY <2>8, <3>1, <4>1 DEF Ages, Snapshots
      <3>3. v.id # NoId
        BY <2>2, <2>8, ObjectIs DEF Sound, NoId
      <3> QED
        BY <1>1, <3>1, <3>2, <3>3 DEF Calm, InStep, Snapping
    <2>9. l.call.op = "CreateSnapshot" => l.call.source \in KnownIds
      BY <1>1 DEF CallOK, KnownIds
    <2>10. v.pc \in Copying => Exists(v.id)'
      <3> SUFFICES ASSUME v.pc \in Copying, ~Exists(v.id)' PROVE FALSE
        OBVIOUS
      <3>1. Exists(v.id) /\ object[v.id].master = NoId
        BY <1>1 DEF LocHeld, IsSnapshot
      <3>2. Exists(l.id) /\ (v.id = l.id \/ object[v.id].master = l.id)
        BY <3>1 DEF Calm
      <3>3. l.id # NoId
        BY <3>2, ObjectIs DEF Sound, NoId
      <3> QED
        BY <2>3, <3>1, <3>2, <3>3
    <2>11. v.pc \in Copying \/ v.undo # NoError => v.id \notin KnownIds'
      BY <1>1, <2>7 DEF LocHeld
    <2>12. (v.pc \in Copying \/ v.undo # NoError) /\ Exists(v.id)' =>
              ~IsSnapshot(v.id)' /\ Snapshots(v.id)' = {}
      <3> SUFFICES ASSUME v.pc \in Copying \/ v.undo # NoError, Exists(v.id)'
                   PROVE  ~IsSnapshot(v.id)' /\ Snapshots(v.id)' = {}
        OBVIOUS
      <3>1. ~IsSnapshot(v.id) /\ Snapshots(v.id) = {} /\ v.id \notin KnownIds
        BY <1>1, <2>2 DEF LocHeld
      <3> QED
        BY <2>2, <2>8, <2>9, <3>1 DEF IsSnapshot
    <2>13. v.pc \in Removing /\ ~Exists(v.id)' => Called(v.call.name)' = {}
      <3> SUFFICES ASSUME v.pc \in Removing, ~Exists(v.id)', Exists(v.id) PROVE Called(v.call.name)' = {}
        BY <1>1, <2>6 DEF LocHeld
      <3>1. Called(v.call.name) = {v.id}
        BY <1>1, <1>3, CalledIs DEF LocTold, Sound
      <3> QED
        BY <2>5, <3>1 DEF Called
    <2>14. v.pc = "rmvolume" /\ Exists(v.id)' => Snapshots(v.id)' = {} \/ v.id \in torn'
      <3> SUFFICES ASSUME v.pc = "rmvolume", Exists(v.id)', Snapshots(v.id) = {}, NEW j \in Snapshots(v.id)'
                   PROVE  v.id \in torn
        BY <1>1, <2>2, <2>8 DEF LocHeld
      <3>1. l.call.op = "CreateSnapshot" /\ l.call.source = v.id /\ v.id \in KnownIds
        BY <2>8, <2>9
      <3>2. v.call.op \in {"DeleteVolume", "CreateVolume"} /\ (v.call.op = "CreateVolume" => v.undo # NoError)
        BY <1>1 DEF InStep, Undoing, Deletes
      <3>3. v.call.op = "DeleteVolume" /\ v.id = v.call.id
        BY <1>1, <3>1, <3>2 DEF LocHeld, InStep, Creates
      <3> QED
        BY <3>1, <3>3 DEF Told
    <2>15. v.pc = "create" => Called(v.call.name)' = {}
      BY <1>1, <2>6 DEF LocHeld
    <2>16. ASSUME v.pc \in {"smaster", "cmaster"}, ~Exists(v.id)' PROVE Lost(v)'
      <3>1. CASE ~Exists(v.id)
        <4>1. PICK k \in Known : k.name = v.from /\ k.op = "CreateVolume" /\ ~Exists(k.id)
          BY <1>1, <2>16, <3>1 DEF LocHeld, Lost
        <4>2. ~Exists(k.id)'
          BY <4>1, KnownIs DEF Ages, Exists
        <4> QED
          BY <4>1, <4>2 DEF Lost
      <3>2. CASE Exists(v.id)
        <4>1. /\ Exists(l.id) /\ object[v.id].master = l.id /\ l.pc \in {"rmvolume", "rmsnapshot"}
              /\ (IsSnapshot(l.id) <=> l.pc = "rmsnapshot") /\ ~Exists(l.id)'
          BY <2>3, <2>16, <3>2 DEF Calm
        <4>2. l.id \in Ids /\ v.id \in Ids /\ l.id # NoId
          BY <3>2, <4>1, ObjectIs DEF Sound, NoId
        <4>3. l.pc = "rmvolume" /\ v.id \in Snapshots(l.id)
          BY <3>2, <4>1, <4>2 DEF Sound, Arrayed, IsSnapshot, Snapshots
        <4>4. l.undo = NoError
          BY <4>1, <4>3 DEF Held, LocHeld
        <4>5. l.call.op = "DeleteVolume" /\ l.id = l.call.id
          BY <1>1, <4>3, <4>4 DEF InStep, Undoing, Deletes, Creates
        <4>6. PICK k \in Known : k.id = l.id /\ k.name = l.call.name /\ k.op = "CreateVolume"
          BY <1>1, <4>5 DEF CallOK, Creates
        <4>7. v.from = object[l.id].name /\ object[l.id].name = l.call.name
          BY <1>1, <2>16, <3>2, <4>1, <4>2 DEF LocTold, Traced
        <4> QED
          BY <4>1, <4>6, <4>7 DEF Lost
      <3> QED
        BY <3>1, <3>2
    <2> QED
      BY <2>10, <2>11, <2>12, <2>13, <2>14, <2>15, <2>16 DEF LocHeld
  <1> QED
    BY <1>2, <1>3

\* A thread goes on, perhaps with an answer.
LEMMA HeldStep ==
  ASSUME Sound, Told, Held, Ages, asked' = asked, torn' = torn, NEW t \in Threads, NEW l, l = loc[t],
         l.pc # "idle", Calm(l), Learns(l), answers \subseteq answers',
         NEW m, Go(t, m), m = Idle \/ (m.call = l.call /\ Known' = Known), LocHeld(m)'
  PROVE  Held'
  <1>1. loc'[t] = m /\ \A u \in Threads : u # t => loc'[u] = loc[u]
    BY DEF Go, Sound
  <1>2. LocOK(l) /\ LocTold(l) /\ InStep(l) /\ LocHeld(l) /\ l.id < nextId /\ l.call \in asked
    BY ThreadTold DEF Held
  <1>3. ASSUME NEW u \in Threads PROVE LocHeld(loc[u])'
    <2>1. PICK v : v = loc'[u]
      OBVIOUS
    <2>2. LocHeld(v)'
      <3>1. CASE u = t
        BY <3>1, <2>1, <1>1
      <3>2. CASE u # t
        BY <3>2, <2>1, <1>1, OthersHeld, KnownGrows
      <3> QED
        BY <3>1, <3>2
    <2> QED
      BY <2>1, <2>2
  <1>4. ASSUME NEW u \in Threads, loc'[u].pc # "idle" \/ loc'[u].call.op # "none"
        PROVE  loc'[u].call = loc[u].call /\ loc[u].pc # "idle" /\ (u = t => Known' = Known)
    <2>1. CASE u = t
      BY <1>1, <1>4, <2>1, IdleIs
    <2>2. CASE u # t
      BY <1>1, <1>4, <2>2, ThreadIs, IdleIs DEF InStep
    <2> QED
      BY <2>1, <2>2
  <1>5. Alone'
    <2> SUFFICES ASSUME NEW u \in Threads, NEW v \in Threads, u # v, loc'[u].pc # "idle", loc'[v].pc # "idle"
                 PROVE  loc'[u].call.name # loc'[v].call.name
      BY DEF Alone
    <2> QED
      BY <1>4 DEF Held, Alone
  <1>6. Deleting' = Deleting
    BY DEF Deleting
  <1>7. NotAgain'
    <2> SUFFICES ASSUME NEW u \in Threads, NEW k \in Known', loc'[u].call.op \in Creates,
                        k.name = loc'[u].call.name
                 PROVE  k.id \notin Deleting
      BY <1>6 DEF NotAgain
    <2>1. loc'[u].call = loc[u].call /\ loc[u].pc # "idle" /\ (u = t => Known' = Known)
      BY <1>4 DEF Creates
    <2>2. k \in Known
      BY <2>1 DEF Learns, Held, Alone
    <2> QED
      BY <2>1, <2>2 DEF Held, NotAgain
  <1>8. Gone'
    <2> SUFFICES ASSUME NEW k \in Known', ~Exists(k.id)', ~(k.op = "CreateSnapshot" /\ torn # {})
                 PROVE  k.id \in Deleting /\ Called(k.name)' = {}
      BY <1>6 DEF Gone
    <2>1. k \in Known
      BY DEF Learns
    <2>2. CASE ~Exists(k.id)
      <3>1. k.id \in Deleting /\ Called(k.name) = {}
        BY <2>1, <2>2 DEF Held, Gone
      <3>2. ASSUME NEW i \in Called(k.name)' PROVE FALSE
        <4>1. Exists(i)' /\ object'[i].name = k.name /\ i \in Ids
          BY <3>2 DEF Called
        <4>2. CASE Exists(i)
          <5>1. i < nextId
            BY <4>2, ObjectIs DEF Sound
          <5> QED
            BY <3>1, <4>1, <4>2, <5>1 DEF Ages, Called
        <4>3. CASE ~Exists(i)
          <5>1. l.pc \in {"create", "snap"} /\ k.name = l.call.name
            BY <4>1, <4>3 DEF Calm
          <5>2. l.call.op \in Creates
            BY <1>2, <5>1 DEF InStep, Snapping, Creates
          <5> QED
            BY <2>1, <3>1, <5>1, <5>2 DEF Held, NotAgain
        <4> QED
          BY <4>2, <4>3
      <3> QED
        BY <3>1, <3>2
    <2>3. CASE Exists(k.id)
      <3>1. /\ Exists(l.id) /\ (k.id = l.id \/ object[k.id].master = l.id)
            /\ l.pc \in {"rmvolume", "rmsnapshot"} /\ (IsSnapshot(l.id) <=> l.pc = "rmsnapshot")
            /\ \A j : Exists(j)' => Exists(j)
        BY <2>3 DEF Calm
      <3>2. k.id = l.id
        <4> SUFFICES ASSUME object[k.id].master = l.id PROVE FALSE
          BY <3>1
        <4>1. l.id # NoId /\ k.id \in Ids
          BY <2>3, <3>1, ObjectIs DEF Sound, NoId
        <4>2. IsSnapshot(k.id)
          BY <4>1 DEF IsSnapshot
        <4>3. torn = {}
          BY <2>1, <2>3, <4>2 DEF Held, KindIs
        <4>4. l.pc = "rmvolume"
          BY <2>3, <3>1, <4>1, <4>2 DEF Sound, Arrayed
        <4>5. k.id \in Snapshots(l.id)
          BY <2>3, <4>1 DEF Snapshots
        <4> QED
          BY <1>2, <3>1, <4>3, <4>4, <4>5 DEF LocHeld
      <3>3. k.id \in Deleting
        <4>1. l.id \in KnownIds
          BY <2>1, <3>2 DEF KnownIds
        <4>2. l.undo = NoError
          BY <1>2, <4>1 DEF LocHeld
        <4>3. l.call.op \in Deletes
          BY <1>2, <3>1, <4>2 DEF InStep, Undoing, Deletes
        <4>4. l.id = l.call.id
          BY <1>2, <4>3 DEF InStep, Creates, Deletes
        <4> QED
          BY <1>2, <3>2, <4>3, <4>4 DEF Deleting
      <3>4. Called(k.name) = {k.id}
        BY <2>1, <2>3, CalledIs DEF Told, Sound
      <3>5. ASSUME NEW i \in Called(k.name)' PROVE FALSE
        <4>1. Exists(i)' /\ object'[i].name = k.name /\ i \in Ids /\ Exists(i)
          BY <3>1, <3>5 DEF Called
        <4>2. i < nextId
          BY <4>1, ObjectIs DEF Sound
        <4>3. i \in Called(k.name)
          BY <4>1, <4>2 DEF Ages, Called
        <4> QED
          BY <3>4, <4>1, <4>3
      <3> QED
        BY <3>3, <3>5
    <2> QED
      BY <2>2, <2>3
  <1>9. KindIs'
    <2> SUFFICES ASSUME NEW k \in Known', Exists(k.id)', k \in Known
                 PROVE  IsSnapshot(k.id)' <=> k.op = "CreateSnapshot"
      BY DEF KindIs, Learns
    <2>1. k.id < nextId /\ k.id \in Ids
      BY KnownIs DEF Exists
    <2> QED
      BY <2>1 DEF Ages, IsSnapshot, Held, KindIs
  <1>10. OneName'
    <2>1. ASSUME NEW k \in Known, Exists(k.id)' PROVE object'[k.id].name = k.name
      <3>1. k.id < nextId /\ k.id \in Ids
        BY <2>1, KnownIs DEF Exists
      <3> QED
        BY <2>1, <3>1 DEF Ages, Told
    <2>2. \A k \in Known' : k \in Known \/ (Exists(k.id)' /\ object'[k.id].name = k.name)
      BY DEF Learns
    <2> SUFFICES ASSUME NEW k \in Known', NEW j \in Known', k.id = j.id PROVE k.name = j.name
      BY DEF OneName
    <2>3. CASE k \in Known /\ j \in Known
      BY <2>3 DEF Held, OneName
    <2>4. CASE Exists(k.id)'
      BY <2>1, <2>2, <2>4
    <2> QED
      BY <2>2, <2>3, <2>4
  <1> QED
    BY <1>3, <1>5, <1>7, <1>8, <1>9, <1>10 DEF Held

\* An idle thread holds nothing.
LEMMA IdleHeld ==
  ASSUME NEW m, m = Idle
  PROVE  LocHeld(m)'
  BY IdleIs DEF LocHeld, Copying, Removing

LEMMA ThenHeld ==
  ASSUME Sound, Told, Held, Ages, asked' = asked, torn' = torn, NEW t \in Threads, loc[t].pc # "idle",
         Calm(loc[t]), NEW m, Then(t, m), m.call = loc[t].call, LocHeld(m)'
  PROVE  Held'
  <1>1. PICK l : l = loc[t]
    OBVIOUS
  <1>2. Go(t, m) /\ answers' = answers
    BY DEF Then
  <1>3. Known' = Known
    BY <1>2 DEF Known, OkTo
  <1>4. Learns(l)
    BY <1>3 DEF Learns
  <1> QED
    BY <1>1, <1>2, <1>3, <1>4, HeldStep DEF Calm

LEMMA ReplyHeld ==
  ASSUME Sound, Told, Held, Ages, asked' = asked, torn' = torn, NEW t \in Threads, loc[t].pc # "idle",
         Calm(loc[t]), NEW status, NEW id, NEW err, Reply(t, status, id, err),
         status = "OK" /\ loc[t].call.op \in Creates =>
            /\ Exists(id)' /\ object'[id].name = loc[t].call.name
            /\ IsSnapshot(id)' <=> loc[t].call.op = "CreateSnapshot"
  PROVE  Held' /\ Learns(loc[t])
  <1>1. PICK l : l = loc[t]
    OBVIOUS
  <1>2. PICK m : m = Idle
    OBVIOUS
  <1>3. Go(t, m) /\ answers \subseteq answers' /\ LocHeld(m)'
    BY <1>2, IdleHeld DEF Reply, Go
  <1>4. Learns(l)
    <2> SUFFICES ASSUME NEW k \in Known', k \notin Known
                 PROVE  /\ k.name = l.call.name /\ k.op = l.call.op
                        /\ Exists(k.id)' /\ object'[k.id].name = k.name
                        /\ IsSnapshot(k.id)' <=> k.op = "CreateSnapshot"
      BY DEF Learns
    <2>1. /\ status = "OK" /\ l.call.op \in Creates
          /\ k = [id |-> id, name |-> l.call.name, op |-> l.call.op]
      BY <1>1, KnownAfter
    <2>2. k.id = id /\ k.name = l.call.name /\ k.op = l.call.op
      BY <2>1
    <2> QED
      BY <1>1, <2>1, <2>2
  <1>5. Held'
    BY <1>1, <1>2, <1>3, <1>4, HeldStep DEF Calm
  <1> QED
    BY <1>1, <1>4, <1>5 DEF Learns

\* What a call has made and not been answered for stays its own.
LEMMA OwnHeld ==
  ASSUME Sound, Told, Held, Ages, NEW t \in Threads, NEW l, l = loc[t], Calm(l), Known' = Known,
         l.pc \in Copying \/ l.undo # NoError
  PROVE  /\ l.id \notin KnownIds'
         /\ Exists(l.id)' => /\ Exists(l.id) /\ object'[l.id].name = l.call.name
                             /\ ~IsSnapshot(l.id)' /\ Snapshots(l.id)' = {}
  <1>1. LocOK(l) /\ LocTold(l) /\ InStep(l) /\ LocHeld(l) /\ l.id < nextId /\ l.pc # "idle"
    BY ThreadTold DEF Held, InStep, Copying, Undoing
  <1>2. l.id \notin KnownIds'
    BY <1>1 DEF LocHeld, KnownIds
  <1>3. ASSUME Exists(l.id)'
        PROVE  /\ Exists(l.id) /\ object'[l.id].name = l.call.name
               /\ ~IsSnapshot(l.id)' /\ Snapshots(l.id)' = {}
    <2>1. Exists(l.id) /\ object'[l.id].name = l.call.name /\ object'[l.id].master = object[l.id].master
      BY <1>1, <1>3 DEF Ages, Exists, LocTold
    <2>2. ~IsSnapshot(l.id) /\ Snapshots(l.id) = {}
      BY <1>1, <2>1 DEF LocHeld
    <2>3. l.pc \notin {"create", "snap"}
      BY <1>1 DEF InStep, Copying, Undoing, Snapping
    <2>4. ASSUME NEW j \in Snapshots(l.id)' PROVE FALSE
      <3>1. Exists(j)' /\ j \in Ids /\ object'[j].master = l.id
        BY <2>4 DEF Snapshots
      <3>2. Exists(j)
        BY <2>3, <3>1 DEF Calm
      <3>3. j < nextId
        BY <3>2, ObjectIs DEF Sound
      <3> QED
        BY <2>2, <3>1, <3>2, <3>3 DEF Ages, Snapshots
    <2> QED
      BY <2>1, <2>2, <2>4 DEF IsSnapshot
  <1> QED
    BY <1>2, <1>3

LEMMA UndoHeld ==
  ASSUME Sound, Told, Held, Ages, asked' = asked, torn' = torn, NEW t \in Threads, Calm(loc[t]),
         loc[t].pc \in Copying \/ loc[t].undo # NoError, NEW err, NEW rounds, Undo(t, err, rounds)
  PROVE  Held' /\ Learns(loc[t])
  <1>1. PICK l : l = loc[t]
    OBVIOUS
  <1>2. l \in LocRecs /\ l.pc # "idle"
    BY <1>1, ThreadIs DEF InStep, Copying, Undoing
  <1>3. PICK m : m = [l EXCEPT !.pc = "find", !.undo = err, !.tries = Tries, !.rounds = rounds]
    OBVIOUS
  <1>4. Then(t, m) /\ m.pc = "find" /\ m.call = l.call /\ m.id = l.id
    BY <1>1, <1>2, <1>3 DEF Undo, LocRecs
  <1>5. Known' = Known
    BY <1>4 DEF Then, Known, OkTo
  <1>6. Calm(l)
    BY <1>1 DEF Calm
  <1>7. /\ l.id \notin KnownIds'
        /\ Exists(l.id)' => ~IsSnapshot(l.id)' /\ Snapshots(l.id)' = {}
    BY <1>1, <1>5, <1>6, OwnHeld
  <1>8. LocHeld(m)'
    BY <1>4, <1>7 DEF LocHeld, Copying, Removing
  <1> QED
    BY <1>1, <1>2, <1>4, <1>5, <1>8, ThenHeld DEF Learns

LEMMA UndoNextHeld ==
  ASSUME Sound, Told, Held, Ages, asked' = asked, torn' = torn, NEW t \in Threads, Calm(loc[t]),
         loc[t].undo # NoError, NEW err \in Errs, UndoNext(t, err)
  PROVE  Held' /\ Learns(loc[t])
  <1>1. PICK l : l = loc[t]
    OBVIOUS
  <1>2. /\ l \in LocRecs /\ l.pc \in Undoing /\ l.call.op = "CreateVolume" /\ l.undo \in Raised
        /\ l.pc # "idle"
    BY <1>1, ThreadIs DEF InStep, LocRecs, Errs, Undoing
  <1>3. PICK end : end = IF err = NoError THEN l.undo ELSE err
    OBVIOUS
  <1>4. end \in Raised
    BY <1>2, <1>3 DEF Errs
  <1>5. CASE err # NoError /\ l.tries > 1
    <2>1. PICK m : m = [l EXCEPT !.pc = "find", !.tries = @ - 1]
      OBVIOUS
    <2>2. Then(t, m) /\ m.pc = "find" /\ m.call = l.call /\ m.id = l.id
      BY <1>1, <1>2, <1>5, <2>1 DEF UndoNext, LocRecs
    <2>3. Known' = Known
      BY <2>2 DEF Then, Known, OkTo
    <2>4. Calm(l)
      BY <1>1 DEF Calm
    <2>5. /\ l.id \notin KnownIds'
          /\ Exists(l.id)' => ~IsSnapshot(l.id)' /\ Snapshots(l.id)' = {}
      BY <1>1, <2>3, <2>4, OwnHeld
    <2>6. LocHeld(m)'
      BY <2>2, <2>5 DEF LocHeld, Copying, Removing
    <2> QED
      BY <1>1, <1>2, <2>2, <2>3, <2>6, ThenHeld DEF Learns
  <1>6. CASE ~(err # NoError /\ l.tries > 1) /\ l.rounds > 1
    <2>1. PICK rounds : rounds = l.rounds - 1
      OBVIOUS
    <2>2. Undo(t, end, rounds)
      BY <1>1, <1>3, <1>6, <2>1 DEF UndoNext
    <2> QED
      BY <1>1, <2>2, UndoHeld
  <1>7. CASE ~(err # NoError /\ l.tries > 1) /\ ~(l.rounds > 1)
    <2>1. PICK status : status = Status("CreateVolume", end.ex)
      OBVIOUS
    <2>2. Reply(t, status, NoId, end)
      BY <1>1, <1>3, <1>7, <2>1 DEF UndoNext
    <2>3. status # "OK"
      BY <1>4, <2>1, StatusIs, RaisedHas DEF Ops, Creates, Deletes
    <2> QED
      BY <1>1, <1>2, <2>2, <2>3, ReplyHeld
  <1> QED
    BY <1>5, <1>6, <1>7

LEMMA RaiseHeld ==
  ASSUME Sound, Told, Held, Ages, asked' = asked, torn' = torn, NEW t \in Threads, loc[t].pc # "idle",
         UNCHANGED arrayVars, NEW by, NEW ex, [by |-> by, ex |-> ex] \in Raised, Raise(t, by, ex)
  PROVE  Held' /\ Learns(loc[t]) /\ Calm(loc[t])
  <1>1. PICK l : l = loc[t]
    OBVIOUS
  <1>2. PICK err : err = [by |-> by, ex |-> ex]
    OBVIOUS
  <1>3. l.call.op \in Ops /\ Calm(loc[t])
    BY <1>1, ThreadIs, QuietIsCalm DEF InStep
  <1>4. err \in Raised /\ err \in Errs /\ err.ex = ex
    BY <1>2, RaisedHas
  <1>5. CASE l.undo # NoError
    BY <1>1, <1>2, <1>3, <1>4, <1>5, UndoNextHeld DEF Raise
  <1>6. CASE l.undo = NoError /\ l.pc \in Copying
    BY <1>1, <1>2, <1>3, <1>6, UndoHeld DEF Raise
  <1>7. CASE l.undo = NoError /\ l.pc \notin Copying
    <2>1. PICK status : status = Status(l.call.op, ex)
      OBVIOUS
    <2>2. PICK id : id = IF status = "OK" THEN l.id ELSE NoId
      OBVIOUS
    <2>3. Reply(t, status, id, err)
      BY <1>1, <1>2, <1>7, <2>1, <2>2 DEF Raise
    <2>4. status = "OK" => l.call.op \notin Creates
      BY <1>3, <1>4, <2>1, StatusIs, RaisedHas DEF Creates, Deletes
    <2> QED
      BY <1>1, <1>3, <2>3, <2>4, ReplyHeld
  <1> QED
    BY <1>3, <1>5, <1>6, <1>7

LEMMA RefuseHeld ==
  ASSUME Sound, Told, Held, Ages, asked' = asked, torn' = torn, NEW t \in Threads, loc[t].pc # "idle",
         UNCHANGED arrayVars, NEW status, status # "OK", Refuse(t, status)
  PROVE  Held' /\ Learns(loc[t]) /\ Calm(loc[t])
  BY ReplyHeld, QuietIsCalm DEF Refuse

LEMMA OkHeld ==
  ASSUME Sound, Told, Held, Ages, asked' = asked, torn' = torn, NEW t \in Threads, loc[t].pc # "idle",
         Calm(loc[t]), Ok(t), NEW l, l = loc[t],
         l.call.op \in Creates => Exists(l.id)' /\ (IsSnapshot(l.id)' <=> l.call.op = "CreateSnapshot")
  PROVE  Held' /\ Learns(loc[t])
  <1>1. PICK id : id = l.id
    OBVIOUS
  <1>2. LocOK(l) /\ LocTold(l) /\ id < nextId /\ Reply(t, "OK", id, NoError)
    BY <1>1, ThreadTold DEF Ok
  <1>3. Exists(id)' => object'[id].name = l.call.name
    BY <1>1, <1>2 DEF LocTold, Ages, Exists
  <1> QED
    BY <1>1, <1>2, <1>3, ReplyHeld

\* A step that only moves the thread to another step of its call.
LEMMA ToHeld ==
  ASSUME Sound, Told, Held, Ages, asked' = asked, torn' = torn, NEW t \in Threads, loc[t].pc # "idle",
         Calm(loc[t]), NEW pc, To(t, pc),
         \A m : m.pc = pc /\ m.call = loc[t].call /\ m.undo = loc[t].undo /\ m.id = loc[t].id => LocHeld(m)'
  PROVE  Held' /\ Learns(loc[t])
  <1>1. PICK l : l = loc[t]
    OBVIOUS
  <1>2. PICK m : m = [l EXCEPT !.pc = pc]
    OBVIOUS
  <1>3. l \in LocRecs
    BY <1>1, ThreadIs
  <1>4. m.pc = pc /\ m.call = l.call /\ m.undo = l.undo /\ m.id = l.id /\ Then(t, m)
    BY <1>1, <1>2, <1>3 DEF LocRecs, To
  <1>5. Known' = Known
    BY <1>4 DEF Then, Known, OkTo
  <1> QED
    BY <1>1, <1>4, <1>5, ThenHeld DEF Learns

LEMMA AddedIsCalm ==
  ASSUME NEW l, NEW n, Added(n), object'[n].name = l.call.name, l.pc \in {"create", "snap"},
         object'[n].master # NoId => l.pc = "snap" /\ object'[n].master = l.call.source
  PROVE  Calm(l)
  <1>1. \A i \in Ids : i # n => object'[i] = object[i] /\ Exists(i)' = Exists(i)
    BY DEF Added
  <1>2. \A i : Exists(i) => Exists(i)'
    BY <1>1 DEF Added, Exists
  <1> QED
    BY <1>1, <1>2 DEF Calm, Added

LEMMA TouchedIsCalm ==
  ASSUME NEW l, Touched(l.id), l.pc \in {"format", "copy", "resize", "xresize"},
         l.pc = "xresize" => /\ object'[l.id].blocks >= object[l.id].blocks
                             /\ object'[l.id].copied = object[l.id].copied
                             /\ object'[l.id].data = object[l.id].data
  PROVE  Calm(l)
  BY DEF Touched, Calm

LEMMA RemovedIsCalm ==
  ASSUME NEW l, Exists(l.id), l.pc \in {"rmvolume", "rmsnapshot"}, IsSnapshot(l.id) <=> l.pc = "rmsnapshot",
         \A j : Exists(j)' <=> Exists(j) /\ j # l.id /\ object[j].master # l.id,
         \A j : Exists(j)' => object'[j] = object[j]
  PROVE  Calm(l)
  BY DEF Calm

LEMMA QuietHeld ==
  ASSUME Sound, UNCHANGED arrayVars, answers' = answers, torn' = torn
  PROVE  /\ Known' = Known /\ KnownIds' = KnownIds
         /\ \A i : /\ Exists(i)' = Exists(i) /\ IsSnapshot(i)' = IsSnapshot(i)
                   /\ Snapshots(i)' = Snapshots(i) /\ Called(i)' = Called(i)
         /\ \A l : LocHeld(l)' = LocHeld(l)
  <1>1. object' = object
    BY DEF arrayVars
  <1>2. Known' = Known
    BY DEF Known, OkTo
  <1>3. \A i : Exists(i)' = Exists(i) /\ IsSnapshot(i)' = IsSnapshot(i)
    BY <1>1 DEF Exists, IsSnapshot
  <1>4. \A i : Snapshots(i)' = Snapshots(i) /\ Called(i)' = Called(i)
    BY <1>1, <1>3 DEF Snapshots, Called
  <1>5. KnownIds' = KnownIds
    BY <1>2 DEF KnownIds
  <1> QED
    BY <1>2, <1>3, <1>4, <1>5 DEF LocHeld, Lost

\* The object that has the name a call has looked up for its source.
LEMMA SourceIs ==
  ASSUME Sound, Told, Held, NEW l \in LocRecs, LocTold(l), l.pc \in {"snap", "format", "copy"},
         NEW s \in Called(l.from)
  PROVE  Exists(s) /\ (s = l.call.source \/ (l.pc # "snap" /\ Misled(l.call)))
  <1>1. PICK k \in Known : /\ k.id = l.call.source /\ k.name = l.from
                           /\ k.op = IF l.pc = "snap" \/ l.call.kind = "volume"
                                     THEN "CreateVolume" ELSE "CreateSnapshot"
    BY DEF LocTold
  <1>2. Exists(s) /\ Called(l.from) = {s}
    BY CalledIs DEF Sound
  <1>3. CASE Exists(l.call.source)
    <2>1. l.call.source \in Called(l.from)
      BY <1>1, <1>3, CalledIs DEF Told, Sound
    <2> QED
      BY <1>2, <2>1
  <1>4. CASE ~Exists(l.call.source)
    <2>1. k.op = "CreateSnapshot" /\ torn # {}
      BY <1>1, <1>4 DEF Held, Gone
    <2>2. l.pc # "snap" /\ l.call.kind # "volume"
      BY <1>1, <2>1
    <2>3. l.call.kind = "snapshot"
      BY <2>2 DEF LocRecs, CallRecs
    <2> QED
      BY <1>2, <2>1, <2>2, <2>3 DEF Misled
  <1> QED
    BY <1>3, <1>4

\* The object that has the name of a call that copies or resizes.
LEMMA TargetIs ==
  ASSUME Sound, Told, NEW t \in Threads, NEW l, l = loc[t], l.pc # "idle", Exists(l.id), NEW i,
         i \in Called(l.call.name)
  PROVE  i = l.id
  <1>1. l.id \in Called(l.call.name)
    BY CalledIs DEF Told, LocTold, Sound
  <1> QED
    BY <1>1, CalledIs DEF Sound

LEMMA LookupHeld ==
  ASSUME Sound, Told, Held, NEW t \in Threads, Lookup(t)
  PROVE  Held' /\ Learns(loc[t]) /\ Calm(loc[t])
  <1>1. PICK l : l = loc[t]
    OBVIOUS
  <1>2. l.pc = "lookup" /\ l.call.op = "CreateVolume" /\ l.undo = NoError
    BY <1>1, ThreadTold DEF Lookup, InStep
  <1>3. asked' = asked /\ torn' = torn /\ object' = object /\ Ages /\ UNCHANGED arrayVars /\ Calm(loc[t])
    BY ReadOnlyIs, QuietIsCalm DEF Lookup, ReadOnly
  <1>4. CASE Refuse(t, "OUT_OF_RANGE") \/ Refuse(t, "ALREADY_EXISTS")
    BY <1>1, <1>2, <1>3, <1>4, RefuseHeld
  <1>5. CASE To(t, "create") /\ Called(l.call.name) = {}
    <2>1. Called(l.call.name)' = {}
      BY <1>3, <1>5, QuietHeld DEF To, Then
    <2>2. ASSUME NEW m, m.pc = "create", m.call = l.call, m.undo = l.undo, m.id = l.id PROVE LocHeld(m)'
      BY <1>2, <2>1, <2>2 DEF LocHeld, Removing, Copying
    <2> QED
      BY <1>1, <1>2, <1>3, <1>5, <2>2, ToHeld
  <1>6. CASE Raise(t, "get_volume", "VolumeNameBelongsToSnapshotError")
    BY <1>1, <1>2, <1>3, <1>6, RaiseHeld, RaisedIs
  <1>7. ASSUME NEW i \in Called(l.call.name), ~IsSnapshot(i), Reply(t, "OK", i, NoError)
        PROVE  Held' /\ Learns(loc[t])
    <2>1. Exists(i)' /\ object'[i].name = l.call.name /\ ~IsSnapshot(i)'
      BY <1>3, <1>7 DEF Called, Exists, IsSnapshot
    <2> QED
      BY <1>1, <1>2, <1>3, <1>7, <2>1, ReplyHeld
  <1> QED
    BY <1>1, <1>3, <1>4, <1>5, <1>6, <1>7 DEF Lookup

LEMMA CreateHeld ==
  ASSUME Sound, Told, Held, NEW t \in Threads, Create(t)
  PROVE  Held' /\ Learns(loc[t]) /\ Calm(loc[t])
  <1>1. PICK l : l = loc[t]
    OBVIOUS
  <1>2. /\ l \in LocRecs /\ l.pc = "create" /\ l.call.op = "CreateVolume" /\ l.undo = NoError
        /\ l.call.name \in Names /\ l.call.size \in Nat
    BY <1>1, ThreadTold, ThreadIs DEF Create, InStep
  <1>3. asked' = asked /\ torn' = torn
    BY DEF Create, bounds
  <1>4. CASE UNCHANGED arrayVars /\ Raise(t, "create_volume", "VolumeAlreadyExists")
    BY <1>1, <1>2, <1>3, <1>4, NothingChanges, RaiseHeld, RaisedIs DEF Sound
  <1>5. CASE /\ Called(l.call.name) = {} /\ VolCreate(l.call.name, ToBlocks(Required(l.call)))
             /\ IF l.call.source = NoId THEN Reply(t, "OK", nextId, NoError)
                ELSE Then(t, [l EXCEPT !.pc = "findSource", !.id = nextId])
    <2>1. PICK blocks : blocks = ToBlocks(Required(l.call))
      OBVIOUS
    <2>2. blocks \in Nat
      BY <1>2, <2>1, ProvisioningAssumption DEF ToBlocks, Required
    <2>3. PICK n, name : n = nextId /\ name = l.call.name
      OBVIOUS
    <2>4. Arrayed' /\ Ages /\ Added(n) /\ object'[n].name = l.call.name /\ object'[n].master = NoId
      BY <1>2, <1>5, <2>1, <2>2, <2>3, CreateDoes DEF Sound
    <2>5. Calm(l) /\ Calm(loc[t])
      BY <1>1, <1>2, <2>4, AddedIsCalm
    <2>6. Exists(n)' /\ ~IsSnapshot(n)'
      BY <2>4 DEF Added, IsSnapshot
    <2>7. CASE l.call.source = NoId
      BY <1>1, <1>2, <1>3, <1>5, <2>3, <2>4, <2>5, <2>6, <2>7, ReplyHeld
    <2>8. CASE l.call.source # NoId
      <3>1. PICK m : m = [l EXCEPT !.pc = "findSource", !.id = n]
        OBVIOUS
      <3>2. m.pc = "findSource" /\ m.call = l.call /\ m.undo = l.undo /\ m.id = n /\ Then(t, m)
        BY <1>2, <1>5, <2>3, <2>8, <3>1 DEF LocRecs
      <3>3. Known' = Known
        BY <3>2 DEF Then, Known, OkTo
      <3>4. n \notin KnownIds'
        BY <2>3, <3>3, KnownIs DEF KnownIds, Sound, Arrayed
      <3>5. ASSUME NEW j \in Snapshots(n)' PROVE FALSE
        <4>1. Exists(j)' /\ object'[j].master = n /\ j \in Ids /\ n # NoId
          BY <2>4, <3>5 DEF Snapshots, Added, NoId
        <4>2. j # n
          BY <2>4, <4>1
        <4>3. Exists(j) /\ object[j].master = n
          BY <2>4, <4>1, <4>2 DEF Added
        <4>4. IsSnapshot(j)
          BY <4>1, <4>3 DEF IsSnapshot
        <4>5. PICK k \in Ids : k = object[j].master /\ Exists(k)
          BY <4>1, <4>3, <4>4 DEF Sound, Arrayed
        <4> QED
          BY <2>4, <4>3, <4>5 DEF Added
      <3>6. LocHeld(m)'
        BY <1>2, <2>6, <3>2, <3>4, <3>5 DEF LocHeld, Removing, Copying
      <3> QED
        BY <1>1, <1>2, <1>3, <2>4, <2>5, <3>2, <3>3, <3>6, ThenHeld DEF Learns
    <2> QED
      BY <2>5, <2>7, <2>8
  <1> QED
    BY <1>1, <1>4, <1>5 DEF Create

LEMMA FindSourceHeld ==
  ASSUME Sound, Told, Held, NEW t \in Threads, FindSource(t)
  PROVE  Held' /\ Learns(loc[t]) /\ Calm(loc[t])
  <1>1. PICK l : l = loc[t]
    OBVIOUS
  <1>2. l \in LocRecs /\ l.pc = "findSource" /\ l.undo = NoError /\ LocHeld(l)
    BY <1>1, ThreadTold DEF FindSource, InStep, Copying, Held
  <1>3. asked' = asked /\ torn' = torn /\ Ages /\ UNCHANGED arrayVars /\ Calm(loc[t])
    BY ReadOnlyIs, QuietIsCalm DEF FindSource, ReadOnly
  <1>4. PICK err : err = [by |-> "get_object_by_id", ex |-> "ObjectNotFoundError"]
    OBVIOUS
  <1>5. CASE Undo(t, err, 2)
    BY <1>1, <1>2, <1>3, <1>5, UndoHeld DEF Copying
  <1>6. CASE Raise(t, "get_object_by_id", "ExpectedSnapshotButFoundVolumeError")
    BY <1>1, <1>2, <1>3, <1>6, RaiseHeld, RaisedIs
  <1>7. ASSUME NEW pc \in {"fmaster", "names"}, NEW from, NEW blocks,
               Then(t, [l EXCEPT !.pc = pc, !.from = from, !.blocks = blocks])
        PROVE  Held' /\ Learns(loc[t])
    <2>1. PICK m : m = [l EXCEPT !.pc = pc, !.from = from, !.blocks = blocks]
      OBVIOUS
    <2>2. m.pc = pc /\ m.call = l.call /\ m.undo = l.undo /\ m.id = l.id /\ Then(t, m)
      BY <1>2, <1>7, <2>1 DEF LocRecs
    <2>3. LocHeld(m)
      BY <1>2, <2>2 DEF LocHeld, Removing, Copying
    <2>4. LocHeld(m)' /\ Known' = Known
      BY <1>3, <2>2, <2>3, QuietHeld DEF Then
    <2> QED
      BY <1>1, <1>2, <1>3, <2>2, <2>4, ThenHeld DEF Learns
  <1> QED
    BY <1>1, <1>3, <1>4, <1>5, <1>6, <1>7 DEF FindSource

LEMMA FindMasterHeld ==
  ASSUME Sound, Told, Held, NEW t \in Threads, FindMaster(t)
  PROVE  Held' /\ Learns(loc[t]) /\ Calm(loc[t])
  <1>1. PICK l : l = loc[t]
    OBVIOUS
  <1>2. /\ l.pc \in {"fmaster", "smaster", "cmaster"} /\ l.undo = NoError /\ LocHeld(l) /\ LocTold(l)
        /\ l.pc \in {"smaster", "cmaster"} => l.call.op = "CreateSnapshot"
    BY <1>1, ThreadTold DEF FindMaster, InStep, Copying, Snapping, Held
  <1>3. /\ asked' = asked /\ torn' = torn /\ Ages /\ UNCHANGED arrayVars /\ Calm(loc[t]) /\ object' = object
        /\ \A i : Exists(i)' = Exists(i)
    BY ReadOnlyIs, QuietIsCalm DEF FindMaster, ReadOnly
  <1>4. ASSUME NEW by \in {"get_object_by_id", "get_snapshot", "create_snapshot"},
               Raise(t, by, "AttributeError")
        PROVE  Held' /\ Learns(loc[t])
    BY <1>1, <1>2, <1>3, <1>4, RaiseHeld, RaisedIs
  <1>5. CASE To(t, "names") /\ l.pc = "fmaster"
    <2>1. ASSUME NEW m, m.pc = "names", m.call = l.call, m.undo = l.undo, m.id = l.id PROVE LocHeld(m)'
      <3>1. LocHeld(m)
        BY <1>2, <1>5, <2>1 DEF LocHeld, Removing, Copying
      <3> QED
        BY <1>3, <1>5, <3>1, QuietHeld DEF To, Then
    <2> QED
      BY <1>1, <1>2, <1>3, <1>5, <2>1, ToHeld
  <1>6. CASE Ok(t) /\ l.pc \in {"smaster", "cmaster"} /\ Exists(l.id)
    <2>1. IsSnapshot(l.id)' /\ Exists(l.id)'
      BY <1>2, <1>3, <1>6 DEF LocTold, IsSnapshot
    <2> QED
      BY <1>1, <1>2, <1>3, <1>6, <2>1, OkHeld
  <1>7. CASE Refuse(t, "ALREADY_EXISTS")
    BY <1>1, <1>2, <1>3, <1>7, RefuseHeld
  <1>8. l.pc \in {"smaster", "cmaster"} /\ Called(l.from) # {} => Exists(l.id)
    BY <1>2 DEF LocHeld, Lost, Held, Gone
  <1>9. CASE l.pc = "fmaster"
    BY <1>1, <1>3, <1>4, <1>5, <1>9 DEF FindMaster
  <1>10. CASE l.pc = "smaster"
    BY <1>1, <1>3, <1>4, <1>6, <1>7, <1>10, <1>8 DEF FindMaster
  <1>11. CASE l.pc = "cmaster"
    BY <1>1, <1>3, <1>4, <1>6, <1>11, <1>8 DEF FindMaster
  <1> QED
    BY <1>2, <1>9, <1>10, <1>11

LEMMA FindNamesHeld ==
  ASSUME Sound, Told, Held, NEW t \in Threads, FindNames(t)
  PROVE  Held' /\ Learns(loc[t]) /\ Calm(loc[t])
  <1>1. PICK l : l = loc[t]
    OBVIOUS
  <1>2. l \in LocRecs /\ l.pc = "names" /\ l.undo = NoError /\ LocHeld(l)
    BY <1>1, ThreadTold DEF FindNames, InStep, Copying, Held
  <1>3. asked' = asked /\ torn' = torn /\ Ages /\ UNCHANGED arrayVars /\ Calm(loc[t])
    BY ReadOnlyIs, QuietIsCalm DEF FindNames, ReadOnly
  <1>4. CASE Raise(t, "copy_to_existing_volume_from_source", "ObjectNotFoundError")
    BY <1>1, <1>2, <1>3, <1>4, RaiseHeld, RaisedIs
  <1>5. ASSUME NEW name, Then(t, [l EXCEPT !.pc = "format", !.from = name])
        PROVE  Held' /\ Learns(loc[t])
    <2>1. PICK m : m = [l EXCEPT !.pc = "format", !.from = name]
      OBVIOUS
    <2>2. m.pc = "format" /\ m.call = l.call /\ m.undo = l.undo /\ m.id = l.id /\ Then(t, m)
      BY <1>2, <1>5, <2>1 DEF LocRecs
    <2>3. LocHeld(m)
      BY <1>2, <2>2 DEF LocHeld, Removing, Copying
    <2>4. LocHeld(m)' /\ Known' = Known
      BY <1>3, <2>2, <2>3, QuietHeld DEF Then
    <2> QED
      BY <1>1, <1>2, <1>3, <2>2, <2>4, ThenHeld DEF Learns
  <1> QED
    BY <1>1, <1>3, <1>4, <1>5 DEF FindNames

\* A command on the volume that a call has made.
LEMMA FormatHeld ==
  ASSUME Sound, Told, Held, NEW t \in Threads, Format(t)
  PROVE  Held' /\ Learns(loc[t]) /\ Calm(loc[t])
  <1>1. PICK l : l = loc[t]
    OBVIOUS
  <1>2. l \in LocRecs /\ l.pc = "format" /\ l.undo = NoError /\ LocHeld(l) /\ Exists(l.id)
    BY <1>1, ThreadTold DEF Format, InStep, Copying, Held, LocHeld
  <1>3. asked' = asked /\ torn' = torn
    BY DEF Format, bounds
  <1>4. CASE UNCHANGED arrayVars /\ Raise(t, "copy_to_existing_volume_from_source", "ObjectNotFoundError")
    BY <1>1, <1>2, <1>3, <1>4, NothingChanges, RaiseHeld, RaisedIs DEF Sound
  <1>5. ASSUME NEW i \in Called(l.call.name), VolFormat(i), To(t, "copy")
        PROVE  Held' /\ Learns(loc[t]) /\ Calm(loc[t])
    <2>1. i = l.id
      BY <1>1, <1>2, <1>5, TargetIs
    <2>2. Ages /\ Touched(l.id)
      BY <1>2, <1>5, <2>1, FormatDoes DEF Sound
    <2>3. Calm(l) /\ Calm(loc[t])
      BY <1>1, <1>2, <2>2, TouchedIsCalm
    <2>4. Known' = Known
      BY <1>5 DEF To, Then, Known, OkTo
    <2>5. l.pc \in Copying
      BY <1>2 DEF Copying
    <2>6. /\ Exists(l.id)' /\ l.id \notin KnownIds' /\ ~IsSnapshot(l.id)' /\ Snapshots(l.id)' = {}
      BY <1>1, <1>2, <2>2, <2>3, <2>4, <2>5, OwnHeld DEF Touched
    <2>7. ASSUME NEW m, m.pc = "copy", m.call = l.call, m.undo = l.undo, m.id = l.id PROVE LocHeld(m)'
      BY <1>2, <2>6, <2>7 DEF LocHeld, Removing, Copying
    <2> QED
      BY <1>1, <1>2, <1>3, <1>5, <2>2, <2>3, <2>7, ToHeld
  <1> QED
    BY <1>1, <1>4, <1>5 DEF Format

LEMMA CopyHeld ==
  ASSUME Sound, Told, Held, NEW t \in Threads, Copy(t)
  PROVE  Held' /\ Learns(loc[t]) /\ Calm(loc[t])
  <1>1. PICK l : l = loc[t]
    OBVIOUS
  <1>2. /\ l \in LocRecs /\ l.pc = "copy" /\ l.undo = NoError /\ LocHeld(l) /\ Exists(l.id)
        /\ l.call.op = "CreateVolume"
    BY <1>1, ThreadTold DEF Copy, InStep, Copying, Held, LocHeld
  <1>3. asked' = asked /\ torn' = torn
    BY DEF Copy, bounds
  <1>4. CASE UNCHANGED arrayVars /\ Raise(t, "copy_to_existing_volume_from_source", "ObjectNotFoundError")
    BY <1>1, <1>2, <1>3, <1>4, NothingChanges, RaiseHeld, RaisedIs DEF Sound
  <1>5. ASSUME NEW s \in Called(l.from), NEW i \in Called(l.call.name), VolCopy(s, i),
               To(t, "resize") \/ Ok(t)
        PROVE  Held' /\ Learns(loc[t]) /\ Calm(loc[t])
    <2>1. i = l.id /\ Exists(s)
      BY <1>1, <1>2, <1>5, TargetIs, CalledIs DEF Sound
    <2>2. Ages /\ Touched(l.id)
      BY <1>2, <1>5, <2>1, CopyDoes DEF Sound
    <2>3. Calm(l) /\ Calm(loc[t])
      BY <1>1, <1>2, <2>2, TouchedIsCalm
    <2>4. ~IsSnapshot(l.id)' /\ Exists(l.id)'
      BY <1>2, <2>2 DEF Touched, LocHeld, Copying, IsSnapshot, Exists
    <2>5. CASE Ok(t)
      BY <1>1, <1>2, <1>3, <2>2, <2>3, <2>4, <2>5, OkHeld
    <2>6. CASE To(t, "resize")
      <3>1. Known' = Known
        BY <2>6 DEF To, Then, Known, OkTo
      <3>2. l.pc \in Copying
        BY <1>2 DEF Copying
      <3>3. l.id \notin KnownIds' /\ Snapshots(l.id)' = {}
        BY <1>1, <1>2, <2>2, <2>3, <2>4, <3>1, <3>2, OwnHeld
      <3>4. ASSUME NEW m, m.pc = "resize", m.call = l.call, m.undo = l.undo, m.id = l.id PROVE LocHeld(m)'
        BY <1>2, <2>4, <3>3, <3>4 DEF LocHeld, Removing, Copying
      <3> QED
        BY <1>1, <1>2, <1>3, <2>2, <2>3, <2>6, <3>4, ToHeld
    <2> QED
      BY <1>5, <2>5, <2>6
  <1> QED
    BY <1>1, <1>4, <1>5 DEF Copy

LEMMA ResizeHeld ==
  ASSUME Sound, Told, Held, NEW t \in Threads, Resize(t)
  PROVE  Held' /\ Learns(loc[t]) /\ Calm(loc[t])
  <1>1. PICK l : l = loc[t]
    OBVIOUS
  <1>2. /\ l \in LocRecs /\ l.pc = "resize" /\ l.undo = NoError /\ LocHeld(l) /\ Exists(l.id)
        /\ l.call.op = "CreateVolume" /\ l.call.size \in Nat
    BY <1>1, ThreadTold DEF Resize, InStep, Copying, Held, LocHeld, LocRecs, CallRecs
  <1>3. asked' = asked /\ torn' = torn
    BY DEF Resize, bounds
  <1>4. CASE /\ UNCHANGED arrayVars
             /\ \/ Raise(t, "copy_to_existing_volume_from_source", "ObjectNotFoundError")
                \/ Raise(t, "copy_to_existing_volume_from_source", "XCLIError")
    BY <1>1, <1>2, <1>3, <1>4, NothingChanges, RaiseHeld, RaisedIs DEF Sound
  <1>5. PICK blocks : blocks = ToBlocks(Required(l.call))
    OBVIOUS
  <1>6. blocks \in Nat
    BY <1>2, <1>5, ProvisioningAssumption DEF ToBlocks, Required
  <1>7. ASSUME NEW i \in Called(l.call.name), VolResize(i, blocks), Ok(t)
        PROVE  Held' /\ Learns(loc[t]) /\ Calm(loc[t])
    <2>1. i = l.id
      BY <1>1, <1>2, <1>7, TargetIs
    <2>2. Ages /\ Touched(l.id)
      BY <1>2, <1>6, <1>7, <2>1, ResizeDoes DEF Sound
    <2>3. Calm(l) /\ Calm(loc[t])
      BY <1>1, <1>2, <2>2, TouchedIsCalm
    <2>4. ~IsSnapshot(l.id)' /\ Exists(l.id)'
      BY <1>2, <2>2 DEF Touched, LocHeld, Copying, IsSnapshot, Exists
    <2> QED
      BY <1>1, <1>2, <1>3, <1>7, <2>2, <2>3, <2>4, OkHeld
  <1> QED
    BY <1>1, <1>4, <1>5, <1>7 DEF Resize

LEMMA SnapshotLookupHeld ==
  ASSUME Sound, Told, Held, NEW t \in Threads, SnapshotLookup(t)
  PROVE  Held' /\ Learns(loc[t]) /\ Calm(loc[t])
  <1>1. PICK l : l = loc[t]
    OBVIOUS
  <1>2. l \in LocRecs /\ l.pc = "slook" /\ l.call.op = "CreateSnapshot" /\ l.undo = NoError
    BY <1>1, ThreadTold DEF SnapshotLookup, InStep, Snapping
  <1>3. asked' = asked /\ torn' = torn /\ object' = object /\ Ages /\ UNCHANGED arrayVars /\ Calm(loc[t])
    BY ReadOnlyIs, QuietIsCalm DEF SnapshotLookup, ReadOnly
  <1>4. CASE Refuse(t, "ALREADY_EXISTS")
    BY <1>1, <1>2, <1>3, <1>4, RefuseHeld
  <1>5. CASE To(t, "ssource")
    <2>1. ASSUME NEW m, m.pc = "ssource", m.undo = l.undo PROVE LocHeld(m)'
      BY <1>2, <2>1 DEF LocHeld, Removing, Copying
    <2> QED
      BY <1>1, <1>2, <1>3, <1>5, <2>1, ToHeld
  <1>6. CASE Raise(t, "get_snapshot", "ExpectedSnapshotButFoundVolumeError")
    BY <1>1, <1>2, <1>3, <1>6, RaiseHeld, RaisedIs
  <1>7. ASSUME NEW i \in Called(l.call.name), NEW from,
               Then(t, [l EXCEPT !.pc = "smaster", !.id = i, !.from = from])
        PROVE  Held' /\ Learns(loc[t])
    <2>1. PICK m : m = [l EXCEPT !.pc = "smaster", !.id = i, !.from = from]
      OBVIOUS
    <2>2. m.pc = "smaster" /\ m.call = l.call /\ m.undo = l.undo /\ m.id = i /\ Then(t, m)
      BY <1>2, <1>7, <2>1 DEF LocRecs
    <2>3. Exists(m.id)'
      BY <1>3, <2>2 DEF Called, Exists
    <2>4. LocHeld(m)'
      BY <1>2, <2>2, <2>3 DEF LocHeld, Removing, Copying
    <2>5. Known' = Known
      BY <2>2 DEF Then, Known, OkTo
    <2> QED
      BY <1>1, <1>2, <1>3, <2>2, <2>4, <2>5, ThenHeld DEF Learns
  <1>8. ASSUME NEW i \in Called(l.call.name), IsSnapshot(i), Reply(t, "OK", i, NoError)
        PROVE  Held' /\ Learns(loc[t])
    <2>1. Exists(i)' /\ object'[i].name = l.call.name /\ IsSnapshot(i)'
      BY <1>3, <1>8 DEF Called, Exists, IsSnapshot
    <2> QED
      BY <1>1, <1>2, <1>3, <1>8, <2>1, ReplyHeld
  <1> QED
    BY <1>1, <1>3, <1>4, <1>5, <1>6, <1>7, <1>8 DEF SnapshotLookup

LEMMA SnapshotSourceHeld ==
  ASSUME Sound, Told, Held, NEW t \in Threads, SnapshotSource(t)
  PROVE  Held' /\ Learns(loc[t]) /\ Calm(loc[t])
  <1>1. PICK l : l = loc[t]
    OBVIOUS
  <1>2. l \in LocRecs /\ l.pc = "ssource" /\ l.call.op = "CreateSnapshot" /\ l.undo = NoError
    BY <1>1, ThreadTold DEF SnapshotSource, InStep, Snapping
  <1>3. asked' = asked /\ torn' = torn /\ Ages /\ UNCHANGED arrayVars /\ Calm(loc[t])
    BY ReadOnlyIs, QuietIsCalm DEF SnapshotSource, ReadOnly
  <1>4. CASE Raise(t, "create_snapshot", "AttributeError")
    BY <1>1, <1>2, <1>3, <1>4, RaiseHeld, RaisedIs
  <1>5. ASSUME NEW n, Then(t, [l EXCEPT !.pc = "snap", !.from = n]) PROVE Held' /\ Learns(loc[t])
    <2>1. PICK m : m = [l EXCEPT !.pc = "snap", !.from = n]
      OBVIOUS
    <2>2. m.pc = "snap" /\ m.call = l.call /\ m.undo = l.undo /\ Then(t, m)
      BY <1>2, <1>5, <2>1 DEF LocRecs
    <2>3. LocHeld(m)'
      BY <1>2, <2>2 DEF LocHeld, Removing, Copying
    <2>4. Known' = Known
      BY <2>2 DEF Then, Known, OkTo
    <2> QED
      BY <1>1, <1>2, <1>3, <2>2, <2>3, <2>4, ThenHeld DEF Learns
  <1> QED
    BY <1>1, <1>3, <1>4, <1>5 DEF SnapshotSource

LEMMA SnapHeld ==
  ASSUME Sound, Told, Held, NEW t \in Threads, Snap(t)
  PROVE  Held' /\ Learns(loc[t]) /\ Calm(loc[t])
  <1>1. PICK l : l = loc[t]
    OBVIOUS
  <1>2. /\ l \in LocRecs /\ LocTold(l) /\ l.pc = "snap" /\ l.call.op = "CreateSnapshot" /\ l.undo = NoError
        /\ l.call.name \in Names
    BY <1>1, ThreadTold DEF Snap, InStep, Snapping, LocRecs, CallRecs
  <1>3. asked' = asked /\ torn' = torn
    BY DEF Snap, bounds
  <1>4. CASE /\ UNCHANGED arrayVars
             /\ \E ex \in {"SnapshotAlreadyExists", "ObjectNotFoundError", "XCLIError"} :
                   Raise(t, "create_snapshot", ex)
    BY <1>1, <1>2, <1>3, <1>4, NothingChanges, RaiseHeld, RaisedIs DEF Sound
  <1>5. ASSUME Called(l.call.name) = {}, NEW s \in Called(l.from), ~IsSnapshot(s),
               SnapshotCreate(l.call.name, s),
               IF gen3 THEN Then(t, [l EXCEPT !.pc = "cmaster", !.id = nextId])
                       ELSE Reply(t, "OK", nextId, NoError)
        PROVE  Held' /\ Learns(loc[t]) /\ Calm(loc[t])
    <2>1. Exists(s) /\ s = l.call.source
      BY <1>2, <1>5, SourceIs
    <2>2. PICK n, name : n = nextId /\ name = l.call.name
      OBVIOUS
    <2>3. name \in Names /\ Called(name) = {} /\ SnapshotCreate(name, s)
      BY <1>2, <1>5, <2>2
    <2>4. Ages /\ Added(n) /\ object'[n].name = name /\ object'[n].master = s
      BY <1>5, <2>1, <2>2, <2>3, SnapshotDoes DEF Sound
    <2>5. Calm(l) /\ Calm(loc[t])
      BY <1>1, <1>2, <2>1, <2>2, <2>4, AddedIsCalm
    <2>6. Exists(n)' /\ IsSnapshot(n)'
      BY <2>1, <2>4, ObjectIs DEF Added, IsSnapshot, Sound, NoId
    <2>7. CASE ~gen3
      BY <1>1, <1>2, <1>3, <1>5, <2>2, <2>4, <2>5, <2>6, <2>7, ReplyHeld
    <2>8. CASE gen3
      <3>1. PICK m : m = [l EXCEPT !.pc = "cmaster", !.id = n]
        OBVIOUS
      <3>2. m.pc = "cmaster" /\ m.call = l.call /\ m.undo = l.undo /\ m.id = n /\ Then(t, m)
        BY <1>2, <1>5, <2>2, <2>8, <3>1 DEF LocRecs
      <3>3. LocHeld(m)'
        BY <1>2, <2>6, <3>2 DEF LocHeld, Removing, Copying
      <3>4. Known' = Known
        BY <3>2 DEF Then, Known, OkTo
      <3> QED
        BY <1>1, <1>2, <1>3, <2>4, <2>5, <3>2, <3>3, <3>4, ThenHeld DEF Learns
    <2> QED
      BY <2>5, <2>7, <2>8
  <1> QED
    BY <1>1, <1>4, <1>5 DEF Snap

LEMMA FindObjectHeld ==
  ASSUME Sound, Told, Held, NEW t \in Threads, FindObject(t)
  PROVE  Held' /\ Learns(loc[t]) /\ Calm(loc[t])
  <1>1. PICK l : l = loc[t]
    OBVIOUS
  <1>2. l \in LocRecs /\ l.pc = "find" /\ LocHeld(l)
    BY <1>1, ThreadTold DEF FindObject, Held
  <1>3. asked' = asked /\ torn' = torn /\ Ages /\ UNCHANGED arrayVars /\ Calm(loc[t])
    BY ReadOnlyIs, QuietIsCalm DEF FindObject, ReadOnly
  <1>4. CASE Raise(t, Deleter(t), "ObjectNotFoundError")
    BY <1>1, <1>2, <1>3, <1>4, RaiseHeld, RaisedIs DEF Deleter
  <1>5. ASSUME Exists(l.id), NEW n, NEW pc \in {"rmsnapshot", "snapshots"},
               Then(t, [l EXCEPT !.from = n, !.pc = pc])
        PROVE  Held' /\ Learns(loc[t])
    <2>1. PICK m : m = [l EXCEPT !.from = n, !.pc = pc]
      OBVIOUS
    <2>2. m.pc = pc /\ m.call = l.call /\ m.undo = l.undo /\ m.id = l.id /\ Then(t, m)
      BY <1>2, <1>5, <2>1 DEF LocRecs
    <2>3. LocHeld(m)
      BY <1>2, <1>5, <2>2 DEF LocHeld, Removing, Copying
    <2>4. LocHeld(m)' /\ Known' = Known
      BY <1>3, <2>2, <2>3, QuietHeld DEF Then
    <2> QED
      BY <1>1, <1>2, <1>3, <2>2, <2>4, ThenHeld DEF Learns
  <1> QED
    BY <1>1, <1>3, <1>4, <1>5 DEF FindObject

LEMMA ListSnapshotsHeld ==
  ASSUME Sound, Told, Held, NEW t \in Threads, ListSnapshots(t)
  PROVE  Held' /\ Learns(loc[t]) /\ Calm(loc[t])
  <1>1. PICK l : l = loc[t]
    OBVIOUS
  <1>2. l \in LocRecs /\ LocTold(l) /\ l.pc = "snapshots" /\ LocHeld(l) /\ l.from = l.call.name
    BY <1>1, ThreadTold DEF ListSnapshots, Held, LocTold, Removing
  <1>3. asked' = asked /\ torn' = torn /\ Ages /\ UNCHANGED arrayVars /\ Calm(loc[t])
    BY ReadOnlyIs, QuietIsCalm DEF ListSnapshots, ReadOnly
  <1>4. CASE Raise(t, "delete_volume", "XCLIError") \/ Raise(t, "delete_volume", "ObjectIsStillInUseError")
    BY <1>1, <1>2, <1>3, <1>4, RaiseHeld, RaisedIs
  <1>5. CASE (\A i \in Called(l.from) : Snapshots(i) = {}) /\ To(t, "rmvolume")
    <2>1. Exists(l.id) => Snapshots(l.id) = {}
      BY <1>2, <1>5, CalledIs DEF Sound, LocTold
    <2>2. ASSUME NEW m, m.pc = "rmvolume", m.call = l.call, m.undo = l.undo, m.id = l.id PROVE LocHeld(m)'
      <3>1. LocHeld(m)
        BY <1>2, <2>1, <2>2 DEF LocHeld, Removing, Copying
      <3> QED
        BY <1>3, <1>5, <3>1, QuietHeld DEF To, Then
    <2> QED
      BY <1>1, <1>2, <1>3, <1>5, <2>2, ToHeld
  <1> QED
    BY <1>1, <1>3, <1>4, <1>5 DEF ListSnapshots

LEMMA RemoveObjectHeld ==
  ASSUME Sound, Told, Held, NEW t \in Threads, RemoveObject(t)
  PROVE  Held' /\ Learns(loc[t]) /\ Calm(loc[t])
  <1>1. PICK l : l = loc[t]
    OBVIOUS
  <1>2. /\ l \in LocRecs /\ InStep(l) /\ l.pc \in {"rmvolume", "rmsnapshot"} /\ LocHeld(l)
        /\ l.from = l.call.name
    BY <1>1, ThreadTold DEF RemoveObject, Held, LocTold, Removing
  <1>3. asked' = asked /\ torn' = torn
    BY DEF RemoveObject, bounds
  <1>4. CASE /\ UNCHANGED arrayVars
             /\ Raise(t, Deleter(t), "ObjectNotFoundError") \/ Raise(t, Deleter(t), "XCLIError")
    BY <1>1, <1>2, <1>3, <1>4, NothingChanges, RaiseHeld, RaisedIs DEF Sound, Deleter
  <1>5. ASSUME NEW i \in Called(l.from), IsSnapshot(i) = (l.pc = "rmsnapshot"),
               IF l.pc = "rmvolume" THEN VolDelete(i) ELSE SnapshotDelete(i),
               IF l.undo = NoError THEN Ok(t) ELSE UndoNext(t, NoError)
        PROVE  Held' /\ Learns(loc[t]) /\ Calm(loc[t])
    <2>1. Exists(l.id)
      BY <1>2, <1>5 DEF LocHeld, Removing
    <2>2. i = l.id
      BY <1>1, <1>2, <1>5, <2>1, TargetIs
    <2>3. IF IsSnapshot(i) THEN SnapshotDelete(i) ELSE VolDelete(i)
      BY <1>2, <1>5
    <2>4. /\ Ages /\ \A j : Exists(j)' <=> Exists(j) /\ j # i /\ object[j].master # i
          /\ \A j : Exists(j)' => object'[j] = object[j]
      BY <2>1, <2>2, <2>3, RemovalIs DEF Sound
    <2>5. Calm(l)
      BY <1>2, <1>5, <2>1, <2>2, <2>4, RemovedIsCalm
    <2>6. Calm(loc[t])
      BY <1>1, <2>5
    <2>7. CASE l.undo = NoError
      <3>1. l.call.op \notin Creates
        BY <1>2, <2>7 DEF InStep, Undoing, Creates, Deletes
      <3> QED
        BY <1>1, <1>2, <1>3, <1>5, <2>4, <2>6, <2>7, <3>1, OkHeld
    <2>8. CASE l.undo # NoError
      <3>1. NoError \in Errs
        BY DEF Errs
      <3> QED
        BY <1>1, <1>3, <1>5, <2>4, <2>6, <2>8, <3>1, UndoNextHeld
    <2> QED
      BY <2>6, <2>7, <2>8
  <1> QED
    BY <1>1, <1>4, <1>5 DEF RemoveObject

LEMMA ExpandLookupHeld ==
  ASSUME Sound, Told, Held, NEW t \in Threads, ExpandLookup(t)
  PROVE  Held' /\ Learns(loc[t]) /\ Calm(loc[t])
  <1>1. PICK l : l = loc[t]
    OBVIOUS
  <1>2. l \in LocRecs /\ l.pc = "xlook" /\ l.call.op = "Expand" /\ l.undo = NoError
    BY <1>1, ThreadTold DEF ExpandLookup, InStep, Expanding, Undoing
  <1>3. asked' = asked /\ torn' = torn /\ Ages /\ UNCHANGED arrayVars /\ Calm(loc[t])
    BY ReadOnlyIs, QuietIsCalm DEF ExpandLookup, ReadOnly
  <1>4. CASE Refuse(t, "NOT_FOUND") \/ Refuse(t, "OUT_OF_RANGE")
    BY <1>1, <1>2, <1>3, <1>4, RefuseHeld
  <1>5. CASE Ok(t)
    BY <1>1, <1>2, <1>3, <1>5, OkHeld DEF Creates
  <1>6. CASE To(t, "xfind")
    <2>1. ASSUME NEW m, m.pc = "xfind", m.undo = l.undo PROVE LocHeld(m)'
      BY <1>2, <2>1 DEF LocHeld, Removing, Copying
    <2> QED
      BY <1>1, <1>2, <1>3, <1>6, <2>1, ToHeld
  <1> QED
    BY <1>1, <1>3, <1>4, <1>5, <1>6 DEF ExpandLookup

LEMMA ExpandFindHeld ==
  ASSUME Sound, Told, Held, NEW t \in Threads, ExpandFind(t)
  PROVE  Held' /\ Learns(loc[t]) /\ Calm(loc[t])
  <1>1. PICK l : l = loc[t]
    OBVIOUS
  <1>2. l \in LocRecs /\ l.pc = "xfind" /\ l.undo = NoError
    BY <1>1, ThreadTold DEF ExpandFind, InStep, Expanding, Undoing
  <1>3. asked' = asked /\ torn' = torn /\ Ages /\ UNCHANGED arrayVars /\ Calm(loc[t])
    BY ReadOnlyIs, QuietIsCalm DEF ExpandFind, ReadOnly
  <1>4. CASE Raise(t, "expand_volume", "ObjectNotFoundError")
    BY <1>1, <1>2, <1>3, <1>4, RaiseHeld, RaisedIs
  <1>5. ASSUME NEW n, Then(t, [l EXCEPT !.pc = "xresize", !.from = n]) PROVE Held' /\ Learns(loc[t])
    <2>1. PICK m : m = [l EXCEPT !.pc = "xresize", !.from = n]
      OBVIOUS
    <2>2. m.pc = "xresize" /\ m.call = l.call /\ m.undo = l.undo /\ Then(t, m)
      BY <1>2, <1>5, <2>1 DEF LocRecs
    <2>3. LocHeld(m)'
      BY <1>2, <2>2 DEF LocHeld, Removing, Copying
    <2>4. Known' = Known
      BY <2>2 DEF Then, Known, OkTo
    <2> QED
      BY <1>1, <1>2, <1>3, <2>2, <2>3, <2>4, ThenHeld DEF Learns
  <1> QED
    BY <1>1, <1>3, <1>4, <1>5 DEF ExpandFind

\* The volume that an expansion finds by its name.
LEMMA ExpandedIs ==
  ASSUME Sound, Told, Held, NEW t \in Threads, NEW l, l = loc[t], l.pc = "xresize", NEW i \in Called(l.from)
  PROVE  i = l.id /\ Exists(l.id)
  <1>1. l.from = l.call.name /\ l.call.op = "Expand" /\ l.id = l.call.id /\ CallOK(l.call)
    BY ThreadTold DEF LocTold, InStep, Expanding, Creates
  <1>2. Exists(l.id)
    <2> SUFFICES ASSUME ~Exists(l.id) PROVE FALSE
      OBVIOUS
    <2>1. PICK k \in Known : k.id = l.id /\ k.name = l.from /\ k.op = "CreateVolume"
      BY <1>1 DEF CallOK, Creates
    <2> QED
      BY <2>1 DEF Held, Gone
  <1> QED
    BY <1>1, <1>2, TargetIs

LEMMA ExpandResizeHeld ==
  ASSUME Sound, Told, Held, NEW t \in Threads, ExpandResize(t)
  PROVE  Held' /\ Learns(loc[t]) /\ Calm(loc[t])
  <1>1. PICK l : l = loc[t]
    OBVIOUS
  <1>2. l \in LocRecs /\ l.pc = "xresize" /\ l.undo = NoError /\ l.call.size \in Nat
    BY <1>1, ThreadTold DEF ExpandResize, InStep, Expanding, Undoing, LocRecs, CallRecs
  <1>3. asked' = asked /\ torn' = torn
    BY DEF ExpandResize, bounds
  <1>4. CASE /\ UNCHANGED arrayVars
             /\ Raise(t, "expand_volume", "ObjectNotFoundError") \/ Raise(t, "expand_volume", "XCLIError")
    BY <1>1, <1>2, <1>3, <1>4, NothingChanges, RaiseHeld, RaisedIs DEF Sound
  <1>5. PICK blocks : blocks = ToBlocks(l.call.size)
    OBVIOUS
  <1>6. blocks \in Nat
    BY <1>2, <1>5, ProvisioningAssumption DEF ToBlocks
  <1>7. ASSUME NEW i \in Called(l.from), object[i].blocks <= blocks, VolResize(i, blocks), To(t, "xafter")
        PROVE  Held' /\ Learns(loc[t]) /\ Calm(loc[t])
    <2>1. i = l.id /\ Exists(l.id)
      BY <1>1, <1>2, <1>7, ExpandedIs
    <2>2. /\ Ages /\ Touched(l.id) /\ object'[l.id].blocks >= object[l.id].blocks
          /\ object'[l.id].copied = object[l.id].copied /\ object'[l.id].data = object[l.id].data
      BY <1>6, <1>7, <2>1, ResizeDoes, ObjectIs DEF Sound
    <2>3. Calm(l) /\ Calm(loc[t])
      BY <1>1, <1>2, <2>2, TouchedIsCalm
    <2>4. ASSUME NEW m, m.pc = "xafter", m.undo = l.undo PROVE LocHeld(m)'
      BY <1>2, <2>4 DEF LocHeld, Removing, Copying
    <2> QED
      BY <1>1, <1>2, <1>3, <1>7, <2>2, <2>3, <2>4, ToHeld
  <1> QED
    BY <1>1, <1>4, <1>5, <1>7 DEF ExpandResize

LEMMA ExpandAfterHeld ==
  ASSUME Sound, Told, Held, NEW t \in Threads, ExpandAfter(t)
  PROVE  Held' /\ Learns(loc[t]) /\ Calm(loc[t])
  <1>1. PICK l : l = loc[t]
    OBVIOUS
  <1>2. l.pc = "xafter" /\ l.call.op = "Expand"
    BY <1>1, ThreadTold DEF ExpandAfter, InStep, Expanding
  <1>3. asked' = asked /\ torn' = torn /\ Ages /\ UNCHANGED arrayVars /\ Calm(loc[t])
    BY ReadOnlyIs, QuietIsCalm DEF ExpandAfter, ReadOnly
  <1> QED
    BY <1>1, <1>2, <1>3, RefuseHeld, OkHeld DEF ExpandAfter, Creates

LEMMA FaultHeld ==
  ASSUME Sound, Told, Held, NEW t \in Threads, Fault(t)
  PROVE  Held' /\ Learns(loc[t]) /\ Calm(loc[t])
  <1>1. PICK err \in Refusals(t) : Raise(t, err.by, err.ex)
    BY DEF Fault
  <1>2. loc[t].pc # "idle" /\ asked' = asked /\ torn' = torn /\ Ages /\ UNCHANGED arrayVars
    BY NothingChanges DEF Fault, Sound
  <1>3. [by |-> err.by, ex |-> err.ex] \in Raised
    BY <1>2, RefusalsAre
  <1> QED
    BY <1>1, <1>2, <1>3, RaiseHeld

LEMMA CrashHeld ==
  ASSUME Sound, Told, Held, Crash
  PROVE  Held'
  <1>1. /\ UNCHANGED arrayVars /\ answers' = answers /\ asked' = asked /\ torn' = torn
        /\ loc' = [t \in Threads |-> Idle]
    BY DEF Crash
  <1>2. Known' = Known /\ Deleting' = Deleting
    BY <1>1 DEF Known, OkTo, Deleting
  <1>3. PICK m : m = Idle
    OBVIOUS
  <1>4. LocHeld(m)'
    BY <1>3, IdleHeld
  <1>5. \A t \in Threads : loc'[t] = m /\ loc'[t].pc = "idle" /\ loc'[t].call.op = "none"
    BY <1>1, <1>3, IdleIs
  <1>6. \A t \in Threads : LocHeld(loc[t])'
    BY <1>4, <1>5
  <1>7. Alone' /\ NotAgain'
    BY <1>5 DEF Alone, NotAgain, Creates
  <1>8. Gone' /\ KindIs' /\ OneName'
    BY <1>1, <1>2, QuietHeld DEF Held, Gone, KindIs, OneName
  <1> QED
    BY <1>6, <1>7, <1>8 DEF Held

LEMMA AskHeld ==
  ASSUME Sound, Told, ~overlap => Held, ~overlap', NEW t \in Threads, NEW c \in CallRecs, CallOK(c), Ask(t, c)
  PROVE  Held'
  <1>1. PICK m : m = [Idle EXCEPT !.call = c, !.id = c.id, !.pc = FirstStep[c.op]]
    OBVIOUS
  <1>2. FirstStep[c.op] \in {"lookup", "slook", "find", "xlook"}
    BY DEF FirstStep, CallOK, Ops, Creates, Deletes
  <1>3. m.pc \in {"lookup", "slook", "find", "xlook"} /\ m.call = c /\ m.undo = NoError
    BY <1>1, <1>2, IdleIs DEF LocRecs
  <1>4. /\ Then(t, m) /\ answers' = answers /\ asked' = asked \cup {c} /\ UNCHANGED arrayVars
        /\ torn \subseteq torn'
    BY <1>1 DEF Ask, Then
  <1>5. loc'[t] = m /\ \A u \in Threads : u # t => loc'[u] = loc[u]
    BY <1>4 DEF Then, Go, Sound
  <1>6. ~overlap /\ \A o \in Threads : loc[o].pc # "idle" => loc[o].call.name # c.name
    BY IdleIs DEF Ask
  <1>7. Held
    BY <1>6
  <1>8. /\ Known' = Known /\ KnownIds' = KnownIds
        /\ \A i : /\ Exists(i)' = Exists(i) /\ IsSnapshot(i)' = IsSnapshot(i)
                  /\ Snapshots(i)' = Snapshots(i) /\ Called(i)' = Called(i)
    <2>1. object' = object /\ Known' = Known
      BY <1>4 DEF arrayVars, Known, OkTo
    <2>2. \A i : Exists(i)' = Exists(i) /\ IsSnapshot(i)' = IsSnapshot(i)
      BY <2>1 DEF Exists, IsSnapshot
    <2>3. \A i : Snapshots(i)' = Snapshots(i) /\ Called(i)' = Called(i)
      BY <2>1, <2>2 DEF Snapshots, Called
    <2> QED
      BY <2>1, <2>2, <2>3 DEF KnownIds
  <1>9. LocHeld(m)'
    BY <1>3 DEF LocHeld, Copying, Removing
  <1>10. ASSUME NEW u \in Threads PROVE LocHeld(loc[u])'
    <2>1. PICK l : l = loc'[u]
      OBVIOUS
    <2>2. LocHeld(l)'
      <3>1. CASE u = t
        BY <3>1, <2>1, <1>5, <1>9
      <3>2. CASE u # t
        <4>1. LocHeld(l)
          BY <1>5, <1>7, <2>1, <3>2 DEF Held
        <4> QED
          BY <1>4, <1>8, <4>1 DEF LocHeld, Lost
      <3> QED
        BY <3>1, <3>2
    <2> QED
      BY <2>1, <2>2
  <1>11. Alone'
    BY <1>3, <1>5, <1>6, <1>7 DEF Alone, Held
  <1>12. Deleting' = Deleting \cup (IF c.op \in Deletes THEN {c.id} ELSE {})
    BY <1>4 DEF Deleting
  <1>13. ASSUME NEW u \in Threads, NEW k \in Known, loc'[u].call.op \in Creates, k.name = loc'[u].call.name
         PROVE  k.id \notin Deleting'
    <2>1. CASE u = t
      BY <1>3, <1>5, <1>12, <1>13, <2>1 DEF Ask, Creates, Deletes
    <2>2. CASE u # t
      <3>1. k.id \notin Deleting
        BY <1>5, <1>7, <1>13, <2>2 DEF Held, NotAgain
      <3>2. loc[u].pc # "idle"
        BY <1>5, <1>13, <2>2, ThreadIs, IdleIs DEF InStep, Creates
      <3>3. c.op \in Deletes => c.id # k.id
        <4> SUFFICES ASSUME c.op \in Deletes, c.id = k.id PROVE FALSE
          OBVIOUS
        <4>1. PICK j \in Known : j.id = k.id /\ j.name = c.name
          BY DEF CallOK, Creates, Deletes
        <4>2. k.name = c.name
          BY <1>7, <4>1 DEF Held, OneName
        <4> QED
          BY <1>5, <1>6, <1>13, <2>2, <3>2, <4>2
      <3> QED
        BY <1>12, <3>1, <3>3
    <2> QED
      BY <2>1, <2>2
  <1>14. NotAgain'
    BY <1>8, <1>13 DEF NotAgain
  <1>15. Gone' /\ KindIs' /\ OneName'
    BY <1>4, <1>7, <1>8, <1>12 DEF Held, Gone, KindIs, OneName
  <1> QED
    BY <1>10, <1>11, <1>14, <1>15 DEF Held

LEMMA HeldInit == Init => Held
  <1> SUFFICES ASSUME Init PROVE Held
    OBVIOUS
  <1>1. /\ answers = {} /\ loc = [t \in Threads |-> Idle]
        /\ object = [i \in Ids |-> IF i = 1 THEN [NoObject EXCEPT !.name = Source, !.blocks = SourceBlocks]
                                            ELSE NoObject]
    BY DEF Init
  <1>2. Known = {[id |-> 1, name |-> Source, op |-> "CreateVolume"]}
    BY <1>1 DEF Known, OkTo
  <1>3. \A t \in Threads : loc[t].pc = "idle" /\ loc[t].call.op = "none" /\ loc[t].undo = NoError
    BY <1>1, IdleIs
  <1>4. Exists(1) /\ ~IsSnapshot(1)
    <2>1. 1 \in Ids
      BY ArrayAssumption DEF Ids
    <2>2. [NoObject EXCEPT !.name = Source, !.blocks = SourceBlocks].name = Source
      BY DEF NoObject
    <2>3. Source # NoObject.name
      BY ArrayAssumption, ProvisioningAssumption DEF NoObject
    <2> QED
      BY <1>1, <2>1, <2>2, <2>3 DEF Exists, IsSnapshot, NoObject
  <1>5. \A t \in Threads : LocHeld(loc[t])
    BY <1>3 DEF LocHeld, Copying, Removing
  <1>6. Alone /\ NotAgain
    BY <1>3 DEF Alone, NotAgain, Creates
  <1>7. \A k \in Known : k.id = 1 /\ k.name = Source /\ k.op = "CreateVolume"
    BY <1>2, SMTT(30)
  <1> QED
    BY <1>4, <1>5, <1>6, <1>7 DEF Held, Gone, OneName, KindIs

\* A command leaves the bounds alone.
LEMMA CommandBounds ==
  ASSUME NEW t \in Threads, Command(t)
  PROVE  UNCHANGED bounds
  BY DEF Command, ReadOnly, Lookup, Create, FindSource, FindMaster, FindNames, Format, Copy, Resize,
         SnapshotLookup, SnapshotSource, Snap, FindObject, ListSnapshots, RemoveObject, ExpandLookup,
         ExpandFind, ExpandResize, ExpandAfter

LEMMA CommandHeld ==
  ASSUME Sound, Told, Held, NEW t \in Threads, Command(t)
  PROVE  Held' /\ Learns(loc[t]) /\ Calm(loc[t])
  BY LookupHeld, CreateHeld, FindSourceHeld, FindMasterHeld, FindNamesHeld, FormatHeld, CopyHeld, ResizeHeld,
     SnapshotLookupHeld, SnapshotSourceHeld, SnapHeld, FindObjectHeld, ListSnapshotsHeld, RemoveObjectHeld,
     ExpandLookupHeld, ExpandFindHeld, ExpandResizeHeld, ExpandAfterHeld DEF Command

LEMMA HeldNext == Sound /\ Told /\ (~overlap => Held) /\ [Next]_vars => (~overlap => Held)'
  <1> SUFFICES ASSUME Sound, Told, ~overlap => Held, [Next]_vars, ~overlap' PROVE Held'
    OBVIOUS
  <1>1. CASE UNCHANGED vars
    <2>1. /\ UNCHANGED arrayVars /\ answers' = answers /\ torn' = torn /\ loc' = loc /\ asked' = asked
          /\ overlap' = overlap
      BY <1>1 DEF vars, bounds
    <2>2. Alone' = Alone /\ Deleting' = Deleting
      BY <2>1 DEF Alone, Deleting
    <2> QED
      BY <2>1, <2>2, QuietHeld DEF Held, NotAgain, Gone, OneName, KindIs
  <1>2. ASSUME NEW t \in Threads, Command(t) PROVE Held'
    BY <1>2, CommandBounds, CommandHeld DEF bounds
  <1>3. ASSUME NEW t \in Threads, Start(t) PROVE Held'
    <2>1. PICK c : c \in CallRecs /\ CallOK(c) /\ Ask(t, c)
      BY <1>3, CallsAre
    <2> QED
      BY <2>1, AskHeld
  <1>4. ASSUME NEW t \in Threads, Fault(t) PROVE Held'
    BY <1>4, FaultHeld DEF Fault
  <1>5. CASE Crash
    BY <1>5, CrashHeld DEF Crash
  <1> QED
    BY <1>1, <1>2, <1>3, <1>4, <1>5 DEF Next

\* Nothing is overlooked: the commands of a call meet the object that was meant,
\* as long as calls about one name do not overlap, whatever fails or is restarted.
THEOREM HeldAlways == Spec => [](Sound /\ Told /\ (~overlap => Held))
  <1>1. Init => Sound /\ Told /\ (~overlap => Held)
    BY SoundInit, ToldInit, HeldInit
  <1>2. Sound /\ Told /\ (~overlap => Held) /\ [Next]_vars => (Sound /\ Told /\ (~overlap => Held))'
    BY SoundNext, ToldNext, HeldNext
  <1> QED
    BY <1>1, <1>2, PTL DEF Spec

-----------------------------------------------------------------------------
(***************************************************************************)
(* What disappears from the array.                                         *)
(***************************************************************************)

\* Only vol_delete and snapshot_delete remove objects.
LEMMA OnlyDeletionsRemove ==
  ASSUME Sound, NEW t \in Threads, Command(t), NEW i, Exists(i), ~Exists(i)', NEW l, l = loc[t]
  PROVE  l.pc \in {"rmvolume", "rmsnapshot"} /\ \E j \in Called(l.from) : i = j \/ object[i].master = j
  <1>1. l \in LocRecs /\ l.call.name \in Names /\ l.call.size \in Nat
    BY ThreadIs DEF LocRecs, CallRecs
  <1>2. ~UNCHANGED arrayVars
    BY DEF arrayVars, Exists
  <1>3. \A j : ~Added(j) /\ ~Touched(j)
    BY DEF Added, Touched, Exists
  <1>4. ToBlocks(Required(l.call)) \in Nat /\ ToBlocks(l.call.size) \in Nat
    BY <1>1, ProvisioningAssumption DEF ToBlocks, Required
  <1>5. ~Create(t)
    <2> SUFFICES ASSUME Create(t) PROVE FALSE
      OBVIOUS
    <2>1. PICK n, name, blocks : n = nextId /\ name = l.call.name /\ blocks = ToBlocks(Required(l.call))
      OBVIOUS
    <2>2. Called(name) = {} /\ VolCreate(name, blocks)
      BY <1>2, <2>1 DEF Create
    <2> QED
      BY <1>1, <1>3, <1>4, <2>1, <2>2, CreateDoes DEF Sound
  <1>6. ~Format(t)
    BY <1>2, <1>3, CalledIs, FormatDoes DEF Format, Sound
  <1>7. ~Copy(t)
    BY <1>2, <1>3, CalledIs, CopyDoes DEF Copy, Sound
  <1>8. ~Resize(t) /\ ~ExpandResize(t)
    <2>1. ASSUME NEW j, NEW n, NEW blocks \in Nat, j \in Called(n) PROVE ~VolResize(j, blocks)
      BY <1>3, <2>1, CalledIs, ResizeDoes DEF Sound
    <2> QED
      BY <1>2, <1>4, <2>1 DEF Resize, ExpandResize
  <1>9. ~Snap(t)
    <2> SUFFICES ASSUME Snap(t) PROVE FALSE
      OBVIOUS
    <2>1. PICK n, name : n = nextId /\ name = l.call.name
      OBVIOUS
    <2>2. PICK s \in Called(l.from) : Called(name) = {} /\ ~IsSnapshot(s) /\ SnapshotCreate(name, s)
      BY <1>2, <2>1 DEF Snap
    <2>3. Exists(s)
      BY <2>2, CalledIs, SMTT(30) DEF Sound
    <2> QED
      BY <1>1, <1>3, <2>1, <2>2, <2>3, SnapshotDoes DEF Sound
  <1>10. RemoveObject(t)
    BY <1>2, <1>5, <1>6, <1>7, <1>8, <1>9
    DEF Command, ReadOnly, Lookup, FindSource, FindMaster, FindNames, SnapshotLookup, SnapshotSource,
        FindObject, ListSnapshots, ExpandLookup, ExpandFind, ExpandAfter
  <1>11. l.pc \in {"rmvolume", "rmsnapshot"}
    BY <1>10 DEF RemoveObject
  <1>12. PICK j \in Called(l.from) : /\ IsSnapshot(j) = (l.pc = "rmsnapshot")
                                     /\ IF l.pc = "rmvolume" THEN VolDelete(j) ELSE SnapshotDelete(j)
    BY <1>2, <1>10 DEF RemoveObject
  <1>13. Exists(j) /\ IF IsSnapshot(j) THEN SnapshotDelete(j) ELSE VolDelete(j)
    BY <1>11, <1>12, CalledIs DEF Sound
  <1>14. Exists(i)' <=> Exists(i) /\ i # j /\ object[i].master # j
    BY <1>13, RemovalIs DEF Sound
  <1> QED
    BY <1>11, <1>12, <1>14

LEMMA RemovedBy ==
  ASSUME Sound, Told, ~overlap => Held, NEW t \in Threads, Command(t), NEW i \in Ids, Exists(i), ~Exists(i)'
  PROVE  \/ i \in Deleting
         \/ object[i].master \in torn
         \/ loc[t].call.op = "CreateVolume" /\ loc[t].id = i /\ \A k \in Known : k.id # i
         \/ /\ overlap /\ loc[t].call.op \in Deletes \cup {"CreateVolume"}
            /\ loc[t].call.name \in NamesWith(i)
  <1>1. PICK l : l = loc[t]
    OBVIOUS
  <1>2. l.pc \in {"rmvolume", "rmsnapshot"}
    BY <1>1, OnlyDeletionsRemove
  <1>3. PICK j \in Called(l.from) : i = j \/ object[i].master = j
    BY <1>1, OnlyDeletionsRemove
  <1>4. LocTold(l) /\ InStep(l) /\ l.from = l.call.name /\ l.call \in asked
    BY <1>1, <1>2, ThreadTold DEF LocTold, Removing
  <1>5. /\ l.call.op \in Deletes \cup {"CreateVolume"}
        /\ l.undo = NoError => l.call.op \in Deletes /\ l.id = l.call.id
        /\ l.undo # NoError => l.call.op = "CreateVolume"
    BY <1>2, <1>4 DEF InStep, Undoing, Deletes, Creates
  <1>6. CASE overlap
    <2>1. Exists(j) /\ object[j].name = l.call.name /\ j # NoId
      BY <1>3, <1>4, CalledIs, ObjectIs DEF Sound, NoId
    <2>2. l.call.name \in NamesWith(i)
      BY <1>3, <2>1 DEF NamesWith
    <2> QED
      BY <1>1, <1>5, <1>6, <2>2
  <1>7. CASE ~overlap
    <2>1. Held /\ LocHeld(l) /\ Calm(l)
      BY <1>1, <1>7, CommandHeld DEF Held, Calm
    <2>2. /\ Exists(l.id) /\ (i = l.id \/ object[i].master = l.id)
          /\ (IsSnapshot(l.id) <=> l.pc = "rmsnapshot")
      BY <2>1 DEF Calm
    <2>3. CASE i = l.id /\ l.undo = NoError
      BY <1>4, <1>5, <2>3 DEF Deleting
    <2>4. CASE i = l.id /\ l.undo # NoError
      BY <1>1, <1>5, <2>1, <2>4 DEF LocHeld, KnownIds
    <2>5. CASE object[i].master = l.id
      <3>1. l.id # NoId
        BY <2>2, ObjectIs DEF Sound, NoId
      <3>2. IsSnapshot(i)
        BY <2>5, <3>1 DEF IsSnapshot
      <3>3. ~IsSnapshot(l.id)
        BY <2>5, <3>2 DEF Sound, Arrayed
      <3>4. i \in Snapshots(l.id) /\ l.pc = "rmvolume"
        BY <1>2, <2>2, <2>5, <3>3 DEF Snapshots
      <3> QED
        BY <2>1, <2>2, <2>5, <3>4 DEF LocHeld
    <2> QED
      BY <2>2, <2>3, <2>4, <2>5
  <1> QED
    BY <1>6, <1>7

\* The deletion by name and the rollback, for any number of calls, failures and
\* restarts: an object disappears only if its deletion was asked for, by the
\* rollback of the call that made it and was not answered, with a volume whose
\* snapshot was under way, or if calls about its name have overlapped.
THEOREM NothingElseIsRemoved == Spec => RemovedOnPurpose
  <1> DEFINE Purposely == \A i \in Ids : Exists(i) /\ ~Exists(i)' =>
          \/ i \in Deleting
          \/ object[i].master \in torn
          \/ \E t \in Threads :
                loc[t].call.op = "CreateVolume" /\ loc[t].id = i /\ \A k \in Known : k.id # i
          \/ overlap /\ \E t \in Threads :
                loc[t].call.op \in Deletes \cup {"CreateVolume"} /\ loc[t].call.name \in NamesWith(i)
  <1>1. Sound /\ Told /\ (~overlap => Held) /\ [Next]_vars => [Purposely]_vars
    <2> SUFFICES ASSUME Sound, Told, ~overlap => Held, Next, NEW i \in Ids, Exists(i), ~Exists(i)'
                 PROVE  \/ i \in Deleting
                        \/ object[i].master \in torn
                        \/ \E t \in Threads :
                              loc[t].call.op = "CreateVolume" /\ loc[t].id = i /\ \A k \in Known : k.id # i
                        \/ overlap /\ \E t \in Threads :
                              /\ loc[t].call.op \in Deletes \cup {"CreateVolume"}
                              /\ loc[t].call.name \in NamesWith(i)
      OBVIOUS
    <2>1. ~UNCHANGED arrayVars
      BY DEF arrayVars, Exists
    <2>2. \A t \in Threads : ~Start(t)
      BY <2>1, CallsAre DEF Ask
    <2>3. PICK t \in Threads : Command(t)
      BY <2>1, <2>2 DEF Next, Fault, Crash
    <2> QED
      BY <2>3, RemovedBy
  <1>2. Spec => [][Purposely]_vars
    <2> HIDE DEF Purposely
    <2> QED
      BY <1>1, HeldAlways, PTL DEF Spec
  <1> QED
    BY <1>2 DEF RemovedOnPurpose

-----------------------------------------------------------------------------
(***************************************************************************)
(* What the answers say of data and sizes.                                 *)
(***************************************************************************)

LEMMA CommandAges ==
  ASSUME Sound, NEW t \in Threads, Command(t)
  PROVE  Ages
  <1>1. PICK l : l = loc[t]
    OBVIOUS
  <1>2. l \in LocRecs /\ l.call.name \in Names /\ l.call.size \in Nat
    BY <1>1, ThreadIs DEF LocRecs, CallRecs
  <1>3. UNCHANGED arrayVars => Ages
    BY NothingChanges DEF Sound
  <1>4. ToBlocks(Required(l.call)) \in Nat /\ ToBlocks(l.call.size) \in Nat
    BY <1>2, ProvisioningAssumption DEF ToBlocks, Required
  <1>5. CASE Create(t)
    <2>1. PICK n, name, blocks : n = nextId /\ name = l.call.name /\ blocks = ToBlocks(Required(l.call))
      OBVIOUS
    <2>2. UNCHANGED arrayVars \/ (Called(name) = {} /\ VolCreate(name, blocks))
      BY <1>1, <1>5, <2>1 DEF Create
    <2> QED
      BY <1>2, <1>3, <1>4, <2>1, <2>2, CreateDoes DEF Sound
  <1>6. CASE Format(t) \/ Copy(t)
    BY <1>3, <1>6, CalledIs, FormatDoes, CopyDoes DEF Format, Copy, Sound
  <1>7. CASE Resize(t) \/ ExpandResize(t)
    <2>1. ASSUME NEW j, NEW n, NEW blocks \in Nat, j \in Called(n), VolResize(j, blocks) PROVE Ages
      BY <2>1, CalledIs, ResizeDoes DEF Sound
    <2> QED
      BY <1>1, <1>3, <1>4, <1>7, <2>1 DEF Resize, ExpandResize
  <1>8. CASE Snap(t)
    <2>1. PICK n, name : n = nextId /\ name = l.call.name
      OBVIOUS
    <2>2. UNCHANGED arrayVars \/ (Called(name) = {} /\ \E s \in Called(l.from) : ~IsSnapshot(s) /\ SnapshotCreate(name, s))
      BY <1>1, <1>8, <2>1 DEF Snap
    <2>3. ASSUME Called(name) = {}, NEW s \in Called(l.from), ~IsSnapshot(s), SnapshotCreate(name, s) PROVE Ages
      <3>1. Exists(s)
        BY <2>3, CalledIs DEF Sound
      <3> QED
        BY <1>2, <2>1, <2>3, <3>1, SnapshotDoes DEF Sound
    <2> QED
      BY <1>3, <2>2, <2>3
  <1>9. CASE RemoveObject(t)
    <2>1. ASSUME NEW j \in Called(l.from), IsSnapshot(j) = (l.pc = "rmsnapshot"), l.pc \in {"rmvolume", "rmsnapshot"},
                 IF l.pc = "rmvolume" THEN VolDelete(j) ELSE SnapshotDelete(j)
          PROVE  Ages
      <3>1. Exists(j) /\ IF IsSnapshot(j) THEN SnapshotDelete(j) ELSE VolDelete(j)
        BY <2>1, CalledIs DEF Sound
      <3> QED
        BY <3>1, RemovalIs DEF Sound
    <2> QED
      BY <1>1, <1>3, <1>9, <2>1 DEF RemoveObject
  <1> QED
    BY <1>3, <1>5, <1>6, <1>7, <1>8, <1>9
    DEF Command, ReadOnly, Lookup, FindSource, FindMaster, FindNames, SnapshotLookup, SnapshotSource,
        FindObject, ListSnapshots, ExpandLookup, ExpandFind, ExpandAfter

\* A step of a thread, and what is known of it.
Steps(t) ==
    /\ Sound' /\ Told' /\ Held' /\ Ages /\ Calm(loc[t]) /\ Learns(loc[t])
    /\ asked' = asked /\ torn' = torn /\ gen3' = gen3 /\ faults <= faults' /\ answers \subseteq answers'
    /\ loc[t].pc # "idle"

LEMMA CommandAnswers ==
  ASSUME NEW t \in Threads, Command(t)
  PROVE  answers \subseteq answers' /\ loc[t].pc # "idle"
  <1>1. /\ \A pc : To(t, pc) => answers \subseteq answers'
        /\ \A l : Then(t, l) => answers \subseteq answers'
        /\ \A status, id, err : Reply(t, status, id, err) => answers \subseteq answers'
    BY DEF To, Then, Reply
  <1>2. /\ Ok(t) => answers \subseteq answers'
        /\ \A status : Refuse(t, status) => answers \subseteq answers'
        /\ \A err, rounds : Undo(t, err, rounds) => answers \subseteq answers'
    BY <1>1 DEF Ok, Refuse, Undo
  <1>3. \A err : UndoNext(t, err) => answers \subseteq answers'
    BY <1>1, <1>2 DEF UndoNext
  <1>4. \A by, ex : Raise(t, by, ex) => answers \subseteq answers'
    BY <1>1, <1>2, <1>3 DEF Raise
  <1>5. CASE Lookup(t) \/ Create(t) \/ FindSource(t) \/ FindMaster(t) \/ FindNames(t)
    BY <1>1, <1>2, <1>3, <1>4, <1>5 DEF Lookup, Create, FindSource, FindMaster, FindNames
  <1>6. CASE Format(t) \/ Copy(t) \/ Resize(t)
    BY <1>1, <1>2, <1>3, <1>4, <1>6 DEF Format, Copy, Resize
  <1>7. CASE SnapshotLookup(t) \/ SnapshotSource(t) \/ Snap(t)
    BY <1>1, <1>2, <1>3, <1>4, <1>7 DEF SnapshotLookup, SnapshotSource, Snap
  <1>8. CASE FindObject(t) \/ ListSnapshots(t) \/ RemoveObject(t)
    BY <1>1, <1>2, <1>3, <1>4, <1>8 DEF FindObject, ListSnapshots, RemoveObject
  <1>9. CASE ExpandLookup(t) \/ ExpandFind(t) \/ ExpandResize(t) \/ ExpandAfter(t)
    BY <1>1, <1>2, <1>3, <1>4, <1>9 DEF ExpandLookup, ExpandFind, ExpandResize, ExpandAfter
  <1> QED
    BY <1>5, <1>6, <1>7, <1>8, <1>9 DEF Command

LEMMA CommandSteps ==
  ASSUME Sound, Told, Held, NEW t \in Threads, Command(t)
  PROVE  Steps(t) /\ faults' = faults
  <1>1. UNCHANGED bounds
    BY CommandBounds
  <1>2. [Next]_vars
    BY DEF Next
  <1>3. Sound' /\ Told'
    BY <1>2, SoundNext, ToldNext
  <1>4. faults \in Nat
    BY DEF Sound, Counted
  <1> QED
    BY <1>1, <1>3, <1>4, CommandHeld, CommandAges, CommandAnswers DEF Steps, bounds

\* Another call's object does not change.
LEMMA OthersAre ==
  ASSUME Sound, Told, Held, NEW t \in Threads, Steps(t), NEW u \in Threads, u # t, NEW v, v = loc[u],
         v.pc # "idle", Exists(v.id)'
  PROVE  Exists(v.id) /\ object'[v.id] = object[v.id] /\ v.id \in Ids
  <1>1. PICK l : l = loc[t]
    OBVIOUS
  <1>2. l.pc # "idle" /\ Calm(l) /\ Ages /\ v.id < nextId /\ LocTold(l) /\ LocTold(v)
    BY <1>1, ThreadTold DEF Steps, Calm
  <1>3. Exists(v.id) /\ v.id \in Ids
    BY <1>2 DEF Ages, Exists
  <1>4. v.id # l.id
    BY <1>1, <1>2, <1>3 DEF LocTold, Held, Alone
  <1> QED
    BY <1>2, <1>3, <1>4 DEF Calm

LEMMA DataStep ==
  ASSUME Sound, Told, Held, Data, NEW t \in Threads, Steps(t), NEW l, l = loc[t], NEW m, Go(t, m), LocData(m)',
         \/ l.pc \notin {"create", "snap", "format", "copy", "resize"}
         \/ \A i \in Ids : Exists(i)' /\ object'[i] # object[i] => DataOf(i)',
         \A a \in answers' : a \in answers \/ CopiedOf(a)'
  PROVE  Data'
  <1>1. loc'[t] = m /\ \A u \in Threads : u # t => loc'[u] = loc[u]
    BY DEF Go, Sound
  <1>2. Calm(l) /\ Ages /\ torn' = torn
    BY DEF Steps, Calm
  <1>3. ASSUME NEW u \in Threads PROVE LocData(loc[u])'
    <2>1. PICK v : v = loc'[u]
      OBVIOUS
    <2>2. LocData(v)'
      <3>1. CASE u = t
        BY <3>1, <2>1, <1>1
      <3>2. CASE u # t /\ v.pc \in Copying \cup {"cmaster"} /\ Exists(v.id)'
        <4>1. v = loc[u] /\ LocData(v) /\ v.pc # "idle"
          BY <1>1, <2>1, <3>2 DEF Data, Copying
        <4>2. Exists(v.id) /\ object'[v.id] = object[v.id]
          BY <3>2, <4>1, OthersAre
        <4> QED
          BY <1>2, <4>1, <4>2 DEF LocData, Misled
      <3>3. CASE v.pc \in Copying => Exists(v.id)'
        BY <3>1, <3>2, <3>3 DEF LocData, Copying
      <3>4. v.pc \in Copying => Exists(v.id)'
        BY <2>1 DEF Steps, Held, LocHeld
      <3> QED
        BY <3>3, <3>4
    <2> QED
      BY <2>1, <2>2
  <1>4. ASSUME NEW i \in Ids, Exists(i)' PROVE DataOf(i)'
    <2>1. CASE object'[i] = object[i]
      BY <1>4, <2>1 DEF Data, DataOf, Exists, IsSnapshot
    <2>2. CASE object'[i] # object[i] /\ l.pc \notin {"create", "snap", "format", "copy", "resize"}
      <3>1. Exists(i) /\ i < nextId
        BY <1>2, <1>4, <2>2, ObjectIs DEF Calm, Sound
      <3>2. object'[i].copied = object[i].copied /\ object'[i].data = object[i].data
        BY <1>2, <1>4, <2>2, <3>1 DEF Calm
      <3>3. object'[i].master = object[i].master
        BY <1>2, <1>4, <3>1 DEF Ages
      <3> QED
        BY <3>1, <3>2, <3>3 DEF Data, DataOf, IsSnapshot
    <2> QED
      BY <1>4, <2>1, <2>2
  <1>5. ASSUME NEW a \in answers PROVE CopiedOf(a)'
    <2> SUFFICES ASSUME a.status = "OK", a.call.op \in Creates, a.call.source # NoId, Exists(a.id)'
                 PROVE  object'[a.id].copied = a.call.source \/ Misled(a.call)'
      BY DEF CopiedOf
    <2>1. PICK k : k = [id |-> a.id, name |-> a.call.name, op |-> a.call.op]
      OBVIOUS
    <2>2. k \in Known /\ k.id = a.id
      BY <2>1 DEF Known, OkTo
    <2>3. a.id < nextId /\ a.id \in Ids /\ a.id \in KnownIds
      BY <2>2, KnownIs DEF Exists, KnownIds
    <2>4. Exists(a.id)
      BY <1>2, <2>3 DEF Ages
    <2>5. object'[a.id].copied = object[a.id].copied
      <3> SUFFICES ASSUME object'[a.id] # object[a.id] PROVE object'[a.id].copied = object[a.id].copied
        OBVIOUS
      <3>1. a.id = l.id /\ l.pc \in {"format", "copy", "resize", "xresize"}
        BY <1>2, <2>3, <2>4 DEF Calm
      <3>2. l.pc = "xresize"
        BY <2>3, <3>1 DEF Held, LocHeld, Copying
      <3> QED
        BY <1>2, <2>3, <2>4, <3>2 DEF Calm
    <2> QED
      BY <1>2, <2>4, <2>5 DEF Data, CopiedOf, Misled
  <1> QED
    BY <1>3, <1>4, <1>5 DEF Data

\* What was answered OK is known.
LEMMA AnsweredIs ==
  ASSUME Sound, Told, NEW a \in answers, a.status = "OK", a.call.op \in Creates \cup {"Expand"}
  PROVE  /\ a.id \in KnownIds /\ a.id \in Nat /\ a.id < nextId
         /\ a.call.op \in Creates => \E k \in Known : k.id = a.id /\ k.name = a.call.name /\ k.op = a.call.op
  <1>1. CASE a.call.op \in Creates
    <2>1. PICK k : k = [id |-> a.id, name |-> a.call.name, op |-> a.call.op]
      OBVIOUS
    <2>2. k \in Known /\ k.id = a.id /\ k.name = a.call.name /\ k.op = a.call.op
      BY <1>1, <2>1 DEF Known, OkTo
    <2> QED
      BY <2>2, KnownIs DEF KnownIds
  <1>2. CASE a.call.op = "Expand"
    <2>1. a.id = a.call.id /\ CallOK(a.call)
      BY <1>2 DEF Told, Creates
    <2>2. PICK k \in Known : k.id = a.id
      BY <1>2, <2>1 DEF CallOK, Creates
    <2> QED
      BY <1>2, <2>2, KnownIs DEF KnownIds, Creates
  <1> QED
    BY <1>1, <1>2

\* A known object is only changed by an expansion.
LEMMA KnownOnly ==
  ASSUME Sound, Told, Held, NEW t \in Threads, Steps(t), NEW l, l = loc[t], NEW i \in KnownIds, Exists(i)'
  PROVE  /\ Exists(i) /\ i \in Ids /\ object'[i].blocks >= object[i].blocks
         /\ object'[i].copied = object[i].copied
         /\ object'[i] # object[i] => Expanded(i)
  <1>1. Calm(l) /\ Ages /\ InStep(l) /\ l.call \in asked /\ LocHeld(l)
    BY ThreadTold DEF Steps, Calm, Held
  <1>2. i < nextId /\ i \in Ids
    BY KnownIs DEF KnownIds, Exists
  <1>3. Exists(i) /\ object[i].blocks \in Nat
    BY <1>1, <1>2, ObjectIs DEF Ages, Sound
  <1>4. CASE object'[i] # object[i]
    <2>1. i = l.id /\ l.pc \in {"format", "copy", "resize", "xresize"}
      BY <1>1, <1>2, <1>3, <1>4 DEF Calm
    <2>2. l.pc = "xresize"
      BY <1>1, <2>1 DEF LocHeld, Copying
    <2>3. Expanded(i)
      BY <1>1, <2>1, <2>2 DEF InStep, Expanding, Expanded, Creates
    <2> QED
      BY <1>1, <1>2, <1>3, <1>4, <2>2, <2>3 DEF Calm
  <1> QED
    BY <1>2, <1>3, <1>4

LEMMA KnownIdsGrow ==
  ASSUME answers \subseteq answers'
  PROVE  KnownIds \subseteq KnownIds'
  BY KnownGrows DEF KnownIds

\* The sizes that were answered stay right, or the volume was expanded.
LEMMA SizesStay ==
  ASSUME Sound, Told, Held, NEW t \in Threads, Steps(t), NEW a \in answers, SizedOf(a)
  PROVE  SizedOf(a)'
  <1> SUFFICES ASSUME faults' < Tries, a.status = "OK", a.call.op \in {"CreateVolume", "Expand"}, Exists(a.id)'
               PROVE  /\ object'[a.id].blocks >= ToBlocks(a.call.size) \/ Misled(a.call)'
                      /\ a.call.op = "CreateVolume" /\ a.call.source = NoId =>
                            /\ object'[a.id].copied = NoId
                            /\ object'[a.id].blocks = ToBlocks(Required(a.call)) \/ Expanded(a.id)'
    BY DEF SizedOf
  <1>1. PICK i : i = a.id
    OBVIOUS
  <1>2. i \in KnownIds
    BY <1>1, AnsweredIs DEF Creates
  <1>3. /\ Exists(i) /\ i \in Ids /\ object'[i].blocks >= object[i].blocks
        /\ object'[i].copied = object[i].copied
        /\ object'[i] # object[i] => Expanded(i)
    BY <1>1, <1>2, KnownOnly
  <1>4. /\ faults \in Nat /\ faults' \in Nat /\ faults <= faults' /\ Tries \in Nat /\ torn' = torn
        /\ asked' = asked
    BY ProvisioningAssumption DEF Steps, Sound, Counted
  <1>5. object[i].blocks \in Nat /\ object'[i].blocks \in Nat
    BY <1>1, <1>3, ObjectIs DEF Steps, Sound, Exists, Arrayed, Objects
  <1>6. a.call.size \in Nat
    BY DEF Sound, AnswerOK, AnswerRecs, CallRecs
  <1>7. ToBlocks(a.call.size) \in Nat
    BY <1>6, ProvisioningAssumption DEF ToBlocks
  <1>8. /\ object[i].blocks >= ToBlocks(a.call.size) \/ Misled(a.call)
        /\ a.call.op = "CreateVolume" /\ a.call.source = NoId =>
              /\ object[i].copied = NoId
              /\ object[i].blocks = ToBlocks(Required(a.call)) \/ Expanded(i)
    BY <1>1, <1>3, <1>4 DEF SizedOf
  <1>9. Expanded(i)' = Expanded(i) /\ Misled(a.call)' = Misled(a.call)
    BY <1>4 DEF Expanded, Misled
  <1> QED
    BY <1>1, <1>3, <1>5, <1>7, <1>8, <1>9

\* What a call has kept of another volume's size stays right.
LEMMA LocSizedStays ==
  ASSUME Sound, Told, Held, NEW t \in Threads, Steps(t), NEW u \in Threads, u # t, NEW v, v = loc[u], LocSized(v)
  PROVE  LocSized(v)'
  <1>1. v \in LocRecs /\ LocTold(v) /\ v.id < nextId /\ (v.pc # "idle" => CallOK(v.call)) /\ InStep(v)
    BY ThreadTold
  <1>2. /\ faults \in Nat /\ faults' \in Nat /\ faults <= faults' /\ Ages /\ Tries \in Nat
    BY ProvisioningAssumption DEF Steps, Sound, Counted
  <1>3. ASSUME v.pc \in {"fmaster", "names", "format", "copy"}, Exists(v.call.source)'
        PROVE  v.blocks <= object'[v.call.source].blocks
    <2>1. PICK l, i : l = loc[t] /\ i = v.call.source
      OBVIOUS
    <2>2. v.call.op = "CreateVolume" /\ v.call.source # NoId
      BY <1>1, <1>3 DEF InStep, LocTold, Copying
    <2>3. i \in KnownIds
      BY <1>1, <1>3, <2>1, <2>2 DEF CallOK, KnownIds
    <2>4. Exists(i) /\ object'[i].blocks >= object[i].blocks /\ i \in Ids
      BY <1>3, <2>1, <2>3, KnownOnly
    <2>5. object[i].blocks \in Nat /\ object'[i].blocks \in Nat /\ v.blocks \in Nat
      BY <1>1, <1>3, <2>1, <2>4, ObjectIs DEF Steps, Sound, Exists, Arrayed, Objects, LocRecs
    <2>6. v.blocks <= object[i].blocks
      BY <1>3, <2>1, <2>4 DEF LocSized
    <2> QED
      BY <2>1, <2>4, <2>5, <2>6
  <1>4. v.pc = "xafter" /\ Exists(v.id)' => object'[v.id].blocks >= ToBlocks(v.call.size)
    BY OthersAre DEF LocSized
  <1>5. ASSUME v.undo # NoError, Exists(v.id)' PROVE Tries <= faults' + v.tries
    <2>1. Exists(v.id) /\ v.tries \in Nat
      BY <1>1, <1>2, <1>5 DEF Ages, Exists, LocRecs
    <2> QED
      BY <1>2, <1>5, <2>1 DEF LocSized
  <1> QED
    BY <1>3, <1>4, <1>5 DEF LocSized

\* A repeated call is told of the same volume.
LEMMA OneIdStays ==
  ASSUME Sound, Told, Held, OneId, NEW t \in Threads, Steps(t)
  PROVE  OneId'
  <1>1. PICK l : l = loc[t]
    OBVIOUS
  <1>2. /\ Learns(l) /\ Held' /\ Told' /\ Sound' /\ asked' = asked
    BY <1>1 DEF Steps, Learns
  <1>3. \A a \in OkTo({"CreateVolume"})' : /\ a \in answers' /\ a.call \in asked /\ a.status = "OK" /\ a.call.op = "CreateVolume"
                                          /\ a.call.name # Source
    BY <1>2 DEF OkTo, Told, CallOK, Creates
  <1>4. ASSUME NEW a \in OkTo({"CreateVolume"})'
        PROVE  (\E b \in OkTo({"CreateVolume"}) : b.call = a.call /\ b.id = a.id) \/ Exists(a.id)'
    <2>1. PICK k : k = [id |-> a.id, name |-> a.call.name, op |-> a.call.op]
      OBVIOUS
    <2>2. k \in Known' /\ k.id = a.id /\ k.name = a.call.name /\ k.op = "CreateVolume"
      BY <1>3, <2>1 DEF Known, OkTo, Creates
    <2>3. CASE k \in Known
      <3>1. PICK b \in answers : /\ b.status = "OK" /\ k.id = b.id /\ k.name = b.call.name /\ k.op = b.call.op
        BY <1>3, <2>2, <2>3, KnownIs
      <3>2. b.call = a.call
        BY <1>3, <2>2, <3>1, ZenonT(30) DEF Told, Creates
      <3> QED
        BY <2>2, <3>1, <3>2 DEF OkTo
    <2>4. CASE k \notin Known
      BY <1>2, <2>2, <2>4 DEF Learns
    <2> QED
      BY <2>3, <2>4
  <1>5. ASSUME NEW a \in OkTo({"CreateVolume"})', NEW b \in OkTo({"CreateVolume"})', a.call = b.call, Exists(a.id)'
        PROVE  a.id = b.id
    <2>1. PICK k, j : /\ k = [id |-> a.id, name |-> a.call.name, op |-> a.call.op]
                      /\ j = [id |-> b.id, name |-> b.call.name, op |-> b.call.op]
      OBVIOUS
    <2>2. /\ k \in Known' /\ k.id = a.id /\ k.name = a.call.name
          /\ j \in Known' /\ j.id = b.id /\ j.name = a.call.name /\ j.op = "CreateVolume"
      BY <1>3, <1>5, <2>1 DEF Known, OkTo, Creates
    <2>3. a.id \in Ids /\ object'[a.id].name = a.call.name
      BY <1>2, <1>5, <2>2 DEF Told, Exists
    <2>4. a.id \in Called(a.call.name)'
      BY <1>5, <2>3 DEF Called
    <2>5. Exists(b.id)'
      BY <1>2, <2>2, <2>4 DEF Held, Gone
    <2>6. b.id \in Ids /\ object'[b.id].name = a.call.name
      BY <1>2, <2>2, <2>5 DEF Told, Exists
    <2> QED
      BY <1>2, <1>5, <2>3, <2>5, <2>6 DEF Sound, Arrayed
  <1> SUFFICES ASSUME NEW a \in OkTo({"CreateVolume"})', NEW b \in OkTo({"CreateVolume"})', a.call = b.call
               PROVE  a.id = b.id
    BY DEF OneId
  <1>6. CASE Exists(a.id)' \/ Exists(b.id)'
    BY <1>5, <1>6
  <1>7. CASE ~Exists(a.id)' /\ ~Exists(b.id)'
    BY <1>4, <1>7 DEF OneId
  <1> QED
    BY <1>6, <1>7

LEMMA SizedStep ==
  ASSUME Sound, Told, Held, Sized, NEW t \in Threads, Steps(t), NEW l, l = loc[t], NEW m, Go(t, m), LocSized(m)',
         \A i \in Ids : Exists(i)' /\ (~Exists(i) \/ Makes(l, i)) => i \in KnownIds' \/ Makes(m, i) \/ Left(i)',
         \A a \in answers' : a \in answers \/ (SizedOf(a)' /\ RepeatedOf(a)')
  PROVE  Sized'
  <1>1. loc'[t] = m /\ \A u \in Threads : u # t => loc'[u] = loc[u]
    BY DEF Go, Sound
  <1>2. /\ faults \in Nat /\ faults' \in Nat /\ faults <= faults' /\ Tries \in Nat /\ Ages
        /\ answers \subseteq answers' /\ asked' = asked /\ torn' = torn /\ gen3' = gen3
    BY ProvisioningAssumption DEF Steps, Sound, Counted
  <1>3. ASSUME NEW u \in Threads PROVE LocSized(loc[u])'
    <2>1. PICK v : v = loc'[u]
      OBVIOUS
    <2>2. LocSized(v)'
      <3>1. CASE u = t
        BY <3>1, <2>1, <1>1
      <3>2. CASE u # t
        BY <3>2, <2>1, <1>1, LocSizedStays DEF Sized
      <3> QED
        BY <3>1, <3>2
    <2> QED
      BY <2>1, <2>2
  <1>4. Owned'
    <2> SUFFICES ASSUME NEW i \in Ids, Exists(i)'
                 PROVE  i \in KnownIds' \/ Left(i)' \/ \E u \in Threads : Makes(loc'[u], i)
      BY DEF Owned, Makes
    <2>1. CASE ~Exists(i) \/ Makes(l, i)
      BY <1>1, <2>1
    <2>2. CASE Exists(i) /\ i \in KnownIds
      BY <1>2, <2>2, KnownIdsGrow
    <2>3. CASE Exists(i) /\ Left(i)
      <3>1. i < nextId
        BY <2>3, ObjectIs DEF Sound
      <3>2. IsSnapshot(i)' = IsSnapshot(i)
        BY <1>2, <3>1 DEF Ages, IsSnapshot
      <3> QED
        BY <1>2, <2>3, <3>2 DEF Left
    <2>4. ASSUME NEW u \in Threads, u # t, Makes(loc[u], i) PROVE Makes(loc'[u], i)
      BY <1>1, <2>4
    <2> QED
      BY <1>1, <2>1, <2>2, <2>3, <2>4 DEF Sized, Owned
  <1>5. OneId'
    BY OneIdStays DEF Sized
  <1>6. ASSUME NEW a \in answers PROVE SizedOf(a)'
    BY SizesStay DEF Sized
  <1>7. ASSUME NEW b \in answers PROVE RepeatedOf(b)'
    <2> SUFFICES ASSUME faults' = 0, b.call.op = "CreateVolume", b.status = "ALREADY_EXISTS"
                 PROVE  \E a \in OkTo({"CreateVolume"})' : a.call = b.call /\ Excused(a)'
      BY DEF RepeatedOf
    <2>1. PICK a \in OkTo({"CreateVolume"}) : a.call = b.call /\ Excused(a)
      BY <1>2 DEF Sized, RepeatedOf
    <2>2. a \in OkTo({"CreateVolume"})'
      BY <1>2 DEF OkTo
    <2>3. Excused(a)'
      BY <1>2, <2>1 DEF Excused, Expanded, Misled
    <2> QED
      BY <2>1, <2>2, <2>3
  <1> QED
    BY <1>3, <1>4, <1>5, <1>6, <1>7 DEF Sized

-----------------------------------------------------------------------------
(***************************************************************************)
(* The steps keep Data and Sized.                                          *)
(***************************************************************************)

\* Sizes in blocks.
LEMMA BlocksAre ==
  /\ \A n \in Nat, k \in Nat : n <= ToBytes(k) => ToBlocks(n) <= k
  /\ \A n \in Nat : n % Block = 0 => ToBytes(ToBlocks(n)) = n
  /\ \A n \in Nat : ToBlocks(n) \in Nat
  /\ ToBlocks(0) = 0
  <1>1. Block \in Nat \ {0}
    BY ProvisioningAssumption
  <1>2. ASSUME NEW n \in Nat, NEW k \in Nat, n <= k * Block PROVE n \div Block <= k
    BY <1>1, <1>2
  <1>3. ASSUME NEW n \in Nat, n % Block = 0 PROVE (n \div Block) * Block = n
    BY <1>1, <1>3
  <1>4. 0 \div Block = 0 /\ \A n \in Nat : n \div Block \in Nat
    BY <1>1
  <1> QED
    BY <1>2, <1>3, <1>4 DEF ToBlocks, ToBytes

\* The steps that change data or make an object.
Writers == {"create", "snap", "format", "copy", "resize"}

LEMMA GoKept ==
  ASSUME Sound, Told, Held, Data, NEW t \in Threads, Steps(t), NEW l, l = loc[t], NEW m, Go(t, m), LocData(m)',
         l.pc \notin Writers \/ \A i \in Ids : Exists(i)' /\ object'[i] # object[i] => DataOf(i)',
         Sized => LocSized(m)',
         Sized => \A i \in Ids : Exists(i)' /\ (~Exists(i) \/ Makes(l, i)) =>
                     i \in KnownIds' \/ Makes(m, i) \/ Left(i)',
         \A a \in answers' : a \in answers \/ (CopiedOf(a)' /\ (Sized => SizedOf(a)' /\ RepeatedOf(a)'))
  PROVE  Data' /\ (Sized => Sized')
  <1>1. Data'
    BY DataStep DEF Writers
  <1>2. Sized => Sized'
    BY SizedStep
  <1> QED
    BY <1>1, <1>2

\* No object is made.
LEMMA NoneIsMade ==
  ASSUME NEW t \in Threads, Steps(t), NEW l, l = loc[t], l.pc \notin {"create", "snap"} \/ UNCHANGED arrayVars
  PROVE  \A i \in Ids : Exists(i)' => Exists(i)
  BY DEF Steps, Calm, arrayVars, Exists

LEMMA ThenKept ==
  ASSUME Sound, Told, Held, Data, NEW t \in Threads, Steps(t), NEW l, l = loc[t], NEW m, Then(t, m),
         m.call = l.call, m.id = l.id, m.pc # "smaster", LocData(m)', Sized => LocSized(m)',
         \/ l.pc \notin Writers \/ UNCHANGED arrayVars
         \/ l.pc \notin {"create", "snap"} /\ \A i \in Ids : Exists(i)' /\ object'[i] # object[i] => DataOf(i)'
  PROVE  Data' /\ (Sized => Sized')
  <1>1. Go(t, m) /\ answers' = answers
    BY DEF Then
  <1>2. \A i \in Ids : Exists(i)' => Exists(i)
    BY NoneIsMade DEF Writers
  <1>3. \A i : Makes(l, i) => Makes(m, i)
    BY DEF Makes
  <1>4. l.pc \notin Writers \/ \A i \in Ids : Exists(i)' /\ object'[i] # object[i] => DataOf(i)'
    BY DEF arrayVars
  <1> QED
    BY <1>1, <1>2, <1>3, <1>4, GoKept

LEMMA ReplyKept ==
  ASSUME Sound, Told, Held, Data, NEW t \in Threads, Steps(t), NEW l, l = loc[t],
         NEW status, NEW id, NEW err, Reply(t, status, id, err),
         l.pc \notin Writers \/ \A i \in Ids : Exists(i)' /\ object'[i] # object[i] => DataOf(i)',
         Sized => \A i \in Ids : Exists(i)' /\ (~Exists(i) \/ Makes(l, i)) => i \in KnownIds' \/ Left(i)',
         \A a : a.call = l.call /\ a.status = status /\ a.id = id =>
                   CopiedOf(a)' /\ (Sized => SizedOf(a)' /\ RepeatedOf(a)')
  PROVE  Data' /\ (Sized => Sized')
  <1>1. PICK m : m = Idle
    OBVIOUS
  <1>2. PICK b : b = [call |-> l.call, status |-> status, id |-> id, err |-> err]
    OBVIOUS
  <1>3. Go(t, m) /\ answers' = answers \cup {b} /\ b.call = l.call /\ b.status = status /\ b.id = id
    BY <1>1, <1>2 DEF Reply, Go
  <1>4. LocData(m)' /\ LocSized(m)'
    BY <1>1, IdleIs DEF LocData, LocSized, Copying
  <1> QED
    BY <1>3, <1>4, GoKept

\* An answer that says nothing of an object.
LEMMA EndKept ==
  ASSUME Sound, Told, Held, Data, NEW t \in Threads, Steps(t), NEW l, l = loc[t],
         NEW status, NEW id, NEW err, Reply(t, status, id, err),
         l.pc \notin Writers \/ UNCHANGED arrayVars,
         status # "OK" \/ l.call.op \in Deletes,
         status = "ALREADY_EXISTS" /\ l.call.op = "CreateVolume" => faults' # 0,
         Sized => \A i \in Ids : Exists(i)' /\ Makes(l, i) => Left(i)'
  PROVE  Data' /\ (Sized => Sized')
  <1>1. \A i \in Ids : Exists(i)' => Exists(i)
    BY NoneIsMade DEF Writers
  <1>2. l.pc \notin Writers \/ \A i \in Ids : Exists(i)' /\ object'[i] # object[i] => DataOf(i)'
    BY DEF arrayVars
  <1>3. ASSUME NEW a, a.call = l.call, a.status = status, a.id = id
        PROVE  CopiedOf(a)' /\ SizedOf(a)' /\ RepeatedOf(a)'
    BY <1>3 DEF CopiedOf, SizedOf, RepeatedOf, Creates, Deletes
  <1> QED
    BY <1>1, <1>2, <1>3, ReplyKept

LEMMA UndoKept ==
  ASSUME Sound, Told, Held, Data, NEW t \in Threads, Steps(t), NEW l, l = loc[t],
         l.pc \notin Writers \/ UNCHANGED arrayVars, NEW err, NEW rounds, Undo(t, err, rounds)
  PROVE  Data' /\ (Sized => Sized')
  <1>1. l \in LocRecs /\ faults' \in Nat /\ Tries \in Nat
    BY ThreadIs, ProvisioningAssumption DEF Steps, Sound, Counted
  <1>2. PICK m : m = [l EXCEPT !.pc = "find", !.undo = err, !.tries = Tries, !.rounds = rounds]
    OBVIOUS
  <1>3. Then(t, m) /\ m.pc = "find" /\ m.call = l.call /\ m.id = l.id /\ m.tries = Tries
    BY <1>1, <1>2 DEF Undo, LocRecs
  <1>4. LocData(m)' /\ LocSized(m)'
    BY <1>1, <1>3 DEF LocData, LocSized, Copying
  <1> QED
    BY <1>3, <1>4, ThenKept

LEMMA CreateStatusIs ==
  ASSUME NEW ex, ex \notin {"none", "NotImplementedError", "VolumeAlreadyExists"}
  PROVE  Status("CreateVolume", ex) # "ALREADY_EXISTS"
  <1>1. Status("CreateVolume", ex) = CreateVolumeStatus(ex)
    BY DEF Status
  <1>2. CommonStatus(ex) \in {"INVALID_ARGUMENT", "NOT_FOUND", "PERMISSION_DENIED", "FAILED_PRECONDITION",
                              "INTERNAL"}
    BY DEF CommonStatus
  <1> QED
    BY <1>1, <1>2 DEF CreateVolumeStatus

LEMMA UndoNextKept ==
  ASSUME Sound, Told, Held, Data, NEW t \in Threads, Steps(t), NEW l, l = loc[t], l.undo # NoError,
         NEW err \in Errs, UndoNext(t, err), err.ex # "VolumeAlreadyExists",
         Exists(l.id)' => err # NoError /\ faults' = faults + 1
  PROVE  Data' /\ (Sized => Sized')
  <1>1. /\ l \in LocRecs /\ l.pc \in Undoing /\ l.call.op = "CreateVolume" /\ l.undo \in Raised
        /\ l.undo.ex # "VolumeAlreadyExists" /\ l.tries \in Nat /\ l.tries > 0 /\ l.id < nextId
    BY ThreadTold DEF InStep, LocTold, LocRecs, Errs
  <1>2. l.pc \notin Writers
    BY <1>1 DEF Undoing, Writers
  <1>3. faults \in Nat /\ faults' \in Nat /\ Tries \in Nat /\ Ages
    BY ProvisioningAssumption DEF Steps, Sound, Counted
  <1>4. Sized /\ Exists(l.id)' => Tries <= faults' + l.tries - 1
    <2> SUFFICES ASSUME Sized, Exists(l.id)' PROVE Tries <= faults' + l.tries - 1
      OBVIOUS
    <2>1. Exists(l.id)
      BY <1>1, <1>3 DEF Ages, Exists
    <2>2. Tries <= faults + l.tries
      BY <2>1 DEF Sized, LocSized
    <2> QED
      BY <1>1, <1>3, <2>2
  <1>5. PICK end : end = IF err = NoError THEN l.undo ELSE err
    OBVIOUS
  <1>6. end \in Raised /\ end.ex # "VolumeAlreadyExists"
    BY <1>1, <1>5 DEF Errs
  <1>7. CASE err # NoError /\ l.tries > 1
    <2>1. PICK m : m = [l EXCEPT !.pc = "find", !.tries = @ - 1]
      OBVIOUS
    <2>2. Then(t, m) /\ m.pc = "find" /\ m.call = l.call /\ m.id = l.id /\ m.tries = l.tries - 1
      BY <1>1, <1>7, <2>1 DEF UndoNext, LocRecs
    <2>3. LocData(m)' /\ (Sized => LocSized(m)')
      BY <1>1, <1>3, <1>4, <2>2 DEF LocData, LocSized, Copying
    <2> QED
      BY <1>2, <2>2, <2>3, ThenKept
  <1>8. CASE ~(err # NoError /\ l.tries > 1) /\ l.rounds > 1
    <2>1. PICK rounds : rounds = l.rounds - 1
      OBVIOUS
    <2>2. Undo(t, end, rounds)
      BY <1>5, <1>8, <2>1 DEF UndoNext
    <2> QED
      BY <1>2, <2>2, UndoKept
  <1>9. CASE ~(err # NoError /\ l.tries > 1) /\ ~(l.rounds > 1)
    <2>1. PICK status : status = Status("CreateVolume", end.ex)
      OBVIOUS
    <2>2. Reply(t, status, NoId, end)
      BY <1>5, <1>9, <2>1 DEF UndoNext
    <2>3. status # "OK" /\ status # "ALREADY_EXISTS"
      BY <1>6, <2>1, StatusIs, RaisedHas, CreateStatusIs DEF Ops, Creates, Deletes
    <2>4. Sized => \A i \in Ids : Exists(i)' /\ Makes(l, i) => Left(i)'
      <3> SUFFICES ASSUME Sized, Exists(l.id)' PROVE Tries <= faults'
        BY DEF Makes, Left
      <3>1. l.tries = 1
        BY <1>1, <1>9
      <3> QED
        BY <1>3, <1>4, <3>1
    <2> QED
      BY <1>2, <2>2, <2>3, <2>4, EndKept
  <1> QED
    BY <1>7, <1>8, <1>9

LEMMA RaiseKept ==
  ASSUME Sound, Told, Held, Data, NEW t \in Threads, Steps(t), NEW l, l = loc[t], UNCHANGED arrayVars,
         NEW by, NEW ex, [by |-> by, ex |-> ex] \in Raised, Raise(t, by, ex), ex # "VolumeAlreadyExists",
         (l.undo # NoError \/ l.pc = "cmaster") /\ Exists(l.id) => faults' = faults + 1
  PROVE  Data' /\ (Sized => Sized')
  <1>1. PICK err : err = [by |-> by, ex |-> ex]
    OBVIOUS
  <1>2. err \in Raised /\ err \in Errs /\ err # NoError /\ err.ex = ex /\ err.ex \notin {"none", "NotImplementedError"}
    BY <1>1, RaisedHas
  <1>3. l.call.op \in Ops /\ InStep(l) /\ LocTold(l) /\ l.pc # "idle"
    BY ThreadTold, ThreadIs DEF Steps, CallOK
  <1>4. \A i : Exists(i)' = Exists(i) /\ IsSnapshot(i)' = IsSnapshot(i)
    BY DEF arrayVars, Exists, IsSnapshot
  <1>5. faults \in Nat /\ faults' \in Nat
    BY DEF Steps, Sound, Counted
  <1>6. CASE l.undo # NoError
    BY <1>1, <1>2, <1>4, <1>6, UndoNextKept DEF Raise
  <1>7. CASE l.undo = NoError /\ l.pc \in Copying
    BY <1>1, <1>7, UndoKept DEF Raise
  <1>8. CASE l.undo = NoError /\ l.pc \notin Copying
    <2>1. PICK status : status = Status(l.call.op, ex)
      OBVIOUS
    <2>2. PICK id : id = IF status = "OK" THEN l.id ELSE NoId
      OBVIOUS
    <2>3. Reply(t, status, id, err)
      BY <1>1, <1>8, <2>1, <2>2 DEF Raise
    <2>4. status # "OK" \/ l.call.op \in Deletes
      BY <1>2, <1>3, <2>1, StatusIs
    <2>5. status = "ALREADY_EXISTS" => l.call.op # "CreateVolume"
      BY <1>2, <2>1, CreateStatusIs
    <2>6. ASSUME NEW i \in Ids, Exists(i)', Makes(l, i) PROVE Left(i)'
      <3>1. Exists(l.id) /\ i = l.id /\ l.call.op \in Creates /\ l.pc # "smaster" /\ l.id # NoId
        BY <1>4, <2>6, ObjectIs DEF Makes, Sound, NoId
      <3>2. l.pc = "cmaster"
        <4>1. l.pc \in {"lookup", "create"} \cup Snapping
          BY <1>3, <1>8, <3>1, ThreadIs
          DEF InStep, Creates, Deletes, Undoing, Removing, Expanding, LocRecs, Pcs
        <4> QED
          BY <1>3, <3>1, <4>1 DEF LocTold, Snapping
      <3> QED
        BY <1>3, <1>4, <1>5, <3>1, <3>2 DEF LocTold, Left
    <2> QED
      BY <2>3, <2>4, <2>5, <2>6, EndKept
  <1> QED
    BY <1>6, <1>7, <1>8

LEMMA OkIsKnown ==
  ASSUME NEW t \in Threads, NEW id, NEW err, Reply(t, "OK", id, err), loc[t].call.op \in Creates
  PROVE  id \in KnownIds'
  <1>1. PICK a, k : /\ a = [call |-> loc[t].call, status |-> "OK", id |-> id, err |-> err]
                    /\ k = [id |-> id, name |-> loc[t].call.name, op |-> loc[t].call.op]
    OBVIOUS
  <1>2. a \in OkTo(Creates)'
    BY <1>1 DEF Reply, OkTo
  <1>3. k \in Known' /\ k.id = id
    BY <1>1, <1>2 DEF Known
  <1> QED
    BY <1>3 DEF KnownIds

\* The volume that a repeated CreateVolume finds was answered before.
LEMMA FoundIs ==
  ASSUME Sound, Told, Held, Sized, faults < Tries, NEW t \in Threads, NEW l, l = loc[t], l.pc = "lookup",
         NEW i \in Called(l.call.name), ~IsSnapshot(i)
  PROVE  \E a \in OkTo({"CreateVolume"}) : a.call = l.call /\ a.id = i
  <1>1. Exists(i) /\ object[i].name = l.call.name /\ i \in Ids /\ i # NoId
    BY CalledIs, ObjectIs DEF Sound, NoId
  <1>2. /\ InStep(l) /\ LocTold(l) /\ l.call \in asked /\ CallOK(l.call) /\ l.call.op = "CreateVolume"
        /\ l.id = NoId /\ l.call.name # Source
    BY ThreadTold DEF InStep, LocTold, CallOK, Creates
  <1>3. ~Left(i)
    BY ProvisioningAssumption DEF Left, Sound, Counted
  <1>4. ASSUME NEW u \in Threads, Makes(loc[u], i) PROVE FALSE
    <2>1. PICK v : v = loc[u]
      OBVIOUS
    <2>2. v.call.op \in Creates /\ v.id = i /\ u # t
      BY <1>1, <1>2, <1>4, <2>1 DEF Makes
    <2>3. v.pc # "idle" /\ LocTold(v)
      BY <2>1, <2>2, ThreadTold, IdleIs DEF InStep, Creates
    <2>4. v.call.name = l.call.name
      BY <1>1, <2>2, <2>3 DEF LocTold
    <2> QED
      BY <2>1, <2>2, <2>3, <2>4 DEF Held, Alone
  <1>5. PICK k \in Known : k.id = i
    BY <1>1, <1>3, <1>4 DEF Sized, Owned, KnownIds
  <1>6. k.name = l.call.name /\ k.op = "CreateVolume"
    BY <1>1, <1>5, KnownIs DEF Told, Held, KindIs, Creates
  <1>7. PICK a \in answers : /\ a.status = "OK" /\ a.call.op \in Creates
                             /\ k.id = a.id /\ k.name = a.call.name /\ k.op = a.call.op
    BY <1>2, <1>6, KnownIs
  <1>8. a.call = l.call
    BY <1>2, <1>6, <1>7 DEF Told
  <1> QED
    BY <1>5, <1>6, <1>7, <1>8 DEF OkTo

LEMMA LookupKept ==
  ASSUME Sound, Told, Held, Data, NEW t \in Threads, Steps(t), faults' = faults, Lookup(t)
  PROVE  Data' /\ (Sized => Sized')
  <1>1. PICK l : l = loc[t]
    OBVIOUS
  <1>2. /\ l \in LocRecs /\ l.pc = "lookup" /\ l.call.op = "CreateVolume" /\ l.undo = NoError /\ l.id = NoId
        /\ l.call.size \in Nat
    BY <1>1, ThreadTold DEF Lookup, InStep, LocTold, LocRecs, CallRecs
  <1>3. /\ UNCHANGED arrayVars /\ object' = object /\ gen3' = gen3 /\ torn' = torn /\ asked' = asked
        /\ \A j : Exists(j)' = Exists(j)
    BY ReadOnlyIs DEF Lookup, ReadOnly, Steps
  <1>4. l.pc \notin Writers /\ \A j \in Ids : ~Makes(l, j)
    BY <1>2, ArrayAssumption DEF Writers, Makes, Ids, NoId
  <1>5. faults \in Nat /\ Tries \in Nat \ {0}
    BY ProvisioningAssumption DEF Sound, Counted
  <1>6. CASE Refuse(t, "OUT_OF_RANGE")
    BY <1>1, <1>4, <1>6, EndKept DEF Refuse
  <1>7. CASE To(t, "create")
    <2>1. PICK m : m = [l EXCEPT !.pc = "create"]
      OBVIOUS
    <2>2. m.pc = "create" /\ m.call = l.call /\ m.id = l.id /\ m.undo = NoError /\ Then(t, m)
      BY <1>1, <1>2, <1>7, <2>1 DEF LocRecs, To
    <2>3. LocData(m)' /\ LocSized(m)'
      BY <2>2 DEF LocData, LocSized, Copying
    <2> QED
      BY <1>1, <1>3, <2>2, <2>3, ThenKept
  <1>8. CASE Raise(t, "get_volume", "VolumeNameBelongsToSnapshotError")
    BY <1>1, <1>2, <1>3, <1>8, RaiseKept, RaisedIs
  <1>9. ASSUME NEW i \in Called(l.call.name), ~IsSnapshot(i), Fits(l.call, i), Reply(t, "OK", i, NoError)
        PROVE  Data' /\ (Sized => Sized')
    <2>1. l.call.source # NoId => object[i].copied = l.call.source
      BY <1>9 DEF Fits, CopySource
    <2>2. ASSUME NEW a, a.call = l.call, a.status = "OK", a.id = i
          PROVE  CopiedOf(a)' /\ (Sized => SizedOf(a)' /\ RepeatedOf(a)')
      <3>1. CopiedOf(a)' /\ RepeatedOf(a)'
        BY <1>3, <2>1, <2>2 DEF CopiedOf, RepeatedOf
      <3>2. ASSUME Sized, faults < Tries PROVE SizedOf(a)'
        <4>1. PICK b \in OkTo({"CreateVolume"}) : b.call = l.call /\ b.id = i
          BY <1>1, <1>2, <1>9, <3>2, FoundIs
        <4>2. SizedOf(b) /\ b.status = "OK"
          BY <3>2, <4>1 DEF Sized, OkTo
        <4>3. Expanded(i)' = Expanded(i) /\ Misled(l.call)' = Misled(l.call)
          BY <1>3 DEF Expanded, Misled
        <4> QED
          BY <1>3, <2>2, <4>1, <4>2, <4>3 DEF SizedOf
      <3>3. ~(faults < Tries) => SizedOf(a)'
        BY DEF SizedOf
      <3> QED
        BY <3>1, <3>2, <3>3
    <2> QED
      BY <1>1, <1>3, <1>4, <1>9, <2>2, ReplyKept
  <1>10. ASSUME NEW i \in Called(l.call.name), ~IsSnapshot(i), ~Fits(l.call, i), Refuse(t, "ALREADY_EXISTS")
         PROVE  Data' /\ (Sized => Sized')
    <2>1. ASSUME NEW b, b.call = l.call, b.status = "ALREADY_EXISTS", b.id = NoId
          PROVE  CopiedOf(b)' /\ (Sized => SizedOf(b)' /\ RepeatedOf(b)')
      <3>1. CopiedOf(b)' /\ SizedOf(b)'
        BY <2>1 DEF CopiedOf, SizedOf
      <3>2. ASSUME Sized, faults = 0 PROVE \E a \in OkTo({"CreateVolume"})' : a.call = b.call /\ Excused(a)'
        <4>1. PICK a \in OkTo({"CreateVolume"}) : a.call = l.call /\ a.id = i
          BY <1>1, <1>2, <1>5, <1>10, <3>2, FoundIs
        <4>2. a \in OkTo({"CreateVolume"})' /\ a \in answers /\ a.status = "OK"
          BY <4>1 DEF OkTo, Steps
        <4>3. Exists(i) /\ i \in Ids
          BY <1>10 DEF Called
        <4>4. Excused(a)
          <5> SUFFICES ASSUME a.call.size # 0, a.call.size % Block = 0, ~Expanded(i), ~Misled(a.call),
                              ~(gen3 /\ a.call.source # NoId)
                       PROVE  Fits(l.call, i)
            BY <1>10, <4>1 DEF Excused
          <5>1. CASE l.call.source = NoId
            <6>1. object[i].copied = NoId /\ object[i].blocks = ToBlocks(Required(l.call))
              BY <1>2, <1>5, <3>2, <4>1, <4>2, <4>3, <5>1 DEF Sized, SizedOf
            <6>2. ToBytes(object[i].blocks) = l.call.size
              BY <1>2, <4>1, <6>1, BlocksAre DEF Required
            <6> QED
              BY <5>1, <6>1, <6>2 DEF Fits, CopySource
          <5>2. CASE l.call.source # NoId
            <6>1. object[i].copied = l.call.source
              BY <1>2, <4>1, <4>2, <4>3, <5>2 DEF Data, CopiedOf, Creates
            <6> QED
              BY <4>1, <5>2, <6>1 DEF Fits, CopySource
          <5> QED
            BY <5>1, <5>2
        <4>5. Excused(a)'
          BY <1>3, <4>4 DEF Excused, Expanded, Misled
        <4> QED
          BY <2>1, <4>1, <4>2, <4>5
      <3> QED
        BY <3>1, <3>2 DEF RepeatedOf
    <2> QED
      BY <1>1, <1>3, <1>4, <1>10, <2>1, ReplyKept DEF Refuse
  <1> QED
    BY <1>1, <1>6, <1>7, <1>8, <1>9, <1>10 DEF Lookup

\* What is asked of the array covers the request.
LEMMA RequiredIs ==
  ASSUME NEW c \in CallRecs
  PROVE  /\ ToBlocks(Required(c)) \in Nat /\ ToBlocks(c.size) \in Nat
         /\ ToBlocks(c.size) <= ToBlocks(Required(c))
         /\ \A k \in Nat : Required(c) <= ToBytes(k) => ToBlocks(c.size) <= k
  <1>1. c.size \in Nat /\ Required(c) \in Nat
    BY ProvisioningAssumption DEF CallRecs, Required
  <1>2. CASE c.size = 0
    BY <1>1, <1>2, BlocksAre
  <1>3. CASE c.size # 0
    BY <1>1, <1>3, BlocksAre DEF Required
  <1> QED
    BY <1>2, <1>3

LEMMA CreateKept ==
  ASSUME Sound, Told, Held, Data, NEW t \in Threads, Steps(t), faults' = faults, Create(t)
  PROVE  Data' /\ (Sized => Sized')
  <1>1. PICK l : l = loc[t]
    OBVIOUS
  <1>2. /\ l \in LocRecs /\ l.pc = "create" /\ l.call.op = "CreateVolume" /\ l.undo = NoError /\ l.id = NoId
        /\ l.call \in CallRecs /\ l.call.name \in Names /\ Called(l.call.name) = {}
    BY <1>1, ThreadTold DEF Create, InStep, LocTold, LocRecs, CallRecs, Held, LocHeld
  <1>3. \A j \in Ids : ~Makes(l, j)
    BY <1>2, ArrayAssumption DEF Makes, Ids, NoId
  <1>4. PICK n, name, blocks : n = nextId /\ name = l.call.name /\ blocks = ToBlocks(Required(l.call))
    OBVIOUS
  <1>5. blocks \in Nat /\ ToBlocks(l.call.size) \in Nat /\ ToBlocks(l.call.size) <= blocks
    BY <1>2, <1>4, RequiredIs
  <1>6. /\ VolCreate(name, blocks) /\ Called(name) = {} /\ name \in Names
        /\ IF l.call.source = NoId THEN Reply(t, "OK", n, NoError)
           ELSE Then(t, [l EXCEPT !.pc = "findSource", !.id = n])
    BY <1>1, <1>2, <1>4 DEF Create
  <1>7. /\ Added(n) /\ object'[n].blocks = blocks /\ object'[n].master = NoId
        /\ object'[n].copied = NoId /\ object'[n].data = NoId
    BY <1>4, <1>5, <1>6, CreateDoes DEF Sound
  <1>8. \A i \in Ids : Exists(i)' /\ object'[i] # object[i] => DataOf(i)'
    BY <1>7 DEF Added, DataOf, IsSnapshot
  <1>9. \A i \in Ids : Exists(i)' /\ ~Exists(i) => i = n
    BY <1>7 DEF Added
  <1>10. CASE l.call.source = NoId
    <2>1. Reply(t, "OK", n, NoError)
      BY <1>6, <1>10
    <2>2. n \in KnownIds'
      BY <1>1, <1>2, <2>1, OkIsKnown DEF Creates
    <2>3. ASSUME NEW a, a.call = l.call, a.status = "OK", a.id = n
          PROVE  CopiedOf(a)' /\ SizedOf(a)' /\ RepeatedOf(a)'
      BY <1>4, <1>5, <1>7, <1>10, <2>3 DEF CopiedOf, SizedOf, RepeatedOf
    <2> QED
      BY <1>1, <1>3, <1>8, <1>9, <2>1, <2>2, <2>3, ReplyKept
  <1>11. CASE l.call.source # NoId
    <2>1. PICK m : m = [l EXCEPT !.pc = "findSource", !.id = n]
      OBVIOUS
    <2>2. /\ m.pc = "findSource" /\ m.call = l.call /\ m.undo = NoError /\ m.id = n /\ Go(t, m)
          /\ answers' = answers
      BY <1>2, <1>6, <1>11, <2>1 DEF LocRecs, Then
    <2>3. LocData(m)' /\ LocSized(m)'
      BY <1>7, <2>2 DEF LocData, LocSized
    <2>4. Makes(m, n)
      BY <1>2, <2>2 DEF Makes, Creates
    <2> QED
      BY <1>1, <1>3, <1>8, <1>9, <2>2, <2>3, <2>4, GoKept
  <1> QED
    BY <1>10, <1>11

\* A step that only reads, before the copy is made.
LEMMA BeforeCopyKept ==
  ASSUME Sound, Told, Held, Data, NEW t \in Threads, Steps(t), NEW l, l = loc[t], UNCHANGED arrayVars,
         l.pc \in {"findSource", "fmaster", "names"}, NEW m, Then(t, m), m.pc \in {"fmaster", "names", "format"},
         m.call = l.call, m.id = l.id, m.undo = l.undo,
         m.blocks = (IF l.pc = "findSource" THEN object[l.call.source].blocks ELSE l.blocks)
  PROVE  Data' /\ (Sized => Sized')
  <1>1. InStep(l) /\ LocTold(l) /\ LocData(l) /\ l.undo = NoError /\ object' = object
    BY ThreadTold DEF InStep, Copying, Data, arrayVars
  <1>2. \A i : Exists(i)' = Exists(i)
    BY <1>1 DEF Exists
  <1>3. LocData(m)'
    BY <1>1 DEF LocData, Copying
  <1>4. Sized => LocSized(m)'
    <2> SUFFICES ASSUME Sized, Exists(l.call.source) PROVE m.blocks <= object[l.call.source].blocks
      BY <1>1, <1>2 DEF LocSized
    <2>1. object[l.call.source].blocks \in Nat
      BY ObjectIs, SMTT(30) DEF Sound
    <2> QED
      BY <2>1 DEF Sized, LocSized
  <1> QED
    BY <1>3, <1>4, ThenKept

LEMMA FindSourceKept ==
  ASSUME Sound, Told, Held, Data, NEW t \in Threads, Steps(t), faults' = faults, FindSource(t)
  PROVE  Data' /\ (Sized => Sized')
  <1>1. PICK l : l = loc[t]
    OBVIOUS
  <1>2. l \in LocRecs /\ l.pc = "findSource" /\ l.undo = NoError /\ UNCHANGED arrayVars
    BY <1>1, ThreadTold DEF FindSource, InStep, Copying, ReadOnly
  <1>3. ASSUME NEW err, Undo(t, err, 2) PROVE Data' /\ (Sized => Sized')
    BY <1>1, <1>2, <1>3, UndoKept
  <1>4. CASE Raise(t, "get_object_by_id", "ExpectedSnapshotButFoundVolumeError")
    BY <1>1, <1>2, <1>4, RaiseKept, RaisedIs
  <1>5. ASSUME NEW pc \in {"fmaster", "names"}, NEW from, NEW blocks,
               blocks = object[l.call.source].blocks, Then(t, [l EXCEPT !.pc = pc, !.from = from, !.blocks = blocks])
        PROVE  Data' /\ (Sized => Sized')
    <2>1. PICK m : m = [l EXCEPT !.pc = pc, !.from = from, !.blocks = blocks]
      OBVIOUS
    <2>2. m.pc = pc /\ m.call = l.call /\ m.undo = l.undo /\ m.id = l.id /\ m.blocks = blocks /\ Then(t, m)
      BY <1>2, <1>5, <2>1 DEF LocRecs
    <2> QED
      BY <1>1, <1>2, <1>5, <2>2, BeforeCopyKept
  <1> QED
    BY <1>1, <1>3, <1>4, <1>5 DEF FindSource

LEMMA FindNamesKept ==
  ASSUME Sound, Told, Held, Data, NEW t \in Threads, Steps(t), faults' = faults, FindNames(t)
  PROVE  Data' /\ (Sized => Sized')
  <1>1. PICK l : l = loc[t]
    OBVIOUS
  <1>2. l \in LocRecs /\ l.pc = "names" /\ l.undo = NoError /\ UNCHANGED arrayVars
    BY <1>1, ThreadTold DEF FindNames, InStep, Copying, ReadOnly
  <1>3. CASE Raise(t, "copy_to_existing_volume_from_source", "ObjectNotFoundError")
    BY <1>1, <1>2, <1>3, RaiseKept, RaisedIs
  <1>4. ASSUME NEW n, Then(t, [l EXCEPT !.pc = "format", !.from = n]) PROVE Data' /\ (Sized => Sized')
    <2>1. PICK m : m = [l EXCEPT !.pc = "format", !.from = n]
      OBVIOUS
    <2>2. m.pc = "format" /\ m.call = l.call /\ m.undo = l.undo /\ m.id = l.id /\ m.blocks = l.blocks /\ Then(t, m)
      BY <1>2, <1>4, <2>1 DEF LocRecs
    <2> QED
      BY <1>1, <1>2, <2>2, BeforeCopyKept
  <1> QED
    BY <1>1, <1>3, <1>4 DEF FindNames

LEMMA FindMasterKept ==
  ASSUME Sound, Told, Held, Data, NEW t \in Threads, Steps(t), faults' = faults, FindMaster(t)
  PROVE  Data' /\ (Sized => Sized')
  <1>1. PICK l : l = loc[t]
    OBVIOUS
  <1>2. /\ l \in LocRecs /\ InStep(l) /\ LocTold(l) /\ LocData(l) /\ l.undo = NoError
        /\ l.pc \in {"fmaster", "smaster", "cmaster"} /\ l.pc \notin Writers /\ UNCHANGED arrayVars
        /\ l.pc \in {"smaster", "cmaster"} => l.call.op = "CreateSnapshot"
    BY <1>1, ThreadTold DEF FindMaster, InStep, Copying, Snapping, ReadOnly, Data, Writers
  <1>3. object' = object /\ \A i : Exists(i)' = Exists(i)
    BY <1>2 DEF arrayVars, Exists
  <1>4. ASSUME NEW by \in {"get_object_by_id", "get_snapshot", "create_snapshot"}, Raise(t, by, "AttributeError"),
               l.pc = "cmaster" => ~Exists(l.id)
        PROVE  Data' /\ (Sized => Sized')
    BY <1>1, <1>2, <1>4, RaiseKept, RaisedIs
  <1>5. CASE l.pc = "fmaster" /\ To(t, "names")
    <2>1. PICK m : m = [l EXCEPT !.pc = "names"]
      OBVIOUS
    <2>2. m.pc = "names" /\ m.call = l.call /\ m.undo = l.undo /\ m.id = l.id /\ m.blocks = l.blocks /\ Then(t, m)
      BY <1>1, <1>2, <1>5, <2>1 DEF LocRecs, To
    <2> QED
      BY <1>1, <1>2, <1>5, <2>2, BeforeCopyKept
  <1>6. CASE l.pc = "smaster" /\ Refuse(t, "ALREADY_EXISTS")
    BY <1>1, <1>2, <1>6, EndKept DEF Refuse, Makes
  <1>7. CASE /\ l.pc \in {"smaster", "cmaster"} /\ Exists(l.id) /\ Ok(t)
             /\ object[l.id].master = l.call.source
    <2>1. PICK id : id = l.id
      OBVIOUS
    <2>2. Reply(t, "OK", id, NoError) /\ id \in KnownIds'
      BY <1>1, <1>2, <1>7, <2>1, OkIsKnown DEF Ok, Creates
    <2>3. object[id].copied = l.call.source
      BY <1>2, <1>7, <2>1 DEF Data, DataOf, LocTold, Exists
    <2>4. ASSUME NEW a, a.call = l.call, a.status = "OK", a.id = id
          PROVE  CopiedOf(a)' /\ SizedOf(a)' /\ RepeatedOf(a)'
      BY <1>2, <1>3, <1>7, <2>3, <2>4 DEF CopiedOf, SizedOf, RepeatedOf
    <2> QED
      BY <1>1, <1>2, <1>3, <2>1, <2>2, <2>4, ReplyKept DEF Makes
  <1>8. l.pc = "cmaster" /\ Exists(l.id) => object[l.id].master = l.call.source
    BY <1>2 DEF LocData
  <1>9. l.pc \in {"smaster", "cmaster"} /\ Called(l.from) # {} => Exists(l.id)
    BY <1>1 DEF Held, LocHeld, Lost, Gone
  <1>10. ASSUME l.pc \in {"smaster", "cmaster"}, Exists(l.id) PROVE Called(l.from) = {object[l.id].master}
    <2>1. IsSnapshot(l.id) /\ Traced(l) /\ l.id \in Ids
      BY <1>2, <1>10 DEF LocTold, Exists
    <2>2. PICK v \in Ids : v = object[l.id].master /\ Exists(v)
      BY <1>10, <2>1 DEF Sound, Arrayed
    <2>3. object[v].name = l.from
      BY <2>1, <2>2 DEF Traced
    <2> QED
      BY <2>2, <2>3, CalledIs DEF Sound
  <1>11. CASE Called(l.from) = {}
    BY <1>1, <1>2, <1>4, <1>10, <1>11 DEF FindMaster
  <1>12. CASE Called(l.from) # {}
    BY <1>1, <1>2, <1>5, <1>6, <1>7, <1>8, <1>9, <1>10, <1>12 DEF FindMaster
  <1> QED
    BY <1>11, <1>12

\* A copying call: its volume, and its source, which is another object.
LEMMA CopyingIs ==
  ASSUME Sound, Told, Held, Data, NEW t \in Threads, NEW l, l = loc[t], l.pc \in Copying
  PROVE  /\ l \in LocRecs /\ LocTold(l) /\ LocData(l) /\ l.undo = NoError /\ l.call.op = "CreateVolume"
         /\ l.call \in CallRecs /\ Exists(l.id) /\ l.id \in Ids /\ ~IsSnapshot(l.id) /\ l.id \notin KnownIds
         /\ l.call.source # NoId /\ l.call.source \in KnownIds /\ l.call.source # l.id
  <1>1. /\ l \in LocRecs /\ InStep(l) /\ LocTold(l) /\ LocData(l) /\ LocHeld(l) /\ CallOK(l.call)
    BY ThreadTold DEF Data, Held, Copying
  <1>2. /\ l.undo = NoError /\ l.call.op = "CreateVolume" /\ l.call \in CallRecs /\ Exists(l.id)
        /\ l.id \notin KnownIds /\ l.call.source # NoId
    BY <1>1 DEF InStep, LocRecs, LocHeld, LocTold
  <1>3. l.id \in Ids /\ ~IsSnapshot(l.id)
    BY <1>1, <1>2 DEF LocHeld, Exists
  <1>4. l.call.source \in KnownIds
    BY <1>1, <1>2 DEF CallOK, KnownIds
  <1> QED
    BY <1>1, <1>2, <1>3, <1>4

LEMMA FormatKept ==
  ASSUME Sound, Told, Held, Data, NEW t \in Threads, Steps(t), faults' = faults, Format(t)
  PROVE  Data' /\ (Sized => Sized')
  <1>1. PICK l : l = loc[t]
    OBVIOUS
  <1>2. l.pc = "format" /\ l.pc \in Copying
    BY <1>1 DEF Format, Copying
  <1>3. /\ l \in LocRecs /\ LocData(l) /\ l.undo = NoError /\ Exists(l.id) /\ l.id \in Ids /\ ~IsSnapshot(l.id)
        /\ l.call.source # l.id
    BY <1>1, <1>2, CopyingIs
  <1>4. CASE UNCHANGED arrayVars /\ Raise(t, "copy_to_existing_volume_from_source", "ObjectNotFoundError")
    BY <1>1, <1>2, <1>3, <1>4, RaiseKept, RaisedIs
  <1>5. ASSUME NEW i \in Called(l.call.name), VolFormat(i), To(t, "copy") PROVE Data' /\ (Sized => Sized')
    <2>1. i = l.id
      BY <1>1, <1>2, <1>3, <1>5, TargetIs
    <2>2. Touched(i) /\ object'[i].copied = object[i].copied
      BY <1>3, <1>5, <2>1, FormatDoes DEF Sound
    <2>3. object'[i].copied = NoId /\ object'[i].master = NoId
      BY <1>2, <1>3, <2>1, <2>2 DEF LocData, Touched, IsSnapshot
    <2>4. \A j \in Ids : Exists(j)' /\ object'[j] # object[j] => DataOf(j)'
      BY <2>2, <2>3 DEF Touched, DataOf, IsSnapshot
    <2>5. PICK m : m = [l EXCEPT !.pc = "copy"]
      OBVIOUS
    <2>6. m.pc = "copy" /\ m.call = l.call /\ m.undo = l.undo /\ m.id = l.id /\ m.blocks = l.blocks /\ Then(t, m)
      BY <1>1, <1>3, <1>5, <2>5 DEF LocRecs, To
    <2>7. LocData(m)'
      BY <2>1, <2>3, <2>6 DEF LocData
    <2>8. Sized => LocSized(m)'
      <3> SUFFICES ASSUME Sized, Exists(l.call.source)' PROVE m.blocks <= object'[l.call.source].blocks
        BY <1>3, <2>6 DEF LocSized
      <3>1. Exists(l.call.source) /\ object'[l.call.source] = object[l.call.source]
        BY <1>3, <2>1, <2>2 DEF Touched, Exists
      <3> QED
        BY <1>1, <1>2, <2>6, <3>1 DEF Sized, LocSized
    <2> QED
      BY <1>1, <1>2, <2>4, <2>6, <2>7, <2>8, ThenKept
  <1> QED
    BY <1>1, <1>4, <1>5 DEF Format

LEMMA CopyKept ==
  ASSUME Sound, Told, Held, Data, NEW t \in Threads, Steps(t), faults' = faults, Copy(t)
  PROVE  Data' /\ (Sized => Sized')
  <1>1. PICK l : l = loc[t]
    OBVIOUS
  <1>2. l.pc = "copy" /\ l.pc \in Copying /\ torn' = torn
    BY <1>1 DEF Copy, Copying, Steps
  <1>3. /\ l \in LocRecs /\ LocTold(l) /\ LocData(l) /\ l.undo = NoError /\ Exists(l.id) /\ l.id \in Ids
        /\ ~IsSnapshot(l.id) /\ l.call.op = "CreateVolume" /\ l.call \in CallRecs /\ l.call.source # NoId
        /\ l.blocks \in Nat
    BY <1>1, <1>2, CopyingIs DEF LocRecs
  <1>4. CASE UNCHANGED arrayVars /\ Raise(t, "copy_to_existing_volume_from_source", "ObjectNotFoundError")
    BY <1>1, <1>2, <1>3, <1>4, RaiseKept, RaisedIs
  <1>5. ASSUME NEW s \in Called(l.from), NEW i \in Called(l.call.name), VolCopy(s, i),
               IF Required(l.call) > ToBytes(l.blocks) THEN To(t, "resize") ELSE Ok(t)
        PROVE  Data' /\ (Sized => Sized')
    <2>1. i = l.id
      BY <1>1, <1>2, <1>3, <1>5, TargetIs
    <2>2. Exists(s) /\ (s = l.call.source \/ Misled(l.call))
      BY <1>2, <1>3, SourceIs
    <2>3. Touched(i) /\ object'[i].copied = s /\ object'[i].data = s /\ object'[i].blocks = object[s].blocks
      BY <1>3, <1>5, <2>1, <2>2, CopyDoes DEF Sound
    <2>4. object'[i].master = NoId
      BY <1>3, <2>1, <2>3 DEF Touched, IsSnapshot
    <2>5. \A j \in Ids : Exists(j)' /\ object'[j] # object[j] => DataOf(j)'
      BY <2>3, <2>4 DEF Touched, DataOf, IsSnapshot
    <2>6. \A j \in Ids : Exists(j)' => Exists(j)
      BY <2>3 DEF Touched
    <2>7. Misled(l.call)' = Misled(l.call)
      BY <1>2 DEF Misled
    <2>8. CASE To(t, "resize")
      <3>1. PICK m : m = [l EXCEPT !.pc = "resize"]
        OBVIOUS
      <3>2. m.pc = "resize" /\ m.call = l.call /\ m.undo = l.undo /\ m.id = l.id /\ Then(t, m)
        BY <1>1, <1>3, <2>8, <3>1 DEF LocRecs, To
      <3>3. LocData(m)' /\ LocSized(m)'
        BY <1>3, <2>1, <2>2, <2>3, <2>7, <3>2 DEF LocData, LocSized
      <3> QED
        BY <1>1, <1>2, <2>5, <3>2, <3>3, ThenKept
    <2>9. CASE Ok(t) /\ ~(Required(l.call) > ToBytes(l.blocks))
      <3>1. Reply(t, "OK", i, NoError) /\ i \in KnownIds'
        BY <1>1, <1>3, <2>1, <2>9, OkIsKnown DEF Ok, Creates
      <3>2. Sized => object'[i].blocks >= ToBlocks(l.call.size) \/ Misled(l.call)
        <4> SUFFICES ASSUME Sized, s = l.call.source PROVE object'[i].blocks >= ToBlocks(l.call.size)
          BY <2>2
        <4>1. l.blocks <= object[s].blocks /\ object[s].blocks \in Nat
          BY <1>1, <1>2, <2>2, ObjectIs DEF Sized, LocSized, Sound
        <4>2. Required(l.call) <= ToBytes(l.blocks)
          BY <1>3, <2>9, ProvisioningAssumption DEF Required, ToBytes, CallRecs
        <4>3. ToBlocks(l.call.size) <= l.blocks /\ ToBlocks(l.call.size) \in Nat
          BY <1>3, <4>2, RequiredIs
        <4> QED
          BY <1>3, <2>3, <4>1, <4>3
      <3>3. ASSUME NEW a, a.call = l.call, a.status = "OK", a.id = i
            PROVE  CopiedOf(a)' /\ (Sized => SizedOf(a)' /\ RepeatedOf(a)')
        <4>1. CopiedOf(a)' /\ RepeatedOf(a)'
          BY <2>2, <2>3, <2>7, <3>3 DEF CopiedOf, RepeatedOf
        <4>2. Sized => SizedOf(a)'
          BY <1>3, <2>7, <3>2, <3>3 DEF SizedOf
        <4> QED
          BY <4>1, <4>2
      <3> QED
        BY <1>1, <2>1, <2>5, <2>6, <3>1, <3>3, ReplyKept DEF Makes
    <2> QED
      BY <1>5, <2>8, <2>9
  <1> QED
    BY <1>1, <1>4, <1>5 DEF Copy

LEMMA ResizeKept ==
  ASSUME Sound, Told, Held, Data, NEW t \in Threads, Steps(t), faults' = faults, Resize(t)
  PROVE  Data' /\ (Sized => Sized')
  <1>1. PICK l : l = loc[t]
    OBVIOUS
  <1>2. l.pc = "resize" /\ l.pc \in Copying /\ torn' = torn
    BY <1>1 DEF Resize, Copying, Steps
  <1>3. /\ l \in LocRecs /\ LocData(l) /\ l.undo = NoError /\ Exists(l.id) /\ l.id \in Ids
        /\ ~IsSnapshot(l.id) /\ l.call.op = "CreateVolume" /\ l.call \in CallRecs /\ l.call.source # NoId
    BY <1>1, <1>2, CopyingIs
  <1>4. CASE /\ UNCHANGED arrayVars
             /\ \/ Raise(t, "copy_to_existing_volume_from_source", "ObjectNotFoundError")
                \/ Raise(t, "copy_to_existing_volume_from_source", "XCLIError")
    BY <1>1, <1>2, <1>3, <1>4, RaiseKept, RaisedIs
  <1>5. PICK blocks : blocks = ToBlocks(Required(l.call))
    OBVIOUS
  <1>6. blocks \in Nat /\ ToBlocks(l.call.size) \in Nat /\ ToBlocks(l.call.size) <= blocks
    BY <1>3, <1>5, RequiredIs
  <1>7. ASSUME NEW i \in Called(l.call.name), VolResize(i, blocks), Ok(t) PROVE Data' /\ (Sized => Sized')
    <2>1. i = l.id
      BY <1>1, <1>2, <1>3, <1>7, TargetIs
    <2>2. /\ Touched(i) /\ object'[i].blocks = blocks /\ object'[i].copied = object[i].copied
          /\ object'[i].data = object[i].data
      BY <1>3, <1>6, <1>7, <2>1, ResizeDoes DEF Sound
    <2>3. DataOf(i)'
      BY <1>3, <2>1, <2>2 DEF Data, DataOf, IsSnapshot, Touched
    <2>4. \A j \in Ids : Exists(j)' /\ object'[j] # object[j] => DataOf(j)'
      BY <2>2, <2>3 DEF Touched
    <2>5. \A j \in Ids : Exists(j)' => Exists(j)
      BY <2>2 DEF Touched
    <2>6. object'[i].copied = l.call.source \/ Misled(l.call)'
      BY <1>2, <1>3, <2>1, <2>2 DEF LocData, Misled
    <2>7. Reply(t, "OK", i, NoError) /\ i \in KnownIds'
      BY <1>1, <1>3, <1>7, <2>1, OkIsKnown DEF Ok, Creates
    <2>8. ASSUME NEW a, a.call = l.call, a.status = "OK", a.id = i
          PROVE  CopiedOf(a)' /\ SizedOf(a)' /\ RepeatedOf(a)'
      BY <1>3, <1>6, <2>2, <2>6, <2>8 DEF CopiedOf, SizedOf, RepeatedOf
    <2> QED
      BY <1>1, <2>1, <2>4, <2>5, <2>7, <2>8, ReplyKept DEF Makes
  <1> QED
    BY <1>1, <1>4, <1>5, <1>7 DEF Resize

LEMMA SnapshotLookupKept ==
  ASSUME Sound, Told, Held, Data, NEW t \in Threads, Steps(t), faults' = faults, SnapshotLookup(t)
  PROVE  Data' /\ (Sized => Sized')
  <1>1. PICK l : l = loc[t]
    OBVIOUS
  <1>2. /\ l \in LocRecs /\ l.pc = "slook" /\ l.call.op = "CreateSnapshot" /\ l.undo = NoError /\ l.id = NoId
        /\ l.pc \notin Writers /\ UNCHANGED arrayVars
    BY <1>1, ThreadTold DEF SnapshotLookup, InStep, Snapping, LocTold, Writers, ReadOnly
  <1>3. object' = object /\ \A i : Exists(i)' = Exists(i)
    BY <1>2 DEF arrayVars, Exists
  <1>4. \A j \in Ids : ~Makes(l, j)
    BY <1>2, ArrayAssumption DEF Makes, Ids, NoId
  <1>5. CASE Refuse(t, "ALREADY_EXISTS")
    BY <1>1, <1>2, <1>4, <1>5, EndKept DEF Refuse
  <1>6. CASE To(t, "ssource")
    <2>1. PICK m : m = [l EXCEPT !.pc = "ssource"]
      OBVIOUS
    <2>2. m.pc = "ssource" /\ m.call = l.call /\ m.id = l.id /\ m.undo = NoError /\ Then(t, m)
      BY <1>1, <1>2, <1>6, <2>1 DEF LocRecs, To
    <2>3. LocData(m)' /\ LocSized(m)'
      BY <2>2 DEF LocData, LocSized, Copying
    <2> QED
      BY <1>1, <1>2, <2>2, <2>3, ThenKept
  <1>7. CASE Raise(t, "get_snapshot", "ExpectedSnapshotButFoundVolumeError")
    BY <1>1, <1>2, <1>7, RaiseKept, RaisedIs
  <1>8. ASSUME NEW i, NEW from, Then(t, [l EXCEPT !.pc = "smaster", !.id = i, !.from = from])
        PROVE  Data' /\ (Sized => Sized')
    <2>1. PICK m : m = [l EXCEPT !.pc = "smaster", !.id = i, !.from = from]
      OBVIOUS
    <2>2. m.pc = "smaster" /\ m.undo = NoError /\ Go(t, m) /\ answers' = answers
      BY <1>2, <1>8, <2>1 DEF LocRecs, Then
    <2>3. LocData(m)' /\ LocSized(m)'
      BY <2>2 DEF LocData, LocSized, Copying
    <2> QED
      BY <1>1, <1>2, <1>3, <1>4, <2>2, <2>3, GoKept
  <1>9. ASSUME NEW i, object[i].copied = l.call.source, Reply(t, "OK", i, NoError)
        PROVE  Data' /\ (Sized => Sized')
    <2>1. ASSUME NEW a, a.call = l.call, a.status = "OK", a.id = i
          PROVE  CopiedOf(a)' /\ SizedOf(a)' /\ RepeatedOf(a)'
      BY <1>2, <1>3, <1>9, <2>1 DEF CopiedOf, SizedOf, RepeatedOf
    <2> QED
      BY <1>1, <1>2, <1>3, <1>4, <1>9, <2>1, ReplyKept
  <1> QED
    BY <1>1, <1>5, <1>6, <1>7, <1>8, <1>9 DEF SnapshotLookup

LEMMA SnapshotSourceKept ==
  ASSUME Sound, Told, Held, Data, NEW t \in Threads, Steps(t), faults' = faults, SnapshotSource(t)
  PROVE  Data' /\ (Sized => Sized')
  <1>1. PICK l : l = loc[t]
    OBVIOUS
  <1>2. l \in LocRecs /\ l.pc = "ssource" /\ l.undo = NoError /\ UNCHANGED arrayVars
    BY <1>1, ThreadTold DEF SnapshotSource, InStep, Snapping, ReadOnly
  <1>3. CASE Raise(t, "create_snapshot", "AttributeError")
    BY <1>1, <1>2, <1>3, RaiseKept, RaisedIs
  <1>4. ASSUME NEW n, Then(t, [l EXCEPT !.pc = "snap", !.from = n]) PROVE Data' /\ (Sized => Sized')
    <2>1. PICK m : m = [l EXCEPT !.pc = "snap", !.from = n]
      OBVIOUS
    <2>2. m.pc = "snap" /\ m.call = l.call /\ m.id = l.id /\ m.undo = NoError /\ Then(t, m)
      BY <1>2, <1>4, <2>1 DEF LocRecs
    <2>3. LocData(m)' /\ LocSized(m)'
      BY <2>2 DEF LocData, LocSized, Copying
    <2> QED
      BY <1>1, <1>2, <2>2, <2>3, ThenKept
  <1> QED
    BY <1>1, <1>3, <1>4 DEF SnapshotSource

LEMMA SnapKept ==
  ASSUME Sound, Told, Held, Data, NEW t \in Threads, Steps(t), faults' = faults, Snap(t)
  PROVE  Data' /\ (Sized => Sized')
  <1>1. PICK l : l = loc[t]
    OBVIOUS
  <1>2. /\ l \in LocRecs /\ LocTold(l) /\ l.pc = "snap" /\ l.call.op = "CreateSnapshot" /\ l.undo = NoError
        /\ l.id = NoId /\ l.call.name \in Names
    BY <1>1, ThreadTold DEF Snap, InStep, Snapping, LocTold, LocRecs, CallRecs
  <1>3. \A j \in Ids : ~Makes(l, j)
    BY <1>2, ArrayAssumption DEF Makes, Ids, NoId
  <1>4. CASE /\ UNCHANGED arrayVars
             /\ \E ex \in {"SnapshotAlreadyExists", "ObjectNotFoundError", "XCLIError"} :
                   Raise(t, "create_snapshot", ex)
    BY <1>1, <1>2, <1>4, RaiseKept, RaisedIs
  <1>5. ASSUME Called(l.call.name) = {}, NEW s \in Called(l.from), ~IsSnapshot(s),
               SnapshotCreate(l.call.name, s),
               IF gen3 THEN Then(t, [l EXCEPT !.pc = "cmaster", !.id = nextId])
                       ELSE Reply(t, "OK", nextId, NoError)
        PROVE  Data' /\ (Sized => Sized')
    <2>1. Exists(s) /\ s = l.call.source
      BY <1>2, SourceIs
    <2>2. PICK n, name : n = nextId /\ name = l.call.name
      OBVIOUS
    <2>3. name \in Names /\ Called(name) = {} /\ SnapshotCreate(name, s)
      BY <1>2, <1>5, <2>2
    <2>4. Added(n) /\ object'[n].master = s /\ object'[n].copied = s /\ object'[n].data = s
      BY <1>5, <2>1, <2>2, <2>3, SnapshotDoes DEF Sound
    <2>5. \A i \in Ids : Exists(i)' /\ object'[i] # object[i] => DataOf(i)'
      BY <2>4 DEF Added, DataOf, IsSnapshot
    <2>6. \A i \in Ids : Exists(i)' /\ ~Exists(i) => i = n
      BY <2>4 DEF Added
    <2>7. CASE ~gen3
      <3>1. Reply(t, "OK", n, NoError) /\ n \in KnownIds'
        BY <1>1, <1>2, <1>5, <2>2, <2>7, OkIsKnown DEF Creates
      <3>2. ASSUME NEW a, a.call = l.call, a.status = "OK", a.id = n
            PROVE  CopiedOf(a)' /\ SizedOf(a)' /\ RepeatedOf(a)'
        BY <1>2, <2>1, <2>4, <3>2 DEF CopiedOf, SizedOf, RepeatedOf
      <3> QED
        BY <1>1, <1>3, <2>5, <2>6, <3>1, <3>2, ReplyKept
    <2>8. CASE gen3
      <3>1. PICK m : m = [l EXCEPT !.pc = "cmaster", !.id = n]
        OBVIOUS
      <3>2. /\ m.pc = "cmaster" /\ m.call = l.call /\ m.undo = NoError /\ m.id = n /\ Go(t, m)
            /\ answers' = answers
        BY <1>2, <1>5, <2>2, <2>8, <3>1 DEF LocRecs, Then
      <3>3. LocData(m)' /\ LocSized(m)'
        BY <2>1, <2>4, <3>2 DEF LocData, LocSized, Copying
      <3>4. Makes(m, n)
        BY <1>2, <3>2 DEF Makes, Creates
      <3> QED
        BY <1>1, <1>3, <2>5, <2>6, <3>2, <3>3, <3>4, GoKept
    <2> QED
      BY <2>7, <2>8
  <1> QED
    BY <1>1, <1>4, <1>5 DEF Snap

\* The steps of a deletion that look, up to the command that removes.
LEMMA LooksKept ==
  ASSUME Sound, Told, Held, Data, NEW t \in Threads, Steps(t), faults' = faults, NEW l, l = loc[t],
         l.pc \in {"find", "snapshots"}, UNCHANGED arrayVars, NEW m, Then(t, m),
         m.pc \in Removing, m.call = l.call, m.id = l.id, m.undo = l.undo, m.tries = l.tries
  PROVE  Data' /\ (Sized => Sized')
  <1>1. l.pc \notin Writers /\ m.pc \notin Copying \cup {"smaster", "cmaster", "xafter"}
    BY DEF Writers, Removing, Copying
  <1>2. Exists(l.id)' = Exists(l.id)
    BY DEF arrayVars, Exists
  <1>3. LocData(m)'
    BY <1>1 DEF LocData, Copying
  <1>4. Sized => LocSized(m)'
    <2> SUFFICES ASSUME Sized, l.undo # NoError, Exists(l.id) PROVE Tries <= faults + l.tries
      BY <1>1, <1>2 DEF LocSized, Copying
    <2> QED
      BY DEF Sized, LocSized
  <1> QED
    BY <1>1, <1>3, <1>4, ThenKept

LEMMA FindObjectKept ==
  ASSUME Sound, Told, Held, Data, NEW t \in Threads, Steps(t), faults' = faults, FindObject(t)
  PROVE  Data' /\ (Sized => Sized')
  <1>1. PICK l : l = loc[t]
    OBVIOUS
  <1>2. l \in LocRecs /\ l.pc = "find" /\ UNCHANGED arrayVars
    BY <1>1, ThreadTold DEF FindObject, ReadOnly
  <1>3. CASE ~Exists(l.id) /\ Raise(t, Deleter(t), "ObjectNotFoundError")
    BY <1>1, <1>2, <1>3, RaiseKept, RaisedIs DEF Deleter
  <1>4. ASSUME NEW n, NEW pc \in {"rmsnapshot", "snapshots"}, Then(t, [l EXCEPT !.from = n, !.pc = pc])
        PROVE  Data' /\ (Sized => Sized')
    <2>1. PICK m : m = [l EXCEPT !.from = n, !.pc = pc]
      OBVIOUS
    <2>2. /\ m.pc \in Removing /\ m.call = l.call /\ m.undo = l.undo /\ m.id = l.id /\ m.tries = l.tries
          /\ Then(t, m)
      BY <1>2, <1>4, <2>1 DEF LocRecs, Removing
    <2> QED
      BY <1>1, <1>2, <2>2, LooksKept
  <1> QED
    BY <1>1, <1>3, <1>4 DEF FindObject

LEMMA ListSnapshotsKept ==
  ASSUME Sound, Told, Held, Data, NEW t \in Threads, Steps(t), faults' = faults, ListSnapshots(t)
  PROVE  Data' /\ (Sized => Sized')
  <1>1. PICK l : l = loc[t]
    OBVIOUS
  <1>2. /\ l \in LocRecs /\ LocTold(l) /\ LocHeld(l) /\ l.pc = "snapshots" /\ l.from = l.call.name
        /\ UNCHANGED arrayVars
    BY <1>1, ThreadTold DEF ListSnapshots, Held, LocTold, Removing, ReadOnly
  <1>3. CASE Called(l.from) = {} /\ Raise(t, "delete_volume", "XCLIError")
    <2>1. ~Exists(l.id)
      BY <1>2, <1>3, CalledIs DEF Sound, LocTold
    <2> QED
      BY <1>1, <1>2, <1>3, <2>1, RaiseKept, RaisedIs
  <1>4. ASSUME NEW i \in Called(l.from), Snapshots(i) # {}, Raise(t, "delete_volume", "ObjectIsStillInUseError")
        PROVE  Data' /\ (Sized => Sized')
    <2>1. ~(l.undo # NoError /\ Exists(l.id))
      BY <1>1, <1>2, <1>4, TargetIs DEF LocHeld
    <2> QED
      BY <1>1, <1>2, <1>4, <2>1, RaiseKept, RaisedIs
  <1>5. CASE To(t, "rmvolume")
    <2>1. PICK m : m = [l EXCEPT !.pc = "rmvolume"]
      OBVIOUS
    <2>2. /\ m.pc \in Removing /\ m.call = l.call /\ m.undo = l.undo /\ m.id = l.id /\ m.tries = l.tries
          /\ Then(t, m)
      BY <1>1, <1>2, <1>5, <2>1 DEF LocRecs, Removing, To
    <2> QED
      BY <1>1, <1>2, <2>2, LooksKept
  <1> QED
    BY <1>1, <1>3, <1>4, <1>5 DEF ListSnapshots

LEMMA RemoveObjectKept ==
  ASSUME Sound, Told, Held, Data, NEW t \in Threads, Steps(t), faults' = faults, RemoveObject(t)
  PROVE  Data' /\ (Sized => Sized')
  <1>1. PICK l : l = loc[t]
    OBVIOUS
  <1>2. /\ l \in LocRecs /\ InStep(l) /\ LocTold(l) /\ LocHeld(l) /\ l.pc \in {"rmvolume", "rmsnapshot"}
        /\ l.from = l.call.name /\ l.pc \notin Writers
    BY <1>1, ThreadTold DEF RemoveObject, Held, LocTold, Removing, Writers
  <1>3. CASE UNCHANGED arrayVars /\ Called(l.from) = {} /\ Raise(t, Deleter(t), "ObjectNotFoundError")
    <2>1. ~Exists(l.id)
      BY <1>2, <1>3, CalledIs DEF Sound, LocTold
    <2> QED
      BY <1>1, <1>2, <1>3, <2>1, RaiseKept, RaisedIs DEF Deleter
  <1>4. l.undo # NoError => l.call.op = "CreateVolume" /\ l.pc = "rmvolume"
    BY <1>2 DEF InStep, Undoing
  <1>5. ASSUME UNCHANGED arrayVars, NEW i \in Called(l.from), IsSnapshot(i) # (l.pc = "rmsnapshot"),
               Raise(t, Deleter(t), "XCLIError")
        PROVE  Data' /\ (Sized => Sized')
    <2>1. ASSUME l.undo # NoError, Exists(l.id) PROVE FALSE
      <3>1. i = l.id /\ l.pc # "rmsnapshot"
        BY <1>1, <1>2, <1>4, <1>5, <2>1, TargetIs
      <3>2. ~IsSnapshot(i)
        BY <1>2, <2>1, <3>1 DEF LocHeld
      <3>3. IsSnapshot(i) \in BOOLEAN
        BY DEF IsSnapshot
      <3> QED
        BY <1>5, <3>1, <3>2, <3>3
    <2> QED
      BY <1>1, <1>2, <1>5, <2>1, RaiseKept, RaisedIs DEF Deleter
  <1>6. ASSUME NEW i \in Called(l.from), IsSnapshot(i) = (l.pc = "rmsnapshot"),
               IF l.pc = "rmvolume" THEN VolDelete(i) ELSE SnapshotDelete(i),
               IF l.undo = NoError THEN Ok(t) ELSE UndoNext(t, NoError)
        PROVE  Data' /\ (Sized => Sized')
    <2>1. Exists(l.id)
      BY <1>2, <1>6 DEF LocHeld, Removing
    <2>2. i = l.id
      BY <1>1, <1>2, <1>6, <2>1, TargetIs
    <2>3. IF IsSnapshot(i) THEN SnapshotDelete(i) ELSE VolDelete(i)
      BY <1>2, <1>6
    <2>4. ~Exists(l.id)'
      BY <2>1, <2>2, <2>3, RemovalIs DEF Sound
    <2>5. CASE l.undo = NoError
      <3>1. l.call.op \in Deletes
        BY <1>2, <2>5 DEF InStep, Undoing, Deletes
      <3>2. PICK id : id = l.id
        OBVIOUS
      <3>3. Reply(t, "OK", id, NoError)
        BY <1>1, <1>6, <2>5, <3>2 DEF Ok
      <3> QED
        BY <1>1, <1>2, <3>1, <3>3, EndKept DEF Makes, Creates, Deletes
    <2>6. CASE l.undo # NoError
      <3>1. NoError \in Errs /\ NoError.ex # "VolumeAlreadyExists" /\ UndoNext(t, NoError)
        BY <1>6, <2>6 DEF Errs, NoError
      <3> QED
        BY <1>1, <2>4, <2>6, <3>1, UndoNextKept
    <2> QED
      BY <2>5, <2>6
  <1> QED
    BY <1>1, <1>3, <1>5, <1>6 DEF RemoveObject

\* An expansion that is answered OK.
LEMMA ExpansionKept ==
  ASSUME Sound, Told, Held, Data, NEW t \in Threads, Steps(t), NEW l, l = loc[t], l.pc \in Expanding,
         UNCHANGED arrayVars, Ok(t), Sized => object[l.id].blocks >= ToBlocks(l.call.size)
  PROVE  Data' /\ (Sized => Sized')
  <1>1. l.call.op = "Expand" /\ l.pc \notin Writers
    BY ThreadTold DEF InStep, Expanding, Writers
  <1>2. object' = object /\ \A i : Exists(i)' = Exists(i)
    BY DEF arrayVars, Exists
  <1>3. PICK id : id = l.id
    OBVIOUS
  <1>4. Reply(t, "OK", id, NoError)
    BY <1>3 DEF Ok
  <1>5. \A i : ~Makes(l, i)
    BY <1>1 DEF Makes, Creates
  <1>6. ASSUME NEW a, a.call = l.call, a.status = "OK", a.id = id
        PROVE  CopiedOf(a)' /\ (Sized => SizedOf(a)' /\ RepeatedOf(a)')
    BY <1>1, <1>2, <1>3, <1>6 DEF CopiedOf, SizedOf, RepeatedOf, Creates
  <1> QED
    BY <1>1, <1>2, <1>4, <1>5, <1>6, ReplyKept

LEMMA ExpandLookupKept ==
  ASSUME Sound, Told, Held, Data, NEW t \in Threads, Steps(t), faults' = faults, ExpandLookup(t)
  PROVE  Data' /\ (Sized => Sized')
  <1>1. PICK l : l = loc[t]
    OBVIOUS
  <1>2. /\ l \in LocRecs /\ l.pc = "xlook" /\ l.call.op = "Expand" /\ l.undo = NoError /\ l.call.size \in Nat
        /\ l.pc \in Expanding /\ l.pc \notin Writers /\ UNCHANGED arrayVars
    BY <1>1, ThreadTold DEF ExpandLookup, InStep, Expanding, Undoing, LocRecs, CallRecs, Writers, ReadOnly
  <1>3. CASE Refuse(t, "NOT_FOUND") \/ Refuse(t, "OUT_OF_RANGE")
    BY <1>1, <1>2, <1>3, EndKept DEF Refuse, Makes, Creates
  <1>4. CASE Exists(l.id) /\ ToBytes(object[l.id].blocks) >= l.call.size /\ Ok(t)
    <2>1. PICK k \in Nat : k = object[l.id].blocks
      BY <1>4, ObjectIs DEF Sound
    <2>2. ToBytes(k) \in Nat /\ ToBlocks(l.call.size) \in Nat
      BY <1>2, <2>1, BlocksAre, ProvisioningAssumption DEF ToBytes
    <2>3. ToBlocks(l.call.size) <= k
      BY <1>2, <1>4, <2>1, <2>2, BlocksAre
    <2> QED
      BY <1>1, <1>2, <1>4, <2>1, <2>2, <2>3, ExpansionKept
  <1>5. CASE To(t, "xfind")
    <2>1. PICK m : m = [l EXCEPT !.pc = "xfind"]
      OBVIOUS
    <2>2. m.pc = "xfind" /\ m.call = l.call /\ m.id = l.id /\ m.undo = NoError /\ Then(t, m)
      BY <1>1, <1>2, <1>5, <2>1 DEF LocRecs, To
    <2>3. LocData(m)' /\ LocSized(m)'
      BY <2>2 DEF LocData, LocSized, Copying
    <2> QED
      BY <1>1, <1>2, <2>2, <2>3, ThenKept
  <1> QED
    BY <1>1, <1>3, <1>4, <1>5 DEF ExpandLookup

LEMMA ExpandFindKept ==
  ASSUME Sound, Told, Held, Data, NEW t \in Threads, Steps(t), faults' = faults, ExpandFind(t)
  PROVE  Data' /\ (Sized => Sized')
  <1>1. PICK l : l = loc[t]
    OBVIOUS
  <1>2. l \in LocRecs /\ l.pc = "xfind" /\ l.undo = NoError /\ UNCHANGED arrayVars
    BY <1>1, ThreadTold DEF ExpandFind, InStep, Undoing, ReadOnly
  <1>3. CASE Raise(t, "expand_volume", "ObjectNotFoundError")
    BY <1>1, <1>2, <1>3, RaiseKept, RaisedIs
  <1>4. ASSUME NEW n, Then(t, [l EXCEPT !.pc = "xresize", !.from = n]) PROVE Data' /\ (Sized => Sized')
    <2>1. PICK m : m = [l EXCEPT !.pc = "xresize", !.from = n]
      OBVIOUS
    <2>2. m.pc = "xresize" /\ m.call = l.call /\ m.id = l.id /\ m.undo = NoError /\ Then(t, m)
      BY <1>2, <1>4, <2>1 DEF LocRecs
    <2>3. LocData(m)' /\ LocSized(m)'
      BY <2>2 DEF LocData, LocSized, Copying
    <2> QED
      BY <1>1, <1>2, <2>2, <2>3, ThenKept
  <1> QED
    BY <1>1, <1>3, <1>4 DEF ExpandFind

LEMMA ExpandResizeKept ==
  ASSUME Sound, Told, Held, Data, NEW t \in Threads, Steps(t), faults' = faults, ExpandResize(t)
  PROVE  Data' /\ (Sized => Sized')
  <1>1. PICK l : l = loc[t]
    OBVIOUS
  <1>2. l \in LocRecs /\ l.pc = "xresize" /\ l.undo = NoError /\ l.call.size \in Nat /\ l.pc \notin Writers
    BY <1>1, ThreadTold DEF ExpandResize, InStep, Undoing, LocRecs, CallRecs, Writers
  <1>3. CASE /\ UNCHANGED arrayVars
             /\ Raise(t, "expand_volume", "ObjectNotFoundError") \/ Raise(t, "expand_volume", "XCLIError")
    BY <1>1, <1>2, <1>3, RaiseKept, RaisedIs
  <1>4. PICK blocks : blocks = ToBlocks(l.call.size)
    OBVIOUS
  <1>5. blocks \in Nat
    BY <1>2, <1>4, BlocksAre
  <1>6. ASSUME NEW i \in Called(l.from), VolResize(i, blocks), To(t, "xafter") PROVE Data' /\ (Sized => Sized')
    <2>1. i = l.id /\ Exists(l.id)
      BY <1>1, <1>2, <1>6, ExpandedIs
    <2>2. object'[l.id].blocks = blocks
      BY <1>5, <1>6, <2>1, ResizeDoes DEF Sound
    <2>3. PICK m : m = [l EXCEPT !.pc = "xafter"]
      OBVIOUS
    <2>4. m.pc = "xafter" /\ m.call = l.call /\ m.id = l.id /\ m.undo = NoError /\ Then(t, m)
      BY <1>1, <1>2, <1>6, <2>3 DEF LocRecs, To
    <2>5. LocData(m)'
      BY <2>4 DEF LocData, Copying
    <2>6. LocSized(m)'
      BY <1>4, <1>5, <2>2, <2>4 DEF LocSized
    <2> QED
      BY <1>1, <1>2, <2>4, <2>5, <2>6, ThenKept
  <1> QED
    BY <1>1, <1>3, <1>4, <1>6 DEF ExpandResize

LEMMA ExpandAfterKept ==
  ASSUME Sound, Told, Held, Data, NEW t \in Threads, Steps(t), faults' = faults, ExpandAfter(t)
  PROVE  Data' /\ (Sized => Sized')
  <1>1. PICK l : l = loc[t]
    OBVIOUS
  <1>2. /\ l.pc = "xafter" /\ l.pc \in Expanding /\ l.pc \notin Writers /\ l.call.op = "Expand"
        /\ UNCHANGED arrayVars
    BY <1>1, ThreadTold DEF ExpandAfter, InStep, Expanding, Writers, ReadOnly
  <1>3. CASE Refuse(t, "NOT_FOUND")
    BY <1>1, <1>2, <1>3, EndKept DEF Refuse, Makes, Creates
  <1>4. CASE Exists(l.id) /\ Ok(t)
    <2>1. Sized => object[l.id].blocks >= ToBlocks(l.call.size)
      BY <1>1, <1>2, <1>4 DEF Sized, LocSized
    <2> QED
      BY <1>1, <1>2, <1>4, <2>1, ExpansionKept
  <1> QED
    BY <1>1, <1>3, <1>4 DEF ExpandAfter

LEMMA FaultKept ==
  ASSUME Sound, Told, Held, Data, NEW t \in Threads, Fault(t)
  PROVE  Data' /\ (Sized => Sized')
  <1>1. PICK err \in Refusals(t) : Raise(t, err.by, err.ex)
    BY DEF Fault
  <1>2. /\ loc[t].pc # "idle" /\ asked' = asked /\ torn' = torn /\ gen3' = gen3 /\ faults' = faults + 1
        /\ UNCHANGED arrayVars
    BY DEF Fault
  <1>3. [by |-> err.by, ex |-> err.ex] \in Raised /\ err.ex # "VolumeAlreadyExists"
    BY <1>2, RefusalsAre
  <1>4. answers \subseteq answers'
    BY <1>1 DEF Raise, UndoNext, Undo, Reply, Then
  <1>5. faults \in Nat /\ Ages
    BY <1>2, NothingChanges DEF Sound, Counted
  <1>6. Sound' /\ Told' /\ Held' /\ Learns(loc[t]) /\ Calm(loc[t])
    BY FaultSound, FaultTold, FaultHeld
  <1>7. Steps(t)
    BY <1>2, <1>4, <1>5, <1>6 DEF Steps
  <1> QED
    BY <1>1, <1>2, <1>3, <1>7, RaiseKept

LEMMA CommandKept ==
  ASSUME Sound, Told, Held, Data, NEW t \in Threads, Command(t)
  PROVE  Data' /\ (Sized => Sized')
  <1>1. Steps(t) /\ faults' = faults
    BY CommandSteps
  <1> QED
    BY <1>1, LookupKept, CreateKept, FindSourceKept, FindMasterKept, FindNamesKept, FormatKept, CopyKept,
       ResizeKept, SnapshotLookupKept, SnapshotSourceKept, SnapKept, FindObjectKept, ListSnapshotsKept,
       RemoveObjectKept, ExpandLookupKept, ExpandFindKept, ExpandResizeKept, ExpandAfterKept DEF Command

\* A step that leaves the array and the answers alone, after which a thread is where
\* it was, or idle, or at the first step of a call.
LEMMA QuietKept ==
  ASSUME UNCHANGED arrayVars, answers' = answers, gen3' = gen3, faults' = faults, asked \subseteq asked',
         torn \subseteq torn',
         \A t \in Threads : \/ loc'[t] = loc[t]
                            \/ /\ loc'[t].pc \in {"idle", "lookup", "slook", "find", "xlook"}
                               /\ loc'[t].undo = NoError
  PROVE  /\ Data => Data'
         /\ Sized /\ (\A t \in Threads, i \in Ids : Makes(loc[t], i) => Makes(loc'[t], i)) => Sized'
  <1>1. object' = object /\ KnownIds' = KnownIds
    BY DEF arrayVars, KnownIds, Known, OkTo
  <1>2. \A i : Exists(i)' = Exists(i) /\ IsSnapshot(i)' = IsSnapshot(i)
    BY <1>1 DEF Exists, IsSnapshot
  <1>3. \A c : Misled(c) => Misled(c)'
    BY DEF Misled
  <1>4. \A i : Expanded(i) => Expanded(i)'
    BY DEF Expanded
  <1>5. \A t \in Threads : LocData(loc[t]) => LocData(loc[t])'
    <2> SUFFICES ASSUME NEW t \in Threads, NEW l, l = loc'[t], l = loc[t] => LocData(l) PROVE LocData(l)'
      OBVIOUS
    <2>1. CASE l = loc[t]
      BY <1>1, <1>2, <1>3, <2>1 DEF LocData
    <2>2. CASE l.pc \in {"idle", "lookup", "slook", "find", "xlook"}
      BY <2>2 DEF LocData, Copying
    <2> QED
      BY <2>1, <2>2
  <1>6. \A t \in Threads : LocSized(loc[t]) => LocSized(loc[t])'
    <2> SUFFICES ASSUME NEW t \in Threads, NEW l, l = loc'[t], l = loc[t] => LocSized(l) PROVE LocSized(l)'
      OBVIOUS
    <2>1. CASE l = loc[t]
      BY <1>1, <1>2, <2>1 DEF LocSized
    <2>2. CASE l.pc \in {"idle", "lookup", "slook", "find", "xlook"} /\ l.undo = NoError
      BY <2>2 DEF LocSized
    <2> QED
      BY <2>1, <2>2
  <1>7. Data => Data'
    BY <1>1, <1>2, <1>3, <1>5 DEF Data, DataOf, CopiedOf
  <1>8. \A a : SizedOf(a) => SizedOf(a)'
    BY <1>1, <1>2, <1>3, <1>4 DEF SizedOf
  <1>9. \A b : RepeatedOf(b) => RepeatedOf(b)'
    BY <1>3, <1>4 DEF RepeatedOf, Excused, OkTo
  <1>10. OneId => OneId'
    BY DEF OneId, OkTo
  <1>11. ASSUME Owned, \A t \in Threads, i \in Ids : Makes(loc[t], i) => Makes(loc'[t], i) PROVE Owned'
    BY <1>1, <1>2, <1>11 DEF Owned, Left, Makes
  <1> QED
    BY <1>6, <1>7, <1>8, <1>9, <1>10, <1>11 DEF Sized

LEMMA AskKept ==
  ASSUME Sound, Data, NEW t \in Threads, NEW c \in CallRecs, CallOK(c), Ask(t, c)
  PROVE  Data' /\ (Sized => Sized')
  <1>1. PICK m : m = [Idle EXCEPT !.call = c, !.id = c.id, !.pc = FirstStep[c.op]]
    OBVIOUS
  <1>2. FirstStep[c.op] \in {"lookup", "slook", "find", "xlook"}
    BY DEF FirstStep, CallOK, Ops, Creates, Deletes
  <1>3. m.pc \in {"lookup", "slook", "find", "xlook"} /\ m.undo = NoError
    BY <1>1, <1>2, IdleIs DEF LocRecs
  <1>4. /\ Then(t, m) /\ answers' = answers /\ asked \subseteq asked' /\ torn \subseteq torn'
        /\ gen3' = gen3 /\ faults' = faults /\ UNCHANGED arrayVars
    BY <1>1 DEF Ask, Then
  <1>5. loc'[t] = m /\ \A u \in Threads : u # t => loc'[u] = loc[u]
    BY <1>4 DEF Then, Go, Sound
  <1>6. \A i : ~Makes(loc[t], i)
    BY IdleIs DEF Ask, Makes, Creates
  <1> QED
    BY <1>3, <1>4, <1>5, <1>6, QuietKept

LEMMA CrashKept ==
  ASSUME Data, Crash
  PROVE  Data'
  <1>1. \A t \in Threads : loc'[t].pc = "idle" /\ loc'[t].undo = NoError
    BY IdleIs DEF Crash
  <1> QED
    BY <1>1, QuietKept DEF Crash

LEMMA KeptInit == Init => Data /\ Sized
  <1> SUFFICES ASSUME Init PROVE Data /\ Sized
    OBVIOUS
  <1>1. /\ answers = {} /\ loc = [t \in Threads |-> Idle]
        /\ object = [i \in Ids |-> IF i = 1 THEN [NoObject EXCEPT !.name = Source, !.blocks = SourceBlocks]
                                            ELSE NoObject]
    BY DEF Init
  <1>2. 1 \in KnownIds
    <2>1. [id |-> 1, name |-> Source, op |-> "CreateVolume"] \in Known
      BY DEF Known
    <2> QED
      BY <2>1 DEF KnownIds
  <1>3. \A i \in Ids : object[i].copied = NoId /\ object[i].master = NoId /\ (Exists(i) => i = 1)
    BY <1>1 DEF NoObject, Exists
  <1>4. \A t \in Threads : loc[t].pc = "idle" /\ loc[t].undo = NoError
    BY <1>1, IdleIs
  <1>5. \A t \in Threads : LocData(loc[t]) /\ LocSized(loc[t])
    BY <1>4 DEF LocData, LocSized, Copying
  <1>6. OneId
    BY <1>1 DEF OneId, OkTo
  <1> QED
    BY <1>1, <1>2, <1>3, <1>5, <1>6 DEF Data, DataOf, IsSnapshot, Sized, Owned

-----------------------------------------------------------------------------
(***************************************************************************)
(* The properties that are about the answers.                              *)
(***************************************************************************)

Kept == /\ Sound /\ Told /\ (~overlap => Held) /\ (~overlap => Data)
        /\ ~overlap /\ crashes = 0 => Sized

LEMMA KeptNext == Kept /\ [Next]_vars => Kept'
  <1> SUFFICES ASSUME Kept, [Next]_vars PROVE Kept'
    OBVIOUS
  <1>1. Sound /\ Told /\ (~overlap => Held)
    BY DEF Kept
  <1>2. Sound' /\ Told' /\ (~overlap => Held)'
    BY <1>1, SoundNext, ToldNext, HeldNext
  <1> SUFFICES ASSUME ~overlap' PROVE Data' /\ (crashes' = 0 => Sized')
    BY <1>2 DEF Kept
  <1>3. CASE UNCHANGED vars
    <2>1. /\ UNCHANGED arrayVars /\ loc' = loc /\ answers' = answers /\ asked' = asked /\ torn' = torn
          /\ gen3' = gen3 /\ faults' = faults /\ overlap' = overlap /\ crashes' = crashes
      BY <1>3 DEF vars, bounds
    <2> QED
      BY <2>1, QuietKept DEF Kept
  <1>4. ASSUME NEW t \in Threads, Command(t) PROVE Data' /\ (crashes' = 0 => Sized')
    <2>1. overlap' = overlap /\ crashes' = crashes
      BY <1>4, CommandBounds DEF bounds
    <2> QED
      BY <1>4, <2>1, CommandKept DEF Kept
  <1>5. ASSUME NEW t \in Threads, Start(t) PROVE Data' /\ (crashes' = 0 => Sized')
    <2>1. PICK c : c \in CallRecs /\ CallOK(c) /\ Ask(t, c)
      BY <1>1, <1>5, CallsAre
    <2>2. ~overlap /\ crashes' = crashes
      BY <2>1 DEF Ask
    <2> QED
      BY <2>1, <2>2, AskKept DEF Kept
  <1>6. ASSUME NEW t \in Threads, Fault(t) PROVE Data' /\ (crashes' = 0 => Sized')
    <2>1. overlap' = overlap /\ crashes' = crashes
      BY <1>6 DEF Fault
    <2> QED
      BY <1>6, <2>1, FaultKept DEF Kept
  <1>7. CASE Crash
    <2>1. overlap' = overlap /\ crashes' # 0
      BY <1>1, <1>7 DEF Crash, Sound, Counted
    <2> QED
      BY <1>7, <2>1, CrashKept DEF Kept
  <1> QED
    BY <1>3, <1>4, <1>5, <1>6, <1>7 DEF Next

\* The inductive invariant of the properties below.
THEOREM KeptAlways == Spec => []Kept
  <1>1. Init => Kept
    BY SoundInit, ToldInit, HeldInit, KeptInit DEF Kept
  <1> QED
    BY <1>1, KeptNext, PTL DEF Spec

\* Whatever fails, is restarted, deleted or expanded in between, a volume that was
\* answered as created from a source holds the data of that source, and a snapshot
\* that of its volume.
THEOREM CopiesHoldTheirSource == Spec => []CopiedWhenOk
  <1>1. Kept => CopiedWhenOk
    <2> SUFFICES ASSUME Kept, ~overlap, NEW a \in OkTo(Creates), a.call.source # NoId, Exists(a.id)
                 PROVE  object[a.id].data = a.call.source \/ Misled(a.call)
      BY DEF CopiedWhenOk
    <2>1. Data /\ a \in answers /\ a.call.op \in Creates /\ a.status = "OK" /\ a.id \in Ids
      BY DEF Kept, OkTo, Exists
    <2>2. CopiedOf(a) /\ DataOf(a.id)
      BY <2>1 DEF Data
    <2> QED
      BY <2>1, <2>2 DEF CopiedOf, DataOf
  <1> QED
    BY <1>1, KeptAlways, PTL

\* A volume that CreateVolume or ControllerExpandVolume answered OK for is as big as
\* was asked for, to the block, and stays so, as long as fewer commands have failed
\* than a rollback has tries.
THEOREM SizesAreServed == Spec => []AsBigAsAsked
  <1>1. Kept => AsBigAsAsked
    BY DEF Kept, Sized, SizedOf, AsBigAsAsked, OkTo
  <1> QED
    BY <1>1, KeptAlways, PTL

\* A CreateVolume that is repeated is not refused because of the volume it has made,
\* but for a size that is 0 or no multiple of a block, an expansion, or a gen3 array.
THEOREM RepeatsAreServed == Spec => []RepeatServed
  <1>1. Kept => RepeatServed
    <2> SUFFICES ASSUME Kept, ~overlap, faults = 0, crashes = 0, NEW a \in OkTo({"CreateVolume"}),
                        NEW b \in answers, b.call = a.call, b.status = "ALREADY_EXISTS"
                 PROVE  Excused(a)
      BY DEF RepeatServed, Excused, Expanded
    <2>1. OneId /\ RepeatedOf(b) /\ b.call.op = "CreateVolume"
      BY DEF Kept, Sized, OkTo
    <2>2. PICK e \in OkTo({"CreateVolume"}) : e.call = b.call /\ Excused(e)
      BY <2>1 DEF RepeatedOf
    <2>3. e.id = a.id /\ e.call = a.call
      BY <2>1, <2>2 DEF OneId
    <2> QED
      BY <2>2, <2>3 DEF Excused
  <1> QED
    BY <1>1, KeptAlways, PTL

\* The array agrees with the answers: names are unique, deleted objects are gone, and,
\* as long as nothing fails, every object was answered or is being made: no rollback
\* leaves a volume behind that nobody knows.
THEOREM AnswersMatchTheArray == Spec => []ArrayAgrees
  <1>1. Kept => NoOrphans
    <2> SUFFICES ASSUME Kept, ~overlap, faults = 0, crashes = 0, NEW i \in Ids, Exists(i)
                 PROVE  \/ i \in {k.id : k \in Known}
                        \/ \E t \in Threads : loc[t].call.op \in Creates /\ loc[t].call.name = object[i].name
      BY DEF NoOrphans
    <2>1. ~Left(i)
      BY ProvisioningAssumption DEF Left
    <2>2. ASSUME NEW t \in Threads, Makes(loc[t], i)
          PROVE  loc[t].call.op \in Creates /\ loc[t].call.name = object[i].name
      <3>1. PICK l : l = loc[t]
        OBVIOUS
      <3>2. l.call.op \in Creates /\ l.id = i
        BY <2>2, <3>1 DEF Makes
      <3>3. LocTold(l) /\ l.pc # "idle"
        BY <3>1, <3>2, ThreadIs, IdleIs DEF Kept, Told, InStep, Creates
      <3> QED
        BY <3>1, <3>2, <3>3 DEF LocTold
    <2> QED
      BY <2>1, <2>2 DEF Kept, Sized, Owned, KnownIds
  <1> QED
    BY <1>1, KeptAlways, ArrayIsTyped, PTL DEF ArrayAgrees

=============================================================================
