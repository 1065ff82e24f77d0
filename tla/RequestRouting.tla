--------------------------- MODULE RequestRouting ---------------------------
(***************************************************************************)
(* What the controller server does with a request before it talks to an    *)
(* array (controller_server/utils.py and the heads of the RPCs): validate  *)
(* it, choose the storage system from the secret, the topology or the id,  *)
(* merge the parameters, make the name, and form the id of the answer.     *)
(*                                                                         *)
(* A secret is either for one system, or its "config" lists systems, each  *)
(* with an id and the topologies it serves.  Ids of objects are sequences  *)
(* of the parts between ":"; names are sequences of the parts between "_". *)
(* Each RPC is one step, as is the array operation it ends in: the         *)
(* commands of the arrays are modelled in the provisioning modules.        *)
(***************************************************************************)
EXTENDS Integers, SequencesExt, RpcStatus, ArrayMediator

CONSTANTS Systems,           \* storage systems
          TypeOf,            \* array_type of each: "A9000", "SVC" or "DS8K"
          NoSystem,
          Secrets,           \* the secrets the administrator may install
          LegalSystemIds,    \* system ids SECRET_VALIDATION_REGEX and the length limit accept
          Classes,           \* parameters of storage classes
          SnapshotClasses,   \* parameters of snapshot classes
          VolumeNames, SnapshotNames,  \* names in requests
          Places,            \* segments of preferred[0]; NoPlace if there is none
          Capabilities,      \* volume capabilities in requests
          Sizes,             \* required_bytes in requests
          StrayIds,          \* ids that were never answered
          MaxNameLength, MaxPrefixLength, \* of each array type
          MaxCalls,          \* bound: calls
          MaxEdits           \* bound: changes of the secret

NoPlace == {}
NoId    == <<>>
NoUid   == <<>>
NoClass == [default |-> <<>>, by |-> <<>>, json |-> TRUE]

ASSUME RoutingAssumption ==
    /\ NoSystem \notin Systems
    /\ TypeOf \in [Systems -> {Mediators[c].type : c \in DOMAIN Mediators}]
    /\ \A i \in LegalSystemIds : i = <<i[1]>>
    /\ MaxCalls \in Nat /\ MaxEdits \in Nat

\* A config is a list of systems, and an id in it always stands for one system.
ASSUME SecretsAssumption ==
    /\ \A x \in Secrets : /\ x.config \in Seq(ToSet(x.config))
                          /\ {x.conn} \cup {e.conn : e \in ToSet(x.config)} \subseteq Systems \cup {NoSystem}
    /\ \A x, y \in Secrets : \A e \in ToSet(x.config), f \in ToSet(y.config) : e.id = f.id => e.conn = f.conn

\* Prefixes and names are lists of parts; the orchestrator's names end in a part
\* of their own.
ASSUME NamesAssumption ==
    /\ \A class \in Classes \cup SnapshotClasses :
          \A d \in {class.default} \cup {class.by[i] : i \in DOMAIN class.by} :
             "prefix" \in DOMAIN d => d["prefix"] \in Seq(ToSet(d["prefix"]))
    /\ \A n \in VolumeNames \cup SnapshotNames : n \in Seq(ToSet(n))
    /\ \A names \in {VolumeNames, SnapshotNames} :
          \A m, n \in names \ {<<>>} : Last(m) = Last(n) => m = n

VARIABLES secret,            \* the secret the orchestrator sends with each call
          held,              \* the objects on the arrays
          made,              \* how many objects each array has made
          issued,            \* the objects that were answered, with their ids
          last,              \* the last call and its answer
          calls, edits

vars == <<secret, held, made, issued, last, calls, edits>>

-----------------------------------------------------------------------------
(***************************************************************************)
(* Secrets and systems                                                     *)
(***************************************************************************)

\* Mutated form of ValidEntry: _validate_system_id is left out.
ValidEntryAnyId(e) == e.conn # NoSystem /\ e.places # {} /\ {} \notin e.places

\* _validate_secrets_config: one system of a config.
ValidEntry(e) ==
    e.id \in LegalSystemIds /\ e.conn # NoSystem /\ e.places # {} /\ {} \notin e.places

\* validate_secrets: conn is NoSystem if the user, password or address is missing.
ValidSecret(x) ==
    IF x.config = <<>> THEN x.conn # NoSystem ELSE x.json /\ \A e \in ToSet(x.config) : ValidEntry(e)

\* _is_topology_match
Matches(e, place) == \E p \in e.places : p \subseteq place

Refused(ex)     == [ex |-> ex, system |-> NoSystem, id |-> NoId]
Chosen(conn, i) == [ex |-> "none", system |-> conn, id |-> i]

\* The first system of a config with an id, or with a topology for a place; or 0.
WithId(config, id)      == SelectInSeq(config, LAMBDA e : e.id = id)
FirstFor(config, place) == SelectInSeq(config, LAMBDA e : Matches(e, place))

\* Mutated form of SystemFor: a system that is not listed is taken for the first.
SystemForFirst(x, place, id) ==
    LET named == SelectInSeq(x.config, LAMBDA e : e.id = id \/ (id = NoId /\ Matches(e, place))) IN
    IF x.config = <<>> THEN Chosen(x.conn, id)
    ELSE IF place = NoPlace /\ id = NoId THEN Refused("ValidationException")
    ELSE IF named = 0 THEN Chosen(x.config[1].conn, id) ELSE Chosen(x.config[named].conn, x.config[named].id)

\* get_array_connection_info_from_secrets: the system the id names, or the first
\* whose topologies match; an id that the config does not list gives None, which
\* cannot be subscripted, and so does a system without topologies.
SystemFor(x, place, id) ==
    LET named == WithId(x.config, id) match == FirstFor(x.config, place) IN
    IF x.config = <<>> THEN Chosen(x.conn, id)
    ELSE IF id # NoId THEN
        IF named = 0 THEN Refused("TypeError") ELSE Chosen(x.config[named].conn, id)
    ELSE IF place = NoPlace THEN Refused("ValidationException")
    ELSE IF \E e \in ToSet(x.config) : e.places = {} THEN Refused("TypeError")
    ELSE IF match = 0 THEN Refused("ValidationException")
    ELSE Chosen(x.config[match].conn, x.config[match].id)

-----------------------------------------------------------------------------
(***************************************************************************)
(* Parameters and names                                                    *)
(***************************************************************************)

\* A dictionary's get(key, default).
Get(dict, key, default) == IF key \in DOMAIN dict THEN dict[key] ELSE default

\* get_object_parameters: by_system_id goes before the default.
Parameter(class, id, field, default) ==
    Get(Get(class.by, id, <<>>), field, Get(class.default, field, default))

BadJson(class, id) == DOMAIN class.by # {} /\ id # NoId /\ ~class.json

\* validate_create_volume_request, the parameters.
ValidClass(class) ==
    IF "pool" \in DOMAIN class.default THEN class.default.pool # "" ELSE DOMAIN class.by # {}

\* validate_supported_space_efficiency of the three mediators; "" is the default.
SvcSpaceEfficiency  == {"thin", "thick", "compressed", "deduplicated"}
Ds8kSpaceEfficiency == {"thin", "none"}
SupportedSpaceEfficiency(type) ==
    {""} \cup CASE type = "A9000" -> {}
                [] type = "SVC"   -> SvcSpaceEfficiency
                [] type = "DS8K"  -> Ds8kSpaceEfficiency

\* default_object_prefix; a prefix is <<>> if it is absent or empty.
DefaultPrefix(type) == Mediators[CHOOSE c \in DOMAIN Mediators : Mediators[c].type = type].prefix

Prefix(class, id, type) ==
    LET p == Parameter(class, id, "prefix", <<>>) IN IF p = <<>> THEN DefaultPrefix(type) ELSE p

PrefixTooLong(class, id, type) == Len(Parameter(class, id, "prefix", <<>>)) > MaxPrefixLength[type]

\* hash_string: the digest stands for its whole argument.
Hashed(name) == <<"#">> \o name

\* Mutated form of FinalName: a name that is too long is cut off.
FinalNameCut(prefix, name, type) ==
    LET full == prefix \o name IN
    IF Len(full) > MaxNameLength[type] THEN SubSeq(full, 1, MaxNameLength[type]) ELSE full

\* _get_object_final_name.  The result is cut off, but keeps ten digits of the
\* digest or more.
FinalName(prefix, name, type) ==
    IF Len(prefix \o name) > MaxNameLength[type] THEN prefix \o Hashed(name) ELSE prefix \o name

-----------------------------------------------------------------------------
(***************************************************************************)
(* Ids, requests and answers                                               *)
(***************************************************************************)

\* The arrays answer with a unique id of the object, its WWN.  A DS8K takes the
\* last four digits of it, which are unique on that array only.
SameObject(s, uid, o) ==
    o.uid[1] = s /\ IF TypeOf[s] = "DS8K" THEN o.uid[2] = uid[2] ELSE o.uid = uid

Lookup(s, uid, kinds) == {o \in held : o.kind \in kinds /\ SameObject(s, uid, o)}
Named(s, name)        == {o \in held : o.uid[1] = s /\ o.name = name}

\* Mutated form of VolumeId: the system is left out.
VolumeIdShort(uid, id) == <<TypeOf[uid[1]], uid>>

\* get_volume_id and get_snapshot_id: the latter never names the system.
VolumeId(uid, id)   == <<TypeOf[uid[1]]>> \o id \o <<uid>>
SnapshotId(uid)     == <<TypeOf[uid[1]], uid>>

\* get_object_id_info
LegalId(id)  == Len(id) \in {2, 3}
SystemId(id) == IF Len(id) = 3 THEN <<id[2]>> ELSE NoId
Uid(id)      == id[Len(id)]

\* validate_csi_volume_capability
ValidCapability(c) ==
    /\ (c.access = "mount" /\ c.fs \in {"", "ext4", "xfs"}) \/ c.access = "block"
    /\ c.mode = "SINGLE_NODE_WRITER"

ValidSize(size) == size >= 0

\* Whether the other arguments are valid, in the requests that may be sent.
CreateArguments  == {ValidSize(size) /\ ValidCapability(cap) : size \in Sizes, cap \in Capabilities}
PublishArguments == {ValidCapability(cap) /\ ~readonly : cap \in Capabilities, readonly \in BOOLEAN}

\* A request: the id it is about (or its source), its other arguments, and
\* whether those that are only validated are valid.
NoRequest == [rpc |-> "none", id |-> NoId, name |-> <<>>, class |-> NoClass, place |-> NoPlace,
              sound |-> TRUE]
NoAnswer  == [req |-> NoRequest, status |-> "none", id |-> NoId, uid |-> NoUid]

\* The call ends with an exception, or well: with the id of an object, and the
\* object it has worked on.
Answer(req, status, id, uid) == last' = [req |-> req, status |-> status, id |-> id, uid |-> uid]
Fail(req, status) == Answer(req, status, NoId, NoUid) /\ UNCHANGED <<held, made, issued>>

\* generate_csi_create_volume_response, generate_csi_create_snapshot_response
Issue(o, id, req) ==
    /\ issued' = issued \cup {[uid |-> o.uid, kind |-> o.kind, id |-> id, req |-> req, secret |-> secret]}
    /\ Answer(req, "OK", id, o.uid)

NewObject(s, kind, name, of) == [uid |-> <<s, made[s] + 1>>, kind |-> kind, name |-> name, of |-> of]
Make(s, o) == held' = held \cup {o} /\ made' = [made EXCEPT ![s] = @ + 1]

Call == last = NoAnswer /\ calls < MaxCalls /\ calls' = calls + 1 /\ UNCHANGED <<secret, edits>>

\* The ids the orchestrator may send.
IssuedIds(kind) == {i.id : i \in {j \in issued : j.kind = kind}}

-----------------------------------------------------------------------------
(***************************************************************************)
(* The RPCs                                                                *)
(***************************************************************************)

\* validate_create_volume_request, _get_source_type_and_id, the choice of the
\* system and of the parameters: the exception they raise, if any.  A source id
\* of one part is refused by the validation, one of four parts after it.
CreateVolumeCheck(req, to) ==
    IF ~req.sound \/ ~ValidSecret(secret) \/ ~ValidClass(req.class) THEN "INVALID_ARGUMENT"
    ELSE IF Len(req.id) = 1 THEN "NOT_FOUND"
    ELSE IF req.id # NoId /\ ~LegalId(req.id) THEN "INTERNAL"
    ELSE IF to.ex # "none" THEN CreateVolumeStatus(to.ex)
    ELSE IF \/ BadJson(req.class, to.id) \/ Parameter(req.class, to.id, "pool", "") = ""
            \/ PrefixTooLong(req.class, to.id, TypeOf[to.system]) THEN "INVALID_ARGUMENT"
    ELSE "OK"

\* CreateVolume on the chosen system.  The source is looked up there, wherever it
\* is; _handle_existing_volume_source compares the ids.
CreateVolume ==
    \E name \in VolumeNames, class \in Classes, place \in Places,
       sound \in CreateArguments,
       source \in {NoId} \cup IssuedIds("volume") \cup IssuedIds("snapshot") \cup StrayIds :
      LET req   == [rpc |-> "CreateVolume", id |-> source, name |-> name, class |-> class,
                    place |-> place, sound |-> name # <<>> /\ sound]
          to    == SystemFor(secret, place, NoId)
          check == CreateVolumeCheck(req, to)
          s     == to.system
          of    == IF source = NoId THEN NoUid ELSE Uid(source)
          final == FinalName(Prefix(class, to.id, TypeOf[s]), name, TypeOf[s])
          from  == IF source = NoId THEN {NoUid}
                   ELSE {o.uid : o \in Lookup(s, of, {"volume", "snapshot"})} IN
      /\ Call
      /\ \/ check # "OK" /\ Fail(req, check)
         \/ /\ check = "OK"
            /\ \E o \in Named(s, final) :
                 IF o.of = of /\ o.kind = "volume"
                 THEN Issue(o, VolumeId(o.uid, to.id), req) /\ UNCHANGED <<held, made>>
                 ELSE Fail(req, "ALREADY_EXISTS")
         \/ /\ check = "OK" /\ Named(s, final) = {}
            /\ IF Parameter(class, to.id, "se", "") \notin SupportedSpaceEfficiency(TypeOf[s])
               THEN Fail(req, "INVALID_ARGUMENT")
               ELSE IF from = {} THEN Fail(req, "NOT_FOUND")
               ELSE \E f \in from :
                      LET o == NewObject(s, "volume", final, f) IN
                      Make(s, o) /\ Issue(o, VolumeId(o.uid, to.id), req)

\* The RPCs that are about an object's id: the validation, the id's parts and
\* the system.  An id with the wrong number of parts is no object's.
IllegalIdStatus ==
    [DeleteVolume |-> "OK", DeleteSnapshot |-> "OK", CreateSnapshot |-> "INVALID_ARGUMENT",
     Expand |-> "INVALID_ARGUMENT", Publish |-> "NOT_FOUND", Unpublish |-> "INVALID_ARGUMENT"]

Target(req) == SystemFor(secret, NoPlace, SystemId(req.id))

ByIdCheck(req) ==
    IF ~req.sound \/ ~ValidSecret(secret) THEN "INVALID_ARGUMENT"
    ELSE IF req.id = NoId /\ req.rpc # "Publish" THEN "INVALID_ARGUMENT"
    ELSE IF ~LegalId(req.id) THEN IllegalIdStatus[req.rpc]
    ELSE IF Target(req).ex # "none" THEN Status(req.rpc, Target(req).ex)
    ELSE "go"

Objects(req) == Lookup(Target(req).system, Uid(req.id), {"volume", "snapshot"})

\* CreateSnapshot, on the system of its source.
CreateSnapshot ==
    \E id \in IssuedIds("volume") \cup StrayIds, name \in SnapshotNames, class \in SnapshotClasses :
      LET req   == [NoRequest EXCEPT !.rpc = "CreateSnapshot", !.id = id, !.name = name,
                                     !.class = class, !.sound = name # <<>>]
          check == ByIdCheck(req)
          s     == Target(req).system
          final == FinalName(Prefix(class, SystemId(id), TypeOf[s]), name, TypeOf[s]) IN
      /\ Call
      /\ \/ check # "go" /\ Fail(req, check)
         \/ /\ check = "go"
            /\ BadJson(class, SystemId(id)) \/ PrefixTooLong(class, SystemId(id), TypeOf[s])
            /\ Fail(req, "INVALID_ARGUMENT")
         \/ /\ check = "go"
            /\ ~BadJson(class, SystemId(id)) /\ ~PrefixTooLong(class, SystemId(id), TypeOf[s])
            /\ \/ \E o \in Named(s, final) :
                    IF o.of = Uid(id) /\ o.kind = "snapshot"
                    THEN Issue(o, SnapshotId(o.uid), req) /\ UNCHANGED <<held, made>>
                    ELSE Fail(req, "ALREADY_EXISTS")
               \/ /\ Named(s, final) = {} /\ Objects(req) = {}
                  /\ Fail(req, IF TypeOf[s] = "A9000" THEN "INTERNAL" ELSE "NOT_FOUND")
               \/ /\ Named(s, final) = {}
                  /\ \E v \in Objects(req) :
                       LET o == NewObject(s, "snapshot", final, v.uid) IN
                       Make(s, o) /\ Issue(o, SnapshotId(o.uid), req)

\* DeleteVolume and DeleteSnapshot; a volume with snapshots is still in use.
Delete(rpc, ids) ==
    \E id \in ids \cup StrayIds :
      LET req == [NoRequest EXCEPT !.rpc = rpc, !.id = id] check == ByIdCheck(req) IN
      /\ Call
      /\ \/ check # "go" /\ Fail(req, check)
         \/ check = "go" /\ Objects(req) = {} /\ Fail(req, Status(rpc, "ObjectNotFoundError"))
         \/ /\ check = "go"
            /\ \E o \in Objects(req) :
                 IF \E d \in held : d.kind = "snapshot" /\ d.of = o.uid
                 THEN Fail(req, Status(rpc, "ObjectIsStillInUseError"))
                 ELSE /\ held' = held \ {o}
                      /\ Answer(req, "OK", NoId, o.uid)
                      /\ UNCHANGED <<made, issued>>

\* ControllerExpandVolume, ControllerPublishVolume, ControllerUnpublishVolume.
Use(rpc, sound) ==
    \E id \in IssuedIds("volume") \cup StrayIds :
      LET req == [NoRequest EXCEPT !.rpc = rpc, !.id = id, !.sound = sound] check == ByIdCheck(req) IN
      /\ Call
      /\ \/ check # "go" /\ Fail(req, check)
         \/ check = "go" /\ Objects(req) = {} /\ Fail(req, Status(rpc, "ObjectNotFoundError"))
         \/ /\ check = "go"
            /\ \E o \in Objects(req) : Answer(req, "OK", NoId, o.uid)
            /\ UNCHANGED <<held, made, issued>>

Expand    == \E sound \in {ValidSize(size) : size \in Sizes} : Use("Expand", sound)
Publish   == \E sound \in PublishArguments : Use("Publish", sound)
Unpublish == Use("Unpublish", TRUE)

\* ValidateVolumeCapabilities, ListVolumes and GetCapacity raise NotImplementedError.
Unimplemented ==
    \E rpc \in {"ValidateVolumeCapabilities", "ListVolumes", "GetCapacity"} :
      Call /\ Fail([NoRequest EXCEPT !.rpc = rpc], Status(rpc, "NotImplementedError"))

-----------------------------------------------------------------------------
\* The administrator changes the secret: systems come and go, are reordered or
\* mistyped, but a system id keeps its system, and a secret of one system too.
SameSystems(x, y) ==
    /\ (x.config = <<>>) = (y.config = <<>>)
    /\ x.config = <<>> => x.conn = y.conn

EditSecret ==
    /\ last = NoAnswer /\ edits < MaxEdits /\ edits' = edits + 1
    /\ \E x \in Secrets \ {secret} : SameSystems(secret, x) /\ secret' = x
    /\ UNCHANGED <<held, made, issued, last, calls>>

\* The orchestrator has the answer.
Receive == last # NoAnswer /\ last' = NoAnswer /\ UNCHANGED <<secret, held, made, issued, calls, edits>>

Init ==
    /\ secret \in Secrets
    /\ held = {} /\ made = [s \in Systems |-> 0]
    /\ issued = {} /\ last = NoAnswer
    /\ calls = 0 /\ edits = 0

Next == \/ CreateVolume \/ CreateSnapshot
        \/ Delete("DeleteVolume", IssuedIds("volume")) \/ Delete("DeleteSnapshot", IssuedIds("snapshot"))
        \/ Expand \/ Publish \/ Unpublish \/ Unimplemented
        \/ Receive \/ EditSecret

Spec == Init /\ [][Next]_vars

-----------------------------------------------------------------------------
(***************************************************************************)
(* Properties                                                              *)
(***************************************************************************)

\* Objects are numbered by their array; what was answered was made, and has an id
\* of two or three parts.
TypeOK ==
    /\ secret \in Secrets
    /\ \A o \in held : o.uid[1] \in Systems /\ o.uid[2] \in 1..made[o.uid[1]] /\ o.kind \in {"volume", "snapshot"}
    /\ \A i \in issued : i.uid[2] \in 1..made[i.uid[1]] /\ LegalId(i.id)
    /\ calls \in 0..MaxCalls /\ edits \in 0..MaxEdits

\* The objects that were answered with the id of the last call.
Meant == {i \in issued : i.id = last.req.id}

\* A call about an id the driver has answered works on the object that was
\* answered with it, or on none: whatever systems the secret lists by now, the
\* call is not led to an object of another array.
ActsOnOwn ==
    last.uid # NoUid /\ Meant # {} /\ last.req.rpc # "CreateVolume" =>
        \E i \in Meant :
            \/ last.uid = i.uid
            \/ last.req.rpc = "CreateSnapshot" /\ \E o \in held : o.uid = last.uid /\ o.of = i.uid

\* OK to a deletion means that the object is gone: it is never mistaken for one
\* that does not exist.
DeletedWhenOk ==
    last.status = "OK" /\ last.req.rpc \in {"DeleteVolume", "DeleteSnapshot"} =>
        \A i \in Meant : \A o \in held : o.uid # i.uid

\* Two requests answered with one volume have asked for one name: prefixes, the
\* storage classes of several systems, and hashing do not make names meet.
SameVolumeSameName ==
    \A i, j \in issued : i.uid = j.uid /\ i.kind = j.kind => i.req.name = j.req.name

\* A request repeated with the same secret is answered with the volume or snapshot
\* that it was answered with before, as long as that exists: the choice of the system
\* and the name made for it lead to the object again, and no second one is made.
SameRequestSameVolume ==
    \A i, j \in issued :
        i.req = j.req /\ i.secret = j.secret /\ {i.uid, j.uid} \subseteq {o.uid : o \in held} =>
            i.uid = j.uid

\* Does the secret list a system under the ids it had?
Lists(x, old, s) ==
    /\ ValidSecret(x)
    /\ \A f \in ToSet(old.config) : f.conn = s => \E e \in ToSet(x.config) : e.id = f.id

\* A volume that was answered can be deleted, expanded, attached and detached as
\* long as the secret lists its system as it did: its id is always understood again.
KnownServed ==
    last.req.rpc \in {"DeleteVolume", "Expand", "Publish", "Unpublish"} /\ last.req.sound =>
        \A i \in Meant : i.kind = "volume" /\ Lists(secret, i.secret, i.uid[1]) =>
                             last.status \notin {"INVALID_ARGUMENT", "INTERNAL"}

\* The driver fails with INTERNAL, the code of its own errors, only if an id names
\* a system the config does not list, for a source id of too many parts, and for
\* a snapshot of a volume that is gone from an A9000.
InternalExplained ==
    last.status = "INTERNAL" =>
        \/ Len(last.req.id) = 3 /\ \A e \in ToSet(secret.config) : e.id # SystemId(last.req.id)
        \/ last.req.rpc = "CreateVolume" /\ ~LegalId(last.req.id)
        \/ last.req.rpc = "CreateSnapshot" /\ Objects(last.req) = {}

\* "source_id : id of object we should copy to volume": a volume that was answered
\* for a source holds the data of that source.
ClonedFromSource ==
    last.status = "OK" /\ last.req.rpc = "CreateVolume" /\ Meant # {} =>
        \E i \in Meant, o \in held : o.uid = last.uid /\ o.of = i.uid

\* Calls about what was answered, and repetitions of a call, are led to it, and the
\* driver fails by itself only where that is explained.
RequestsServed == TypeOK /\ KnownServed /\ SameRequestSameVolume /\ InternalExplained
=============================================================================
