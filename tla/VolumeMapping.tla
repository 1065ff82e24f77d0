---------------------------- MODULE VolumeMapping ----------------------------
(***************************************************************************)
(* ControllerPublishVolume and ControllerUnpublishVolume of the controller *)
(* server, through array_mediator_abstract.py to one of the three kinds of *)
(* array: find the array's host of a node, read the ports, look at the     *)
(* volume's mappings, pick a LUN, map.                                     *)
(*                                                                         *)
(* Each RPC is a thread, each command to the array a step.  What a step    *)
(* has read (the host, the mappings, a free LUN, the LUN to unmap) may be  *)
(* out of date when the next step uses it.                                 *)
(***************************************************************************)
EXTENDS HostLookup, RpcStatus, ArrayMediator

CONSTANTS Threads,       \* handler threads
          Volumes,       \* volume ids
          Nodes,         \* nodes of the cluster
          NodeId,        \* their ids, as HostLookup splits them
          Listing,       \* the hosts an array may have, in the order it lists them
          Arrays,        \* the kinds of array: svc, xiv, ds8k
          Defined,       \* the hosts that are defined at first
          NumLuns,       \* MAX_LUN_NUMBER - MIN_LUN_NUMBER + 1 of each kind of array
          Ds8kLuns,      \* ids of the LUNs of a host on a DS8K
          HostLun,       \* and the LUN number a Linux host sees for each
          LunTries,      \* max_lun_retries
          MaxCalls,      \* bound: calls made
          MaxTroubles    \* bound: commands that fail, restarts of the controller, volumes
                         \* deleted, and hosts defined or removed by the administrator

Hosts == {Listing[i].name : i \in DOMAIN Listing}

ASSUME MappingAssumption ==
    /\ "none" \notin Hosts /\ Defined \subseteq Hosts
    /\ Arrays \subseteq {"svc", "xiv", "ds8k"}
    /\ Ds8kLuns \subseteq Nat
    /\ \A lun \in Ds8kLuns :
          HostLun[lun] = IF lun < 256 THEN lun ELSE (lun \div 65536) + (lun % 65536) * 65536
    /\ NumLuns \in [Arrays -> Nat] /\ LunTries \in Nat \ {0}
    /\ \A a \in Arrays : LunTries <= Mediators[a].lunRetries
    /\ MaxCalls \in Nat /\ MaxTroubles \in Nat

\* What the lookup of a node finds when these hosts are defined.
HostFound ==
    [a \in Arrays |-> [hs \in SUBSET Hosts |-> [n \in Nodes |->
        GetHost(a, SelectSeq(Listing, LAMBDA h : h.name \in hs), NodeId[n])]]]

\* The hosts of the array that have a port of the node; a DS8K has no iscsi.
PortOwners ==
    [a \in Arrays |-> [n \in Nodes |->
        LET id == NodeId[n] IN
        {Listing[i].name : i \in
            {j \in DOMAIN Listing :
                /\ Len(id) \in {2, 3}
                /\ \/ \E p \in id[2], q \in Listing[j].wwns : p[1] = q[1]
                   \/ a # "ds8k" /\ Len(id) = 3 /\ \E q \in Listing[j].iqns : q[1] = id[3][1]}}]]

\* The lookup, with all that it does to read what the array lists, finds a host
\* that has a port of the node; and no host has the ports of two nodes.
ASSUME LookupAssumption ==
    \A a \in Arrays, n \in Nodes :
        /\ \A hs \in SUBSET Hosts :
              HostFound[a][hs][n].ex = "none" => HostFound[a][hs][n].host \in PortOwners[a][n]
        /\ \A m \in Nodes \ {n} : PortOwners[a][m] \cap PortOwners[a][n] = {}

VARIABLES array,         \* the kind of the array
          hosts,         \* the hosts defined on it
          exists,        \* the volumes on it
          hostmap,       \* hostmap[h][v]: the id of the LUN of v on host h, or NoLun
          loc,           \* each thread's call and local state
          granted,       \* granted[v][n]: the LUN last answered to a publish of v to
                         \* node n; NoLun since the next call; Unpublished since an
                         \* unpublish was answered OK
          outcome,       \* how a call ended, if the last step ended one
          lost,          \* lost[t]: the times another call mapped the LUN that t had chosen
          odd,           \* what happened that the code does not provide for
          calls, troubles

vars == <<array, hosts, exists, hostmap, loc, granted, outcome, lost, odd, calls, troubles>>
bounds == <<calls, troubles>>
world == <<array, hosts, exists>>

NoLun       == -1
Unpublished == -2

\* The LUNs a mediator may choose; a DS8K chooses itself.
MinLun == IF array = "xiv" THEN 1 ELSE 0
Luns   == IF array = "ds8k" THEN Ds8kLuns ELSE MinLun..(MinLun + NumLuns[array] - 1)

\* Mutated form of ScsiLunToInt: the id is taken for the number.
ScsiLunRaw(lun) == lun

\* scsilun_to_int: the two halves of a LUN of 32 bits are swapped.
ScsiLunToInt(lun) == IF lun < 256 THEN lun ELSE (lun \div 65536) + (lun % 65536) * 65536

\* The LUN number an answer carries for the id of a LUN.
Answer(lun) == IF array = "ds8k" THEN ScsiLunToInt(lun) ELSE lun

Idle == [pc |-> "idle", op |-> "none", vol |-> "none", node |-> "none", host |-> "none",
         listed |-> {}, fc |-> FALSE, then |-> "none", lun |-> NoLun, tries |-> 0]

\* No call ended; else its status, and the exception with the method it is from.
Running == [status |-> "none", method |-> "none", ex |-> "none"]

Go(t, l) == loc' = [loc EXCEPT ![t] = l] /\ outcome' = Running /\ UNCHANGED granted

\* The call ends; granted keeps what was promised.
Reply(t, status, method, ex, promise) ==
    /\ loc' = [loc EXCEPT ![t] = Idle]
    /\ outcome' = [status |-> status, method |-> method, ex |-> ex]
    /\ granted' = [granted EXCEPT ![loc[t].vol][loc[t].node] = promise]

\* A method of the mediator raises an exception, which ends the call.
Raise(t, method, ex) ==
    LET status == Status(loc[t].op, ex) IN
    Reply(t, status, method, ex,
          IF status = "OK" THEN Unpublished ELSE granted[loc[t].vol][loc[t].node])

Grant(t, lun)  == Reply(t, "OK", "none", "none", Answer(lun))
Unmapped(t)    == Reply(t, "OK", "none", "none", Unpublished)

MappedTo(v) == {h \in Hosts : hostmap[h][v] # NoLun}
InUse(h)    == {hostmap[h][v] : v \in Volumes} \ {NoLun}

\* SVC and XIV name the volume in their commands, after a lookup by its id.
ByName(l, next) == IF array = "ds8k" THEN [l EXCEPT !.pc = next]
                                     ELSE [l EXCEPT !.pc = "name", !.then = next]

-----------------------------------------------------------------------------
\* _get_detailed_hosts_list of an SVC, whose first command lists the hosts ...
ListHosts(t) ==
    LET l == loc[t] IN
    /\ l.pc = "list"
    /\ Go(t, [l EXCEPT !.pc = "host", !.listed = hosts])
    /\ UNCHANGED <<world, hostmap, lost, odd, bounds>>

\* ... and whose batch of commands reads each of them, if it is still defined.
Readable(l) == IF array = "svc" THEN l.listed \cap hosts ELSE hosts

\* get_host_by_host_identifiers, the first method of both calls.
FindHost(t) ==
    LET l == loc[t] found == HostFound[array][Readable(l)][l.node] IN
    /\ l.pc = "host"
    /\ \/ /\ found.ex # "none"
          /\ Raise(t, "get_host_by_host_identifiers", found.ex)
       \/ /\ found.ex = "none" /\ l.op = "Publish"
          /\ Go(t, [l EXCEPT !.host = found.host, !.listed = {}, !.pc = "targets",
                             !.fc = ChooseConnectivityType(found.types) = "fc"])
       \/ /\ found.ex = "none" /\ l.op = "Unpublish"
          /\ Go(t, ByName([l EXCEPT !.host = found.host, !.listed = {}], "unmap"))
    /\ UNCHANGED <<world, hostmap, lost, odd, bounds>>

\* Mutated form of ReadTargets: missing iscsi targets count as a missing host.
ReadTargetsAsHost(t) ==
    LET l == loc[t] IN
    /\ l.pc = "targets"
    /\ IF array = "svc" /\ ~l.fc THEN Raise(t, "get_iscsi_targets_by_iqn", "HostNotFoundError")
                                 ELSE Go(t, ByName(l, "mappings"))
    /\ UNCHANGED <<world, hostmap, lost, odd, bounds>>

\* get_iscsi_targets_by_iqn: only SVC asks for an address.
MayLackTargets(l) == array = "svc" /\ ~l.fc

\* get_array_fc_wwns: only DS8K misses the host.
MissesHost(l) == array = "ds8k" /\ l.host \notin hosts

\* The ports the answer will carry.
ReadTargets(t) ==
    LET l == loc[t] IN
    /\ l.pc = "targets"
    /\ \/ /\ MayLackTargets(l)
          /\ Raise(t, "get_iscsi_targets_by_iqn", "NoIscsiTargetsFoundError")
       \/ MissesHost(l) /\ Raise(t, "get_array_fc_wwns", "HostNotFoundError")
       \/ ~MissesHost(l) /\ Go(t, ByName(l, "mappings"))
    /\ UNCHANGED <<world, hostmap, lost, odd, bounds>>

\* The method whose command a thread is at.
MethodAt(step) ==
    CASE step \in {"list", "host"} -> "get_host_by_host_identifiers"
      [] step = "targets" -> "get_array_fc_wwns"
      [] step = "mappings" -> "get_volume_mappings"
      [] step \in {"lun", "map"} -> "map_volume"
      [] step \in {"unmap", "unmaplun"} -> "unmap_volume"

\* _get_volume_name_by_wwn, _get_object_name_by_wwn.
FindVolume(t) ==
    LET l == loc[t] IN
    /\ l.pc = "name"
    /\ \/ l.vol \notin exists /\ Raise(t, MethodAt(l.then), "ObjectNotFoundError")
       \/ l.vol \in exists /\ Go(t, [l EXCEPT !.pc = l.then, !.then = "none"])
    /\ UNCHANGED <<world, hostmap, lost, odd, bounds>>

\* Mutated form of ReadMappings: the mapping to another host does not count.
ReadMappingsOwn(t) ==
    LET l == loc[t] IN
    /\ l.pc = "mappings"
    /\ IF l.host \in MappedTo(l.vol)
         THEN Grant(t, hostmap[l.host][l.vol])
         ELSE Go(t, ByName([l EXCEPT !.tries = LunTries], IF array = "ds8k" THEN "map" ELSE "lun"))
    /\ UNCHANGED <<world, hostmap, lost, odd, bounds>>

\* get_volume_mappings and the idempotent case.  A volume that was deleted since
\* its lookup is an error to lsvdiskhostmap and to vol_mapping_list, and has no
\* mappings on a DS8K.
ReadMappings(t) ==
    LET l == loc[t] IN
    /\ l.pc = "mappings"
    /\ \/ l.vol \notin exists /\ array = "svc" /\ Raise(t, "get_volume_mappings", "ObjectNotFoundError")
       \/ l.vol \notin exists /\ array = "xiv" /\ Raise(t, "get_volume_mappings", "XCLIError")
       \/ MappedTo(l.vol) = {l.host} /\ Grant(t, hostmap[l.host][l.vol])
       \/ MappedTo(l.vol) \notin {{}, {l.host}} /\ Raise(t, "none", "VolumeMappedToMultipleHostsError")
       \/ /\ MappedTo(l.vol) = {} /\ (l.vol \in exists \/ array = "ds8k")
          /\ Go(t, ByName([l EXCEPT !.tries = LunTries], IF array = "ds8k" THEN "map" ELSE "lun"))
    /\ UNCHANGED <<world, hostmap, lost, odd, bounds>>

-----------------------------------------------------------------------------
\* get_first_free_lun takes the first free LUN, _get_next_available_lun any.
LunChoices(h) ==
    LET free == Luns \ InUse(h) IN
    IF array = "svc" /\ free # {} THEN {Min(free)} ELSE free

\* map_volume's list of the LUNs in use on the host.
PickLun(t) ==
    LET l == loc[t] IN
    /\ l.pc = "lun"
    /\ \/ l.host \notin hosts /\ Raise(t, "map_volume", "HostNotFoundError")
       \/ /\ l.host \in hosts /\ LunChoices(l.host) = {}
          /\ Raise(t, "map_volume", "NoAvailableLunError")
       \/ /\ l.host \in hosts
          /\ \E lun \in LunChoices(l.host) : Go(t, [l EXCEPT !.pc = "map", !.lun = lun])
    /\ UNCHANGED <<world, hostmap, lost, odd, bounds>>

\* Mutated form of LunTaken: the loop of retries is one too short.
LunTakenEarly(t) ==
    LET l == loc[t] IN
    \/ l.tries > 2 /\ Go(t, ByName([l EXCEPT !.tries = @ - 1], "lun"))
    \/ l.tries <= 2 /\ Raise(t, "map_volume", "LunAlreadyInUseError")

\* LunAlreadyInUseError: the first try and max_lun_retries - 1 more.
LunTaken(t) ==
    LET l == loc[t] IN
    \/ l.tries > 1 /\ Go(t, ByName([l EXCEPT !.tries = @ - 1], "lun"))
    \/ l.tries = 1 /\ Raise(t, "map_volume", "LunAlreadyInUseError")

\* mkvdiskhostmap -force -scsi, map_vol: refused if the volume or the host is
\* gone, if the volume has a LUN on this host (MappingError) or if the LUN is
\* taken; a mapping to another host is no obstacle.
Refused(l) ==
    CASE l.vol \notin exists -> "ObjectNotFoundError"
      [] l.vol \in exists /\ l.host \notin hosts -> "HostNotFoundError"
      [] l.vol \in exists /\ l.host \in hosts ->
            IF l.host \in MappedTo(l.vol) THEN "MappingError" ELSE "none"

\* Is the call of o about to map the LUN that l maps?
RacesFor(o, l) == loc[o].pc = "map" /\ loc[o].host = l.host /\ loc[o].lun = l.lun

MapVolume(t) ==
    LET l == loc[t] IN
    /\ l.pc = "map" /\ array # "ds8k"
    /\ \/ /\ Refused(l) # "none" /\ Raise(t, "map_volume", Refused(l))
          /\ UNCHANGED <<hostmap, lost>>
       \/ /\ Refused(l) = "none" /\ l.lun \in InUse(l.host) /\ LunTaken(t)
          /\ UNCHANGED <<hostmap, lost>>
       \/ /\ Refused(l) = "none" /\ l.lun \notin InUse(l.host)
          /\ hostmap' = [hostmap EXCEPT ![l.host][l.vol] = l.lun]
          /\ lost' = [o \in Threads |-> lost[o] + (IF RacesFor(o, l) THEN 1 ELSE 0)]
          /\ Grant(t, l.lun)
    /\ UNCHANGED <<world, odd, bounds>>

\* DS8K's map_volume: the array chooses the LUN, and refuses for want of extents
\* if it has none left.
MapAnyLun(t) ==
    LET l == loc[t] free == Luns \ InUse(l.host) IN
    /\ l.pc = "map" /\ array = "ds8k"
    /\ \/ /\ Refused(l) # "none" /\ Raise(t, "map_volume", Refused(l))
          /\ UNCHANGED hostmap
       \/ /\ Refused(l) = "none" /\ free = {} /\ Raise(t, "map_volume", "NoAvailableLunError")
          /\ UNCHANGED hostmap
       \/ /\ Refused(l) = "none"
          /\ \E lun \in free : hostmap' = [hostmap EXCEPT ![l.host][l.vol] = lun] /\ Grant(t, lun)
    /\ UNCHANGED <<world, lost, odd, bounds>>

-----------------------------------------------------------------------------
\* Mutated form of UnmapVolume: the mapping of any host of the volume goes.
UnmapVolumeAny(t) ==
    /\ loc[t].pc = "unmap" /\ array # "ds8k"
    /\ hostmap' = [h \in Hosts |-> [hostmap[h] EXCEPT ![loc[t].vol] = NoLun]]
    /\ Unmapped(t)
    /\ UNCHANGED <<world, lost, odd, bounds>>

\* rmvdiskhostmap, unmap_vol: an absent mapping or volume is the idempotent case,
\* an absent host is not.
UnmapVolume(t) ==
    LET l == loc[t] IN
    /\ l.pc = "unmap" /\ array # "ds8k"
    /\ \/ /\ l.host \notin hosts /\ Raise(t, "unmap_volume", "HostNotFoundError")
          /\ UNCHANGED hostmap
       \/ /\ l.host \in hosts /\ l.vol \notin exists /\ Raise(t, "unmap_volume", "ObjectNotFoundError")
          /\ UNCHANGED hostmap
       \/ /\ l.host \in hosts /\ l.vol \in exists /\ l.host \notin MappedTo(l.vol)
          /\ Raise(t, "unmap_volume", "VolumeAlreadyUnmappedError")
          /\ UNCHANGED hostmap
       \/ /\ l.host \in MappedTo(l.vol)
          /\ hostmap' = [hostmap EXCEPT ![l.host][l.vol] = NoLun]
          /\ Unmapped(t)
    /\ UNCHANGED <<world, lost, odd, bounds>>

\* DS8K: the LUN of the volume is read from the host's mappings ...
FindLun(t) ==
    LET l == loc[t] IN
    /\ l.pc = "unmap" /\ array = "ds8k"
    /\ \/ l.host \notin hosts /\ Raise(t, "unmap_volume", "HostNotFoundError")
       \/ /\ l.host \in hosts /\ l.host \notin MappedTo(l.vol)
          /\ Raise(t, "unmap_volume", "ObjectNotFoundError")
       \/ /\ l.host \in MappedTo(l.vol)
          /\ Go(t, [l EXCEPT !.pc = "unmaplun", !.lun = hostmap[l.host][l.vol]])
    /\ UNCHANGED <<world, hostmap, lost, odd, bounds>>

\* ... and whatever volume has that LUN by now is unmapped.
UnmapLun(t) ==
    LET l == loc[t] IN
    /\ l.pc = "unmaplun"
    /\ \/ /\ l.host \notin hosts /\ Raise(t, "unmap_volume", "HostNotFoundError")
          /\ UNCHANGED hostmap
       \/ /\ l.host \in hosts /\ l.lun \notin InUse(l.host)
          /\ Raise(t, "unmap_volume", "VolumeAlreadyUnmappedError")
          /\ UNCHANGED hostmap
       \/ /\ l.host \in hosts /\ l.lun \in InUse(l.host)
          /\ hostmap' = [hostmap EXCEPT ![l.host] =
                            [v \in Volumes |-> IF @[v] = l.lun THEN NoLun ELSE @[v]]]
          /\ Unmapped(t)
    /\ UNCHANGED <<world, lost, odd, bounds>>

-----------------------------------------------------------------------------
\* A command fails in another way; what the mediator makes of it.  The lists of
\* mappings and of LUNs of an SVC turn any error into not found.
Failures(step) ==
    LET raw == CASE array = "svc" -> "CLIFailureError" [] array = "xiv" -> "XCLIError"
                 [] array = "ds8k" -> "ClientException"
        denied == IF array = "xiv" THEN {"PermissionDeniedError"} ELSE {}
    IN CASE step = "list" -> {raw}
         [] step = "host" -> {raw} \cup (IF array = "svc" THEN {"InvalidCliResponseError"} ELSE {})
         [] step = "targets" -> {raw}
         [] step = "name" -> {raw, "IllegalObjectID"}
         [] step = "mappings" -> IF array = "svc" THEN {"ObjectNotFoundError"} ELSE {raw}
         [] step = "lun" -> IF array = "svc" THEN {"HostNotFoundError"} ELSE {raw}
         [] step = "map" -> {"MappingError"} \cup denied
         [] step \in {"unmap", "unmaplun"} -> {"UnmappingError"} \cup denied

Fault(t) ==
    LET l == loc[t] IN
    /\ l.pc # "idle" /\ troubles < MaxTroubles
    /\ troubles' = troubles + 1
    /\ \E ex \in Failures(l.pc) :
         Raise(t, MethodAt(IF l.pc = "name" THEN l.then ELSE l.pc), ex)
    /\ UNCHANGED <<world, hostmap, lost, odd, calls>>

\* DS8K: a NotFound that names neither the host nor the mapping is dropped by
\* unmap_volume, which returns as if it had unmapped.
NotFoundDropped(t) ==
    /\ loc[t].pc \in {"unmap", "unmaplun"} /\ array = "ds8k" /\ troubles < MaxTroubles
    /\ troubles' = troubles + 1
    /\ Unmapped(t)
    /\ odd' = odd \cup {"dropped"}
    /\ UNCHANGED <<world, hostmap, lost, calls>>

\* The controller is restarted and its calls get no answer.
Crash ==
    /\ troubles < MaxTroubles
    /\ \E t \in Threads : loc[t].pc # "idle"
    /\ loc' = [t \in Threads |-> Idle] /\ outcome' = Running
    /\ troubles' = troubles + 1
    /\ UNCHANGED <<world, hostmap, granted, lost, odd, calls>>

\* The orchestrator publishes and unpublishes and may ask anything again; also
\* while an earlier call about the volume is still at work, after it timed out.
Start(t) ==
    /\ loc[t].pc = "idle" /\ calls < MaxCalls
    /\ calls' = calls + 1
    /\ lost' = [lost EXCEPT ![t] = 0]
    /\ \E op \in {"Publish", "Unpublish"}, v \in Volumes, n \in Nodes :
         /\ outcome' = Running
         /\ loc' = [loc EXCEPT ![t] = [Idle EXCEPT !.pc = IF array = "svc" THEN "list" ELSE "host",
                                                 !.op = op, !.vol = v, !.node = n]]
         /\ granted' = [granted EXCEPT ![v][n] =
                            IF op = "Unpublish" \/ @ = Unpublished THEN NoLun ELSE @]
         /\ odd' = IF \E o \in Threads : loc[o].pc # "idle" /\ loc[o].vol = v
                     THEN odd \cup {"overlap"} ELSE odd
    /\ UNCHANGED <<world, hostmap, troubles>>

\* DeleteVolume removes a volume; an array refuses it for one that is mapped.
VolumeDeleted(v) ==
    /\ v \in exists /\ MappedTo(v) = {}
    /\ troubles < MaxTroubles /\ troubles' = troubles + 1
    /\ exists' = exists \ {v} /\ outcome' = Running
    /\ UNCHANGED <<array, hosts, hostmap, loc, granted, lost, odd, calls>>

\* The administrator of the array defines a host or removes one without mappings.
EditHost(h) ==
    /\ troubles < MaxTroubles /\ troubles' = troubles + 1
    /\ InUse(h) = {}
    /\ hosts' = IF h \in hosts THEN hosts \ {h} ELSE hosts \cup {h}
    /\ odd' = odd \cup {"edit"} /\ outcome' = Running
    /\ UNCHANGED <<array, exists, hostmap, loc, granted, lost, calls>>

-----------------------------------------------------------------------------
Init ==
    /\ array \in Arrays
    /\ hosts = Defined
    /\ exists = Volumes
    /\ hostmap = [h \in Hosts |-> [v \in Volumes |-> NoLun]]
    /\ loc = [t \in Threads |-> Idle]
    /\ granted = [v \in Volumes |-> [n \in Nodes |-> NoLun]]
    /\ lost = [t \in Threads |-> 0]
    /\ odd = {}
    /\ outcome = Running
    /\ calls = 0 /\ troubles = 0

Command(t) == \/ ListHosts(t) \/ FindHost(t) \/ ReadTargets(t) \/ FindVolume(t) \/ ReadMappings(t)
              \/ PickLun(t) \/ MapVolume(t) \/ MapAnyLun(t) \/ UnmapVolume(t) \/ FindLun(t) \/ UnmapLun(t)

Next == \/ \E t \in Threads : Start(t) \/ Command(t) \/ Fault(t) \/ NotFoundDropped(t)
        \/ \E v \in Volumes : VolumeDeleted(v)
        \/ \E h \in Hosts : EditHost(h)
        \/ Crash

Spec == Init /\ [][Next]_vars

-----------------------------------------------------------------------------
(***************************************************************************)
(* Properties                                                              *)
(***************************************************************************)

Owners(n) == PortOwners[array][n]

\* Every LUN on the array, in an answer or in a thread is one of the range the
\* mediator may use, and no thread has more tries than max_lun_retries.
TypeOK ==
    /\ hosts \subseteq Hosts /\ exists \subseteq Volumes
    /\ hostmap \in [Hosts -> [Volumes -> Luns \cup {NoLun}]]
    /\ \A t \in Threads : loc[t].lun \in Luns \cup {NoLun} /\ loc[t].tries \in 0..LunTries
    /\ odd \subseteq {"overlap", "edit", "dropped"}
    /\ calls \in 0..MaxCalls /\ troubles \in 0..MaxTroubles

\* The node that was answered a LUN sees the volume under that LUN number, on a
\* host that has one of its ports, until an unpublish is asked for: retries after
\* a lost race, repeated calls, restarts and edits of other hosts never leave it
\* with an old or a foreign LUN.  Only overlapping calls about one volume may.
LunHolds ==
    "overlap" \notin odd =>
        \A v \in Volumes, n \in Nodes :
            granted[v][n] \notin {NoLun, Unpublished} =>
                \E h \in Owners(n) :
                    /\ hostmap[h][v] # NoLun
                    /\ granted[v][n] = IF array = "ds8k" THEN HostLun[hostmap[h][v]] ELSE hostmap[h][v]

\* A volume is attached to one host at a time, unless calls about it overlap.
SingleHost == "overlap" \notin odd => \A v \in Volumes : \A g, h \in MappedTo(v) : g = h

\* An unpublish that was answered OK has left no mapping of the volume to a host
\* of the node, unless calls overlapped, the administrator changed the hosts, or
\* the error of a DS8K was dropped.
UnpublishedClean ==
    odd = {} => \A v \in Volumes, n \in Nodes :
        granted[v][n] = Unpublished => MappedTo(v) \cap Owners(n) = {}

\* A publish is answered that the LUNs have run out only if the host has none left,
\* or if other calls took the LUN it had chosen as often as max_lun_retries allows:
\* no try is lost to anything but a race, and none is left unused.
ExhaustedAfterRaces ==
    [][\A t \in Threads :
          loc[t].pc # "idle" /\ loc'[t].pc = "idle" /\ outcome'.status = "RESOURCE_EXHAUSTED"
              => Luns \ InUse(loc[t].host) = {} \/ lost[t] >= LunTries]_vars

\* A mapping goes away only in an unpublish of its volume; only on a DS8K, which
\* unmaps by LUN, overlapping calls can take away another volume's.
UnmapsOwn ==
    [][\A h \in Hosts, v \in Volumes :
          hostmap[h][v] # NoLun /\ hostmap'[h][v] = NoLun =>
              \/ \E t \in Threads : /\ loc[t].op = "Unpublish" /\ loc[t].vol = v
                                    /\ loc[t].host = h /\ loc'[t].pc = "idle"
              \/ array = "ds8k" /\ "overlap" \in odd]_vars

\* A node is unknown only if none of the hosts that stay defined during the lookup
\* has a port of it, however the array writes the port and whatever other host is
\* removed between the list of the hosts and the batch that reads them.
UnknownNode ==
    [][\A t \in Threads :
          loc[t].pc = "host" /\ loc'[t].pc = "idle" /\ outcome'.ex = "HostNotFoundError" =>
              Owners(loc[t].node) \cap Readable(loc[t]) = {}]_vars

\* The mediators raise what the interface declares for the method, or what is no
\* error of theirs; but for DS8K's get_array_fc_wwns, which raises an error where
\* the interface declares none, and the errors of SVC's reader and of the id filters.
Undeclared == {<<"get_array_fc_wwns", "HostNotFoundError">>,
               <<"get_host_by_host_identifiers", "InvalidCliResponseError">>,
               <<"map_volume", "IllegalObjectID">>, <<"unmap_volume", "IllegalObjectID">>}

RaisesDeclared ==
    outcome.method # "none" =>
        \/ outcome.ex \in Raises(outcome.method) \cup ForeignErrors
        \/ <<outcome.method, outcome.ex>> \in Undeclared

\* The mappings agree with the answers of publish and unpublish: a volume is on one
\* host, and on none of the node's after an unpublish.
MappedAsAnswered == TypeOK /\ SingleHost /\ UnpublishedClean
=============================================================================
