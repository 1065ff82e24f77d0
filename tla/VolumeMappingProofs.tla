------------------------- MODULE VolumeMappingProofs -------------------------
(***************************************************************************)
(* The safety of publish and unpublish for any number of calls, volumes,   *)
(* nodes, hosts, LUNs, failures, restarts and edits of hosts.              *)
(***************************************************************************)
EXTENDS VolumeMapping, WellFoundedInduction, TLAPS

Pcs == {"idle", "list", "host", "targets", "name", "mappings", "lun", "map", "unmap", "unmaplun"}

\* What lookups find.
FoundHosts == {HostFound[a][hs][n].host : a \in Arrays, hs \in SUBSET Hosts, n \in Nodes}

\* A thread: a call has a volume and a node, and its step is one of its RPC's.
LocRecs == [pc : Pcs, op : {"none", "Publish", "Unpublish"}, vol : Volumes \cup {"none"},
            node : Nodes \cup {"none"}, host : FoundHosts \cup {"none"},
            listed : SUBSET Hosts, fc : BOOLEAN,
            then : {"none", "mappings", "lun", "unmap"}, lun : Int, tries : 0..LunTries]

InStep(l) ==
    /\ l.pc # "idle" => l.op # "none" /\ l.vol \in Volumes /\ l.node \in Nodes
    /\ l.pc \in {"targets", "mappings", "lun", "map"} => l.op = "Publish"
    /\ l.pc \in {"unmap", "unmaplun"} => l.op = "Unpublish"
    /\ l.pc = "name" <=> l.then # "none"
    /\ l.then \in {"mappings", "lun"} => l.op = "Publish"
    /\ l.then = "unmap" => l.op = "Unpublish"

Locs == {l \in LocRecs : InStep(l)}

Typed ==
    /\ array \in Arrays /\ hosts \in SUBSET Hosts /\ exists \in SUBSET Volumes
    /\ hostmap \in [Hosts -> [Volumes -> Luns \cup {NoLun}]]
    /\ loc \in [Threads -> Locs]
    /\ granted \in [Volumes -> [Nodes -> Nat \cup {NoLun, Unpublished}]]
    /\ odd \in SUBSET {"overlap", "edit", "dropped"}
    /\ calls \in 0..MaxCalls /\ troubles \in 0..MaxTroubles

\* No two volumes of a host share a LUN, and what does not exist is not mapped.
Distinct ==
    /\ \A h \in Hosts : \A v, w \in Volumes : hostmap[h][v] = hostmap[h][w] /\ hostmap[h][v] # NoLun => v = w
    /\ \A v \in Volumes \ exists, h \in Hosts : hostmap[h][v] = NoLun

\* The host that the lookup finds while the hosts are as they were at first.
HostOf(n) == HostFound[array][Defined][n].host

\* As long as nobody edits the hosts, a volume is on a host that some lookup finds.
Placed ==
    odd = {} => /\ hosts = Defined
                /\ \A v \in Volumes, h \in Hosts, n \in Nodes :
                     hostmap[h][v] # NoLun /\ h \in Owners(n) => h = HostOf(n)

\* Calls that are at work on one volume are one call, unless they overlapped.
Alone ==
    "overlap" \notin odd =>
        \A t, u \in Threads :
            loc[t].pc # "idle" /\ loc[u].pc # "idle" /\ loc[t].vol = loc[u].vol => t = u

\* Has the call seen that the volume is not mapped?
Choosing(l) == l.pc \in {"lun", "map"} \/ l.then = "lun"

\* What a call has read is still so, unless calls overlapped.
Knows(l) ==
    /\ l.lun \in Luns \cup {NoLun}
    /\ l.pc = "map" /\ array # "ds8k" => l.lun # NoLun
    /\ l.pc = "unmaplun" => array = "ds8k"
    /\ l.pc \notin {"idle", "list", "host"} => l.host \in Owners(l.node) /\ (odd = {} => l.host = HostOf(l.node))
    /\ l.pc = "host" /\ array = "svc" /\ odd = {} => l.listed = Defined
    /\ l.pc # "idle" /\ "overlap" \notin odd =>
         /\ Choosing(l) => \A h \in Hosts : hostmap[h][l.vol] = NoLun
         /\ l.pc = "unmaplun" => l.host \in Hosts /\ l.lun # NoLun /\ hostmap[l.host][l.vol] = l.lun
         /\ l.op = "Unpublish" => granted[l.vol][l.node] = NoLun
         /\ odd = {} /\ l.op = "Publish" => granted[l.vol][l.node] # Unpublished

Known == \A t \in Threads : Knows(loc[t])

\* The inductive invariant.
IInv == /\ Typed /\ Distinct /\ Placed /\ Alone /\ Known
        /\ SingleHost /\ LunHolds /\ UnpublishedClean /\ RaisesDeclared

-----------------------------------------------------------------------------
(***************************************************************************)
(* The operators of the model.                                             *)
(***************************************************************************)

\* LUNs are numbers, and none is one of the markers.
LEMMA LunsAreNumbers == array \in Arrays => Luns \subseteq Nat /\ NoLun \notin Luns
  <1> SUFFICES ASSUME array \in Arrays PROVE Luns \subseteq Nat
    BY DEF NoLun
  <1>1. CASE array = "ds8k"
    BY <1>1, MappingAssumption DEF Luns
  <1>2. CASE array # "ds8k"
    BY <1>2, MappingAssumption DEF Luns, MinLun
  <1> QED
    BY <1>1, <1>2

\* The LUN number in an answer is the one the node sees.
LEMMA AnswerIs ==
  ASSUME array \in Arrays, NEW lun \in Luns
  PROVE  /\ Answer(lun) \in Nat
         /\ Answer(lun) = IF array = "ds8k" THEN HostLun[lun] ELSE lun
  <1>1. lun \in Nat
    BY LunsAreNumbers
  <1>2. ScsiLunToInt(lun) \in Nat
    BY <1>1 DEF ScsiLunToInt
  <1>3. array = "ds8k" => ScsiLunToInt(lun) = HostLun[lun]
    BY MappingAssumption DEF ScsiLunToInt, Luns
  <1> QED
    BY <1>1, <1>2, <1>3 DEF Answer

\* A mediator chooses a LUN that is free.
LEMMA ChoicesAreFree ==
  ASSUME array \in Arrays, NEW h, NEW lun \in LunChoices(h)
  PROVE  lun \in Luns /\ lun \notin InUse(h)
  <1> DEFINE free == Luns \ InUse(h)
  <1>1. ASSUME free # {} PROVE Min(free) \in free
    <2>1. free \subseteq Nat
      BY LunsAreNumbers
    <2>2. PICK x \in free : \A y \in free : ~(<<y, x>> \in OpToRel(<, Nat))
      BY <1>1, <2>1, NatLessThanWellFounded, WFMin
    <2>3. \A y \in free : ~(y < x)
      BY <2>1, <2>2, Zenon DEF OpToRel
    <2>4. \A y \in free : x <= y
      BY <2>1, <2>3
    <2> QED
      BY <2>4 DEF Min
  <1> QED
    BY <1>1 DEF LunChoices

\* The hosts with a port of a node are hosts, and of this node only.
LEMMA OwnersApart ==
  ASSUME array \in Arrays, NEW n \in Nodes
  PROVE  Owners(n) \subseteq Hosts /\ \A m \in Nodes : m # n => Owners(m) \cap Owners(n) = {}
  <1>1. PortOwners[array][n] \subseteq Hosts
    BY DEF PortOwners, Hosts
  <1>2. \A m \in Nodes \ {n} : PortOwners[array][m] \cap PortOwners[array][n] = {}
    BY LookupAssumption
  <1> QED
    BY <1>1, <1>2 DEF Owners

\* A lookup that succeeds finds a host with a port of the node.
LEMMA LookupFinds ==
  ASSUME array \in Arrays, NEW hs \in SUBSET Hosts, NEW n \in Nodes
  PROVE  /\ HostFound[array][hs][n].host \in FoundHosts
         /\ HostFound[array][hs][n].ex = "none" => HostFound[array][hs][n].host \in Owners(n)
         /\ HostFound[array][hs][n].ex \in
              {"none", "HostNotFoundError", "MultipleHostsFoundError", "InvalidCliResponseError"}
  <1>1. HostFound[array][hs][n].host \in FoundHosts
    BY DEF FoundHosts
  <1>2. HostFound[array][hs][n].ex = "none" => HostFound[array][hs][n].host \in Owners(n)
    BY LookupAssumption DEF Owners
  <1>3. ASSUME NEW listed, NEW id
        PROVE  GetHost(array, listed, id).ex \in
                 {"none", "HostNotFoundError", "MultipleHostsFoundError", "InvalidCliResponseError"}
    <2> DEFINE E == {"none", "HostNotFoundError", "MultipleHostsFoundError", "InvalidCliResponseError"}
    <2>1. \A h, types : Found(h, types).ex \in E
      BY DEF Found
    <2>2. \A ex \in E : NotFound(ex).ex \in E
      BY DEF NotFound
    <2>3. SvcHost(listed, id).ex \in E
      BY <2>1, <2>2 DEF SvcHost
    <2>4. XivHost(listed, id).ex \in E
      BY <2>1, <2>2 DEF XivHost
    <2>5. Ds8kHost(listed, id).ex \in E
      BY <2>1, <2>2 DEF Ds8kHost
    <2>6. array \in {"svc", "xiv", "ds8k"}
      BY MappingAssumption
    <2> HIDE DEF E
    <2>7. "HostNotFoundError" \in E
      BY DEF E
    <2>8. GetHost(array, listed, id).ex \in E
      BY <2>2, <2>3, <2>4, <2>5, <2>6, <2>7 DEF GetHost
    <2> QED
      BY <2>8 DEF E
  <1>4. HostFound[array][hs][n]
          = GetHost(array, SelectSeq(Listing, LAMBDA h : h.name \in hs), NodeId[n])
    BY DEF HostFound
  <1> QED
    BY <1>1, <1>2, <1>3, <1>4

\* An exception never makes a publish OK, and only two do an unpublish.
LEMMA StatusIs ==
  ASSUME NEW ex, ex # "none"
  PROVE  /\ Status("Publish", ex) # "OK"
         /\ Status("Unpublish", ex) = "OK" => ex \in {"VolumeAlreadyUnmappedError", "ObjectNotFoundError"}
  <1>1. CommonStatus(ex) # "OK"
    BY DEF CommonStatus
  <1>2. Status("Publish", ex) = PublishStatus(ex) /\ Status("Unpublish", ex) = UnpublishStatus(ex)
    BY DEF Status
  <1> QED
    BY <1>1, <1>2 DEF PublishStatus, UnpublishStatus

\* The errors that the methods of the publish calls declare.
LEMMA RaisesIs ==
  /\ Raises("get_volume_mappings") = {"ObjectNotFoundError", "IllegalObjectID"}
  /\ Raises("map_volume") = {"NoAvailableLunError", "LunAlreadyInUseError", "ObjectNotFoundError",
                             "HostNotFoundError", "PermissionDeniedError", "MappingError"}
  /\ Raises("unmap_volume") = {"VolumeAlreadyUnmappedError", "ObjectNotFoundError", "HostNotFoundError",
                               "PermissionDeniedError", "UnmappingError"}
  /\ Raises("get_iscsi_targets_by_iqn") = {"PermissionDeniedError", "NoIscsiTargetsFoundError"}
  /\ Raises("get_host_by_host_identifiers") = {"HostNotFoundError", "MultipleHostsFoundError",
                                               "PermissionDeniedError"}
  <1>1. /\ DOMAIN VolumeErrors = {"create_volume", "copy_to_existing_volume_from_source", "delete_volume",
                                  "get_volume", "expand_volume"}
        /\ DOMAIN AttachErrors = {"get_volume_mappings", "map_volume", "unmap_volume"}
        /\ DOMAIN SnapshotErrors = {"get_snapshot", "get_object_by_id", "create_snapshot", "delete_snapshot"}
        /\ DOMAIN HostErrors = {"get_iscsi_targets_by_iqn", "get_array_fc_wwns",
                                "get_host_by_host_identifiers"}
    BY DEF VolumeErrors, AttachErrors, SnapshotErrors, HostErrors
  <1>2. \A m \in DOMAIN AttachErrors : Raises(m) = AttachErrors[m]
    BY <1>1 DEF Raises
  <1>3. \A m \in DOMAIN HostErrors : Raises(m) = HostErrors[m]
    BY <1>1 DEF Raises
  <1> QED
    BY <1>1, <1>2, <1>3 DEF AttachErrors, HostErrors

-----------------------------------------------------------------------------
(***************************************************************************)
(* What steps have in common.                                              *)
(***************************************************************************)

\* The LUNs, the owners of ports and the lookups depend on the kind of array only.
LEMMA ArrayKept ==
  ASSUME array' = array
  PROVE  /\ Luns' = Luns
         /\ \A n : Owners(n)' = Owners(n) /\ HostOf(n)' = HostOf(n)
  BY DEF Luns, MinLun, Owners, HostOf

\* An idle thread.
LEMMA IdleIs ==
  /\ Idle \in Locs /\ Idle.pc = "idle"
  /\ array \in Arrays => Knows(Idle)
  <1>1. Idle \in LocRecs
    BY MappingAssumption DEF Idle, LocRecs, Pcs, NoLun
  <1>2. InStep(Idle)
    BY DEF Idle, InStep
  <1>3. Idle.pc = "idle" /\ Idle.lun = NoLun
    BY DEF Idle
  <1>4. array \in Arrays => Knows(Idle)
    BY <1>3 DEF Knows
  <1> QED
    BY <1>1, <1>2, <1>3, <1>4 DEF Locs

\* The next step, with or without the lookup of the volume's name before it.
LEMMA ByNameIs ==
  ASSUME NEW l \in LocRecs, NEW next \in Pcs, l.then = "none",
         array = "ds8k" \/ next \in {"mappings", "lun", "unmap"}, NEW m, m = ByName(l, next)
  PROVE  /\ m \in LocRecs
         /\ m.op = l.op /\ m.vol = l.vol /\ m.node = l.node /\ m.host = l.host /\ m.lun = l.lun
         /\ array = "ds8k" => m.pc = next /\ m.then = "none"
         /\ array # "ds8k" => m.pc = "name" /\ m.then = next
  <1>1. CASE array = "ds8k"
    BY <1>1 DEF ByName, LocRecs, Pcs
  <1>2. CASE array # "ds8k"
    BY <1>2 DEF ByName, LocRecs, Pcs
  <1> QED
    BY <1>1, <1>2

\* A step of the call of t leaves the calls about other volumes as they are.
LEMMA CallStep ==
  ASSUME IInv, NEW t \in Threads, NEW m \in Locs, loc[t].pc # "idle",
         loc' = [loc EXCEPT ![t] = m], m.pc # "idle" => m.vol = loc[t].vol,
         array' = array, odd \subseteq odd', "overlap" \in odd' => "overlap" \in odd,
         "overlap" \notin odd =>
            \A v \in Volumes : v # loc[t].vol =>
                /\ \A h \in Hosts : hostmap'[h][v] = hostmap[h][v]
                /\ \A n \in Nodes : granted'[v][n] = granted[v][n],
         Knows(m)'
  PROVE  loc' \in [Threads -> Locs] /\ Alone' /\ Known'
  <1>1. loc' \in [Threads -> Locs] /\ \A u \in Threads : loc'[u] = IF u = t THEN m ELSE loc[u]
    BY DEF IInv, Typed
  <1>2. Alone'
    BY <1>1 DEF IInv, Alone
  <1>3. ASSUME NEW u \in Threads, u # t PROVE Knows(loc[u])'
    <2> DEFINE l == loc[u]
    <2>1. loc'[u] = l
      BY <1>1, <1>3
    <2>2. PICK k : k = l
      OBVIOUS
    <2>3. Knows(k) /\ k \in Locs
      BY <2>2 DEF IInv, Known, Typed
    <2>4. k.pc # "idle" /\ "overlap" \notin odd => k.vol # loc[t].vol /\ k.vol \in Volumes /\ k.node \in Nodes
      BY <1>3, <2>2, <2>3 DEF IInv, Alone, Locs, InStep
    <2>5. odd' = {} => odd = {}
      OBVIOUS
    <2>6. Luns' = Luns /\ \A n : Owners(n)' = Owners(n) /\ HostOf(n)' = HostOf(n)
      BY ArrayKept
    <2>7. k.pc # "idle" /\ "overlap" \notin odd =>
            /\ \A h \in Hosts : hostmap'[h][k.vol] = hostmap[h][k.vol]
            /\ granted'[k.vol][k.node] = granted[k.vol][k.node]
      BY <2>4
    <2>8. "overlap" \notin odd' => "overlap" \notin odd
      OBVIOUS
    <2>9. Knows(k)'
      BY <2>3, <2>5, <2>6, <2>7, <2>8 DEF Knows, Choosing, NoLun, Unpublished
    <2> QED
      BY <2>1, <2>2, <2>9 DEF Knows
  <1>4. Knows(loc[t])'
    BY <1>1 DEF Knows
  <1>5. Known'
    BY <1>3, <1>4 DEF Known
  <1> QED
    BY <1>1, <1>2, <1>5

\* What depends on the mappings only.
LEMMA MapsKept ==
  ASSUME IInv, array' = array, hosts' = hosts, exists' = exists, hostmap' = hostmap, odd \subseteq odd'
  PROVE  /\ Distinct' /\ Placed' /\ SingleHost'
         /\ hostmap' \in [Hosts -> [Volumes -> Luns' \cup {NoLun}]]
  <1>1. odd' = {} => odd = {}
    OBVIOUS
  <1>2. Luns' = Luns /\ \A n : Owners(n)' = Owners(n) /\ HostOf(n)' = HostOf(n)
    BY ArrayKept
  <1>3. Distinct'
    BY DEF IInv, Distinct, NoLun
  <1>4. Placed'
    BY <1>1, <1>2 DEF IInv, Placed, NoLun
  <1>5. SingleHost'
    BY DEF IInv, SingleHost, MappedTo, NoLun
  <1> QED
    BY <1>2, <1>3, <1>4, <1>5 DEF IInv, Typed

\* The promise about a volume and a node changes, the mappings do not.
LEMMA PromiseStep ==
  ASSUME IInv, NEW v \in Volumes, NEW n \in Nodes, array' = array, hostmap' = hostmap, odd \subseteq odd',
         \A w \in Volumes, k \in Nodes : w # v \/ k # n => granted'[w][k] = granted[w][k],
         "overlap" \notin odd /\ granted'[v][n] \notin {NoLun, Unpublished} =>
            \E h \in Owners(n) :
               /\ hostmap[h][v] # NoLun
               /\ granted'[v][n] = IF array = "ds8k" THEN HostLun[hostmap[h][v]] ELSE hostmap[h][v],
         odd' = {} /\ granted'[v][n] = Unpublished => MappedTo(v) \cap Owners(n) = {}
  PROVE  LunHolds' /\ UnpublishedClean'
  <1>1. \A k : Owners(k)' = Owners(k)
    BY ArrayKept
  <1>2. LunHolds'
    BY <1>1 DEF IInv, LunHolds, NoLun, Unpublished
  <1>3. UnpublishedClean'
    <2>1. odd' = {} => odd = {}
      OBVIOUS
    <2>2. \A w : MappedTo(w)' = MappedTo(w)
      BY DEF MappedTo, NoLun
    <2> QED
      BY <1>1, <2>1, <2>2 DEF IInv, UnpublishedClean, Unpublished
  <1> QED
    BY <1>2, <1>3

\* A thread, its step and what it knows.
LEMMA LocIs ==
  ASSUME IInv, NEW t \in Threads
  PROVE  /\ loc[t] \in LocRecs /\ InStep(loc[t]) /\ Knows(loc[t]) /\ array \in Arrays
         /\ loc[t].pc # "idle" => loc[t].vol \in Volumes /\ loc[t].node \in Nodes /\ loc[t].op # "none"
  BY DEF IInv, Typed, Locs, InStep, Known

\* The call of t goes on, and nothing else changes.
LEMMA GoStep ==
  ASSUME IInv, NEW t \in Threads, loc[t].pc # "idle", NEW m \in LocRecs, InStep(m), m.vol = loc[t].vol,
         Go(t, m), UNCHANGED <<world, hostmap, odd, bounds>>, Knows(m)
  PROVE  IInv'
  <1>1. /\ array' = array /\ hosts' = hosts /\ exists' = exists /\ hostmap' = hostmap /\ odd' = odd
        /\ calls' = calls /\ troubles' = troubles
    BY DEF world, bounds
  <1>2. loc' = [loc EXCEPT ![t] = m] /\ granted' = granted /\ outcome' = Running
    BY DEF Go
  <1>3. Luns' = Luns /\ \A n : Owners(n)' = Owners(n) /\ HostOf(n)' = HostOf(n)
    BY <1>1, ArrayKept
  <1>4. Knows(m)'
    BY <1>1, <1>2, <1>3 DEF Knows, Choosing, NoLun, Unpublished
  <1>5. loc' \in [Threads -> Locs] /\ Alone' /\ Known'
    BY <1>1, <1>2, <1>4, CallStep DEF Locs
  <1>6. Distinct' /\ Placed' /\ SingleHost'
    BY <1>1, MapsKept
  <1>7. Typed'
    BY <1>1, <1>2, <1>3, <1>5 DEF IInv, Typed, NoLun, Unpublished
  <1>8. LunHolds'
    BY <1>1, <1>2, <1>3 DEF IInv, LunHolds, NoLun, Unpublished
  <1>9. UnpublishedClean'
    BY <1>1, <1>2, <1>3 DEF IInv, UnpublishedClean, MappedTo, NoLun, Unpublished
  <1>10. RaisesDeclared'
    BY <1>2 DEF RaisesDeclared, Running
  <1> QED
    BY <1>5, <1>6, <1>7, <1>8, <1>9, <1>10 DEF IInv

\* The call of t ends with an answer that is true of the mappings, which stay.
LEMMA ReplyStep ==
  ASSUME IInv, NEW t \in Threads, loc[t].pc # "idle", NEW status, NEW method, NEW ex,
         NEW p \in Nat \cup {NoLun, Unpublished}, Reply(t, status, method, ex, p),
         UNCHANGED <<world, hostmap>>, odd' \in SUBSET {"overlap", "edit", "dropped"},
         odd \subseteq odd', "overlap" \in odd' => "overlap" \in odd,
         calls' \in 0..MaxCalls, troubles' \in 0..MaxTroubles,
         method # "none" => ex \in Raises(method) \cup ForeignErrors \/ <<method, ex>> \in Undeclared,
         "overlap" \notin odd /\ p \notin {NoLun, Unpublished} =>
            \E h \in Owners(loc[t].node) :
               /\ hostmap[h][loc[t].vol] # NoLun
               /\ p = IF array = "ds8k" THEN HostLun[hostmap[h][loc[t].vol]] ELSE hostmap[h][loc[t].vol],
         odd' = {} /\ p = Unpublished => MappedTo(loc[t].vol) \cap Owners(loc[t].node) = {}
  PROVE  IInv'
  <1>1. array' = array /\ hosts' = hosts /\ exists' = exists /\ hostmap' = hostmap
    BY DEF world
  <1>2. PICK v \in Volumes, n \in Nodes : v = loc[t].vol /\ n = loc[t].node
    BY LocIs
  <1>3. /\ loc' = [loc EXCEPT ![t] = Idle]
        /\ outcome' = [status |-> status, method |-> method, ex |-> ex]
        /\ granted' = [granted EXCEPT ![v][n] = p]
    BY <1>2 DEF Reply
  <1>4. /\ granted' \in [Volumes -> [Nodes -> Nat \cup {NoLun, Unpublished}]]
        /\ granted'[v][n] = p
        /\ \A w \in Volumes, k \in Nodes : w # v \/ k # n => granted'[w][k] = granted[w][k]
    BY <1>3 DEF IInv, Typed
  <1>5. LunHolds' /\ UnpublishedClean'
    <2>1. "overlap" \notin odd /\ granted'[v][n] \notin {NoLun, Unpublished} =>
            \E h \in Owners(n) :
               /\ hostmap[h][v] # NoLun
               /\ granted'[v][n] = IF array = "ds8k" THEN HostLun[hostmap[h][v]] ELSE hostmap[h][v]
      BY <1>2, <1>4
    <2>2. odd' = {} /\ granted'[v][n] = Unpublished => MappedTo(v) \cap Owners(n) = {}
      BY <1>2, <1>4
    <2> QED
      BY <1>1, <1>4, <2>1, <2>2, PromiseStep
  <1>6. Distinct' /\ Placed' /\ SingleHost'
        /\ hostmap' \in [Hosts -> [Volumes -> Luns' \cup {NoLun}]]
    BY <1>1, MapsKept
  <1>7. Knows(Idle)'
    <2>1. Idle.pc = "idle" /\ Idle.lun = NoLun
      BY DEF Idle
    <2> QED
      BY <2>1 DEF Knows, NoLun
  <1>8. loc' \in [Threads -> Locs] /\ Alone' /\ Known'
    BY <1>1, <1>2, <1>3, <1>4, <1>7, IdleIs, CallStep
  <1>9. Typed'
    BY <1>1, <1>4, <1>6, <1>8 DEF IInv, Typed, NoLun, Unpublished
  <1>10. RaisesDeclared'
    BY <1>3 DEF RaisesDeclared
  <1> QED
    BY <1>6, <1>8, <1>9, <1>10, <1>5 DEF IInv

\* The call of t ends with an exception.
LEMMA RaiseStep ==
  ASSUME IInv, NEW t \in Threads, loc[t].pc # "idle", NEW method, NEW ex, Raise(t, method, ex),
         UNCHANGED <<world, hostmap, odd, calls>>, troubles' \in 0..MaxTroubles, ex # "none",
         method # "none" => ex \in Raises(method) \cup ForeignErrors \/ <<method, ex>> \in Undeclared,
         loc[t].op = "Unpublish" /\ ex \in {"VolumeAlreadyUnmappedError", "ObjectNotFoundError"} /\ odd = {}
            => MappedTo(loc[t].vol) \cap Owners(loc[t].node) = {}
  PROVE  IInv'
  <1>1. PICK v \in Volumes, n \in Nodes : v = loc[t].vol /\ n = loc[t].node
    BY LocIs
  <1>2. loc[t].op \in {"Publish", "Unpublish"}
    BY LocIs DEF LocRecs
  <1>3. PICK status : status = Status(loc[t].op, ex)
    OBVIOUS
  <1>4. PICK p : p = IF status = "OK" THEN Unpublished ELSE granted[v][n]
    OBVIOUS
  <1>5. Reply(t, status, method, ex, p)
    BY <1>1, <1>3, <1>4 DEF Raise
  <1>6. status = "OK" => loc[t].op = "Unpublish" /\ ex \in {"VolumeAlreadyUnmappedError", "ObjectNotFoundError"}
    BY <1>2, <1>3, StatusIs
  <1>7. granted[v][n] \in Nat \cup {NoLun, Unpublished}
    BY DEF IInv, Typed
  <1>8. p \in Nat \cup {NoLun, Unpublished}
    BY <1>4, <1>7
  <1>9. "overlap" \notin odd /\ p \notin {NoLun, Unpublished} =>
            \E h \in Owners(n) :
               /\ hostmap[h][v] # NoLun
               /\ p = IF array = "ds8k" THEN HostLun[hostmap[h][v]] ELSE hostmap[h][v]
    BY <1>4 DEF IInv, LunHolds
  <1>10. odd = {} /\ p = Unpublished => MappedTo(v) \cap Owners(n) = {}
    BY <1>1, <1>4, <1>6 DEF IInv, UnpublishedClean
  <1>11. calls' \in 0..MaxCalls /\ odd \in SUBSET {"overlap", "edit", "dropped"} /\ odd' = odd
    BY DEF IInv, Typed
  <1> QED
    BY <1>1, <1>5, <1>8, <1>9, <1>10, <1>11, ReplyStep

\* The call of t maps its volume to its host under a free LUN and answers the LUN.
LEMMA MapStep ==
  ASSUME IInv, NEW t \in Threads, loc[t].pc = "map", Refused(loc[t]) = "none",
         NEW lun \in Luns, lun \notin InUse(loc[t].host),
         hostmap' = [hostmap EXCEPT ![loc[t].host][loc[t].vol] = lun],
         Grant(t, lun), UNCHANGED <<world, odd, bounds>>
  PROVE  IInv'
  <1>1. PICK v \in Volumes, n \in Nodes, h \in {loc[t].host} : v = loc[t].vol /\ n = loc[t].node /\ h = loc[t].host
    BY LocIs
  <1>2. /\ array' = array /\ hosts' = hosts /\ exists' = exists /\ odd' = odd
        /\ calls' = calls /\ troubles' = troubles
    BY DEF world, bounds
  <1>3. Luns' = Luns /\ \A k : Owners(k)' = Owners(k) /\ HostOf(k)' = HostOf(k)
    BY <1>2, ArrayKept
  <1>4. v \in exists /\ h \in hosts /\ h \in Hosts
    BY <1>1 DEF Refused, IInv, Typed
  <1>5. /\ h \in Owners(n) /\ (odd = {} => h = HostOf(n))
        /\ "overlap" \notin odd => \A g \in Hosts : hostmap[g][v] = NoLun
    BY <1>1, LocIs DEF Knows, Choosing
  <1>6. lun \in Nat /\ lun # NoLun /\ array \in Arrays
    BY LunsAreNumbers, LocIs DEF NoLun
  <1>7. /\ hostmap' \in [Hosts -> [Volumes -> Luns \cup {NoLun}]]
        /\ \A g \in Hosts, w \in Volumes :
              hostmap'[g][w] = IF g = h /\ w = v THEN lun ELSE hostmap[g][w]
    BY <1>1, <1>4 DEF IInv, Typed
  <1>8. \A w \in Volumes : hostmap[h][w] # lun
    BY <1>1, <1>6 DEF InUse
  <1>9. PICK p \in Nat : p = Answer(lun) /\ p = IF array = "ds8k" THEN HostLun[lun] ELSE lun
    BY <1>6, AnswerIs
  <1>10. /\ loc' = [loc EXCEPT ![t] = Idle]
         /\ outcome' = [status |-> "OK", method |-> "none", ex |-> "none"]
         /\ granted' = [granted EXCEPT ![v][n] = p]
    BY <1>1, <1>9 DEF Grant, Reply
  <1>11. /\ granted' \in [Volumes -> [Nodes -> Nat \cup {NoLun, Unpublished}]]
         /\ granted'[v][n] = p
         /\ \A w \in Volumes, k \in Nodes : w # v \/ k # n => granted'[w][k] = granted[w][k]
    BY <1>10 DEF IInv, Typed
  <1>12. Distinct'
    <2>1. \A g \in Hosts : \A u, w \in Volumes :
             hostmap'[g][u] = hostmap'[g][w] /\ hostmap'[g][u] # NoLun => u = w
      BY <1>7, <1>8 DEF IInv, Distinct
    <2>2. \A w \in Volumes \ exists, g \in Hosts : hostmap'[g][w] = NoLun
      BY <1>4, <1>7 DEF IInv, Distinct
    <2> QED
      BY <1>2, <2>1, <2>2 DEF Distinct, NoLun
  <1>13. Placed'
    <2>1. ASSUME odd = {}, NEW w \in Volumes, NEW g \in Hosts, NEW k \in Nodes,
                 hostmap'[g][w] # NoLun, g \in Owners(k)
          PROVE  g = HostOf(k)
      <3>1. CASE g = h /\ w = v
        <4>1. k = n
          BY <1>5, <1>6, <2>1, <3>1, OwnersApart
        <4> QED
          BY <1>5, <2>1, <3>1, <4>1
      <3>2. CASE ~(g = h /\ w = v)
        BY <1>7, <2>1, <3>2 DEF IInv, Placed
      <3> QED
        BY <3>1, <3>2
    <2>2. odd = {} => hosts = Defined
      BY DEF IInv, Placed
    <2> QED
      BY <1>2, <1>3, <2>1, <2>2 DEF Placed, NoLun
  <1>14. SingleHost'
    BY <1>2, <1>5, <1>7 DEF IInv, SingleHost, MappedTo, NoLun
  <1>15. LunHolds'
    <2>1. ASSUME "overlap" \notin odd, NEW w \in Volumes, NEW k \in Nodes,
                 granted'[w][k] \notin {NoLun, Unpublished}
          PROVE  \E g \in Owners(k) :
                    /\ hostmap'[g][w] # NoLun
                    /\ granted'[w][k] = IF array = "ds8k" THEN HostLun[hostmap'[g][w]] ELSE hostmap'[g][w]
      <3>1. CASE w = v /\ k = n
        <4>1. hostmap'[h][v] = lun
          BY <1>4, <1>7
        <4> QED
          BY <1>5, <1>6, <1>9, <1>11, <3>1, <4>1
      <3>2. CASE ~(w = v /\ k = n)
        <4>1. granted'[w][k] = granted[w][k]
          BY <1>11, <3>2
        <4>2. PICK g \in Owners(k) :
                    /\ hostmap[g][w] # NoLun
                    /\ granted[w][k] = IF array = "ds8k" THEN HostLun[hostmap[g][w]] ELSE hostmap[g][w]
          BY <2>1, <4>1 DEF IInv, LunHolds
        <4>3. g \in Hosts
          BY <1>6, OwnersApart
        <4>4. w # v
          BY <1>5, <2>1, <4>2, <4>3
        <4>5. hostmap'[g][w] = hostmap[g][w]
          BY <1>7, <4>3, <4>4
        <4> QED
          BY <4>1, <4>2, <4>5
      <3> QED
        BY <3>1, <3>2
    <2> QED
      BY <1>2, <1>3, <2>1 DEF LunHolds, NoLun, Unpublished
  <1>16. UnpublishedClean'
    <2>1. ASSUME odd = {}, NEW w \in Volumes, NEW k \in Nodes, granted'[w][k] = Unpublished,
                 NEW g \in Hosts, g \in Owners(k)
          PROVE  hostmap'[g][w] = NoLun
      <3>1. ~(w = v /\ k = n)
        BY <1>11, <2>1 DEF Unpublished
      <3>2. hostmap[g][w] = NoLun
        BY <1>11, <2>1, <3>1 DEF IInv, UnpublishedClean, MappedTo
      <3>3. w = v => g # h
        BY <1>5, <1>6, <2>1, <3>1, OwnersApart
      <3> QED
        BY <1>7, <3>2, <3>3
    <2> QED
      BY <1>2, <1>3, <2>1 DEF UnpublishedClean, MappedTo, NoLun, Unpublished
  <1>17. Knows(Idle)'
    <2>1. Idle.pc = "idle" /\ Idle.lun = NoLun
      BY DEF Idle
    <2> QED
      BY <2>1 DEF Knows, NoLun
  <1>18. loc' \in [Threads -> Locs] /\ Alone' /\ Known'
    BY <1>1, <1>2, <1>7, <1>10, <1>11, <1>17, IdleIs, CallStep
  <1>19. Typed'
    BY <1>2, <1>3, <1>7, <1>11, <1>18 DEF IInv, Typed, NoLun, Unpublished
  <1>20. RaisesDeclared'
    BY <1>10 DEF RaisesDeclared
  <1> QED
    BY <1>12, <1>13, <1>14, <1>15, <1>16, <1>18, <1>19, <1>20 DEF IInv

\* The call of t takes the mapping of its volume to its host away and answers OK;
\* a LUN that was read while calls overlapped may be another volume's.
LEMMA UnmapStep ==
  ASSUME IInv, NEW t \in Threads, loc[t].pc \in {"unmap", "unmaplun"}, loc[t].host \in Hosts,
         hostmap' \in [Hosts -> [Volumes -> Luns \cup {NoLun}]],
         \A g \in Hosts, w \in Volumes : hostmap'[g][w] \in {hostmap[g][w], NoLun},
         "overlap" \notin odd =>
            \A g \in Hosts, w \in Volumes :
                hostmap'[g][w] = IF g = loc[t].host /\ w = loc[t].vol THEN NoLun ELSE hostmap[g][w],
         Unmapped(t), UNCHANGED <<world, odd, bounds>>
  PROVE  IInv'
  <1>1. PICK v \in Volumes, n \in Nodes, h \in Hosts : v = loc[t].vol /\ n = loc[t].node /\ h = loc[t].host
    BY LocIs
  <1>2. /\ array' = array /\ hosts' = hosts /\ exists' = exists /\ odd' = odd
        /\ calls' = calls /\ troubles' = troubles
    BY DEF world, bounds
  <1>3. Luns' = Luns /\ \A k : Owners(k)' = Owners(k) /\ HostOf(k)' = HostOf(k)
    BY <1>2, ArrayKept
  <1>4. h \in Owners(n) /\ (odd = {} => h = HostOf(n)) /\ array \in Arrays
    BY <1>1, LocIs DEF Knows
  <1>5. /\ loc' = [loc EXCEPT ![t] = Idle]
        /\ outcome' = [status |-> "OK", method |-> "none", ex |-> "none"]
        /\ granted' = [granted EXCEPT ![v][n] = Unpublished]
    BY <1>1 DEF Unmapped, Reply
  <1>6. /\ granted' \in [Volumes -> [Nodes -> Nat \cup {NoLun, Unpublished}]]
        /\ granted'[v][n] = Unpublished
        /\ \A w \in Volumes, k \in Nodes : w # v \/ k # n => granted'[w][k] = granted[w][k]
    BY <1>5 DEF IInv, Typed
  <1>7. "overlap" \notin odd =>
            \A g \in Hosts, w \in Volumes :
                hostmap'[g][w] = IF g = h /\ w = v THEN NoLun ELSE hostmap[g][w]
    BY <1>1
  <1>8. Distinct'
    BY <1>2 DEF IInv, Distinct, NoLun
  <1>9. Placed'
    BY <1>2, <1>3 DEF IInv, Placed, NoLun
  <1>10. SingleHost'
    BY <1>2 DEF IInv, SingleHost, MappedTo, NoLun
  <1>11. LunHolds'
    <2>1. ASSUME "overlap" \notin odd, NEW w \in Volumes, NEW k \in Nodes,
                 granted'[w][k] \notin {NoLun, Unpublished}
          PROVE  \E g \in Owners(k) :
                    /\ hostmap'[g][w] # NoLun
                    /\ granted'[w][k] = IF array = "ds8k" THEN HostLun[hostmap'[g][w]] ELSE hostmap'[g][w]
      <3>1. ~(w = v /\ k = n)
        BY <1>6, <2>1
      <3>2. granted'[w][k] = granted[w][k]
        BY <1>6, <3>1
      <3>3. PICK g \in Owners(k) :
                  /\ hostmap[g][w] # NoLun
                  /\ granted[w][k] = IF array = "ds8k" THEN HostLun[hostmap[g][w]] ELSE hostmap[g][w]
        BY <2>1, <3>2 DEF IInv, LunHolds
      <3>4. g \in Hosts
        BY <1>4, OwnersApart
      <3>5. ~(g = h /\ w = v)
        BY <1>4, <3>1, OwnersApart
      <3>6. hostmap'[g][w] = hostmap[g][w]
        BY <1>7, <2>1, <3>4, <3>5
      <3> QED
        BY <3>2, <3>3, <3>6
    <2> QED
      BY <1>2, <1>3, <2>1 DEF LunHolds, NoLun, Unpublished
  <1>12. UnpublishedClean'
    <2>1. ASSUME odd = {}, NEW w \in Volumes, NEW k \in Nodes, granted'[w][k] = Unpublished,
                 NEW g \in Hosts, g \in Owners(k)
          PROVE  hostmap'[g][w] = NoLun
      <3>1. CASE w = v /\ k = n
        <4>1. hostmap[g][w] # NoLun => g = h
          BY <1>4, <2>1, <3>1 DEF IInv, Placed
        <4>2. hostmap'[g][w] = IF g = h /\ w = v THEN NoLun ELSE hostmap[g][w]
          BY <1>7, <2>1
        <4> QED
          BY <3>1, <4>1, <4>2
      <3>2. CASE ~(w = v /\ k = n)
        <4>1. hostmap[g][w] = NoLun
          BY <1>6, <2>1, <3>2, SMTT(30) DEF IInv, UnpublishedClean, MappedTo
        <4> QED
          BY <4>1
      <3> QED
        BY <3>1, <3>2
    <2> QED
      BY <1>2, <1>3, <2>1 DEF UnpublishedClean, MappedTo, NoLun, Unpublished
  <1>13. Knows(Idle)'
    <2>1. Idle.pc = "idle" /\ Idle.lun = NoLun
      BY DEF Idle
    <2> QED
      BY <2>1 DEF Knows, NoLun
  <1>14. loc' \in [Threads -> Locs] /\ Alone' /\ Known'
    <2>1. "overlap" \notin odd =>
            \A w \in Volumes : w # loc[t].vol =>
                /\ \A g \in Hosts : hostmap'[g][w] = hostmap[g][w]
                /\ \A k \in Nodes : granted'[w][k] = granted[w][k]
      BY <1>1, <1>6, <1>7
    <2>2. loc[t].pc # "idle"
      OBVIOUS
    <2> QED
      BY <1>2, <1>5, <1>13, <2>1, <2>2, IdleIs, CallStep
  <1>15. Typed'
    BY <1>2, <1>3, <1>6, <1>14 DEF IInv, Typed, NoLun, Unpublished
  <1>16. RaisesDeclared'
    BY <1>5 DEF RaisesDeclared
  <1> QED
    BY <1>8, <1>9, <1>10, <1>11, <1>12, <1>14, <1>15, <1>16 DEF IInv

-----------------------------------------------------------------------------
(***************************************************************************)
(* The steps.                                                              *)
(***************************************************************************)

\* A volume without a mapping to the host of the call has none to the node.
LEMMA NoMapping ==
  ASSUME IInv, NEW t \in Threads, loc[t].pc \notin {"idle", "list", "host"}, odd = {},
         loc[t].vol \notin exists \/ loc[t].host \notin MappedTo(loc[t].vol)
  PROVE  MappedTo(loc[t].vol) \cap Owners(loc[t].node) = {}
  <1>1. PICK v \in Volumes, n \in Nodes, h \in {loc[t].host} : v = loc[t].vol /\ n = loc[t].node /\ h = loc[t].host
    BY LocIs
  <1>2. h = HostOf(n)
    BY <1>1, LocIs DEF Knows
  <1>3. MappedTo(v) \cap Owners(n) = {}
    BY <1>1, <1>2 DEF IInv, Distinct, Placed, MappedTo
  <1> QED
    BY <1>1, <1>3

\* The list of the hosts of an SVC preserves the invariant.
LEMMA ListHostsIInv == ASSUME IInv, NEW t \in Threads, ListHosts(t) PROVE IInv'
  <1>1. /\ loc[t].pc = "list" /\ loc[t].pc # "idle" /\ UNCHANGED <<world, hostmap, odd, bounds>>
        /\ loc[t] \in LocRecs /\ InStep(loc[t]) /\ Knows(loc[t]) /\ hosts \in SUBSET Hosts
    BY LocIs DEF ListHosts, IInv, Typed
  <1>2. PICK m : m = [loc[t] EXCEPT !.pc = "host", !.listed = hosts]
    OBVIOUS
  <1>3. /\ m \in LocRecs /\ m.pc = "host" /\ m.then = loc[t].then /\ m.host = loc[t].host /\ m.listed = hosts
        /\ m.op = loc[t].op /\ m.vol = loc[t].vol /\ m.node = loc[t].node /\ m.lun = loc[t].lun
    BY <1>1, <1>2 DEF LocRecs, Pcs
  <1>4. InStep(m)
    BY <1>1, <1>3 DEF InStep
  <1>5. odd = {} => hosts = Defined
    BY DEF IInv, Placed
  <1>6. Knows(m)
    BY <1>1, <1>3, <1>5 DEF Knows, Choosing
  <1>7. Go(t, m)
    BY <1>2 DEF ListHosts
  <1> QED
    BY <1>1, <1>3, <1>4, <1>6, <1>7, GoStep

\* get_host_by_host_identifiers preserves the invariant.
LEMMA FindHostIInv == ASSUME IInv, NEW t \in Threads, FindHost(t) PROVE IInv'
  <1>1. /\ loc[t].pc = "host" /\ loc[t].pc # "idle" /\ UNCHANGED <<world, hostmap, odd, bounds>>
        /\ loc[t] \in LocRecs /\ InStep(loc[t]) /\ Knows(loc[t]) /\ loc[t].node \in Nodes
        /\ loc[t].then = "none" /\ array \in Arrays /\ hosts \in SUBSET Hosts
    BY LocIs DEF FindHost, InStep, IInv, Typed
  <1>0. PICK hs \in SUBSET Hosts : hs = Readable(loc[t])
    BY <1>1 DEF Readable
  <1>2. PICK found : found = HostFound[array][hs][loc[t].node]
    OBVIOUS
  <1>3. /\ found.host \in FoundHosts
        /\ found.ex = "none" => found.host \in Owners(loc[t].node)
        /\ found.ex \in {"none", "HostNotFoundError", "MultipleHostsFoundError", "InvalidCliResponseError"}
    <2>1. PICK n \in Nodes : n = loc[t].node
      BY <1>1
    <2>2. /\ found.host \in FoundHosts
          /\ found.ex = "none" => found.host \in Owners(n)
          /\ found.ex \in {"none", "HostNotFoundError", "MultipleHostsFoundError", "InvalidCliResponseError"}
      BY <1>1, <1>2, <2>1, LookupFinds
    <2> QED
      BY <2>1, <2>2
  <1>4. odd = {} => found.host = HostOf(loc[t].node)
    <2>1. odd = {} => hs = Defined
      BY <1>0, <1>1 DEF Readable, Knows, IInv, Placed
    <2> QED
      BY <1>2, <2>1 DEF HostOf
  <1>5. CASE found.ex # "none" /\ Raise(t, "get_host_by_host_identifiers", found.ex)
    <2>1. PICK ex : ex = found.ex
      OBVIOUS
    <2>2. ex \in Raises("get_host_by_host_identifiers") \/ <<"get_host_by_host_identifiers", ex>> \in Undeclared
      BY <1>3, <1>5, <2>1, RaisesIs DEF Undeclared
    <2>3. ex # "none" /\ Raise(t, "get_host_by_host_identifiers", ex)
      BY <1>5, <2>1
    <2>4. ex \notin {"VolumeAlreadyUnmappedError", "ObjectNotFoundError"}
      BY <1>3, <2>1
    <2>5. UNCHANGED <<world, hostmap, odd, calls>> /\ troubles' \in 0..MaxTroubles
      BY <1>1 DEF bounds, IInv, Typed
    <2> QED
      BY <1>1, <2>2, <2>3, <2>4, <2>5, RaiseStep
  <1>6. CASE /\ found.ex = "none" /\ loc[t].op = "Publish"
             /\ Go(t, [loc[t] EXCEPT !.host = found.host, !.listed = {}, !.pc = "targets",
                                     !.fc = ChooseConnectivityType(found.types) = "fc"])
    <2>1. PICK fc \in BOOLEAN : fc = (ChooseConnectivityType(found.types) = "fc")
      OBVIOUS
    <2>2. PICK m : m = [loc[t] EXCEPT !.host = found.host, !.listed = {}, !.pc = "targets", !.fc = fc]
      OBVIOUS
    <2>3. /\ m \in LocRecs /\ m.pc = "targets" /\ m.host = found.host /\ m.op = "Publish"
          /\ m.vol = loc[t].vol /\ m.node = loc[t].node /\ m.lun = loc[t].lun /\ m.then = "none"
      BY <1>1, <1>3, <1>6, <2>2 DEF LocRecs, Pcs
    <2>4. InStep(m)
      BY <1>1, <2>3 DEF InStep
    <2>5. Knows(m)
      BY <1>1, <1>3, <1>4, <1>6, <2>3 DEF Knows, Choosing
    <2>6. Go(t, m)
      BY <1>6, <2>1, <2>2
    <2> QED
      BY <1>1, <2>3, <2>4, <2>5, <2>6, GoStep
  <1>7. CASE /\ found.ex = "none" /\ loc[t].op = "Unpublish"
             /\ Go(t, ByName([loc[t] EXCEPT !.host = found.host, !.listed = {}], "unmap"))
    <2>1. PICK r : r = [loc[t] EXCEPT !.host = found.host, !.listed = {}]
      OBVIOUS
    <2>2. /\ r \in LocRecs /\ r.host = found.host /\ r.op = "Unpublish" /\ r.vol = loc[t].vol
          /\ r.node = loc[t].node /\ r.lun = loc[t].lun /\ r.then = "none"
      BY <1>1, <1>3, <1>7, <2>1 DEF LocRecs
    <2>3. PICK m : m = ByName(r, "unmap")
      OBVIOUS
    <2>4. /\ m \in LocRecs
          /\ m.op = r.op /\ m.vol = r.vol /\ m.node = r.node /\ m.host = r.host /\ m.lun = r.lun
          /\ array = "ds8k" => m.pc = "unmap" /\ m.then = "none"
          /\ array # "ds8k" => m.pc = "name" /\ m.then = "unmap"
      BY <2>2, <2>3, ByNameIs DEF Pcs
    <2>5. InStep(m)
      BY <1>1, <2>2, <2>4 DEF InStep
    <2>6. Knows(m)
      BY <1>1, <1>3, <1>4, <1>7, <2>2, <2>4 DEF Knows, Choosing
    <2>7. Go(t, m)
      BY <1>7, <2>1, <2>3
    <2>8. m.vol = loc[t].vol
      BY <2>2, <2>4
    <2> QED
      BY <1>1, <2>4, <2>5, <2>6, <2>7, <2>8, GoStep
  <1> QED
    BY <1>0, <1>2, <1>5, <1>6, <1>7 DEF FindHost

\* get_iscsi_targets_by_iqn and get_array_fc_wwns preserve the invariant.
LEMMA ReadTargetsIInv == ASSUME IInv, NEW t \in Threads, ReadTargets(t) PROVE IInv'
  <1>1. /\ loc[t].pc = "targets" /\ loc[t].pc # "idle" /\ UNCHANGED <<world, hostmap, odd, bounds>>
        /\ loc[t] \in LocRecs /\ InStep(loc[t]) /\ Knows(loc[t]) /\ loc[t].then = "none"
        /\ loc[t].op = "Publish"
    BY LocIs DEF ReadTargets, InStep
  <1>2. UNCHANGED <<world, hostmap, odd, calls>> /\ troubles' \in 0..MaxTroubles
    BY <1>1 DEF bounds, IInv, Typed
  <1>3. CASE Raise(t, "get_iscsi_targets_by_iqn", "NoIscsiTargetsFoundError")
    BY <1>1, <1>2, <1>3, RaiseStep, RaisesIs
  <1>4. CASE Raise(t, "get_array_fc_wwns", "HostNotFoundError")
    BY <1>1, <1>2, <1>4, RaiseStep DEF Undeclared
  <1>5. CASE Go(t, ByName(loc[t], "mappings"))
    <2>1. PICK r, m : r = loc[t] /\ m = ByName(r, "mappings")
      OBVIOUS
    <2>2. /\ m \in LocRecs
          /\ m.op = r.op /\ m.vol = r.vol /\ m.node = r.node /\ m.host = r.host /\ m.lun = r.lun
          /\ array = "ds8k" => m.pc = "mappings" /\ m.then = "none"
          /\ array # "ds8k" => m.pc = "name" /\ m.then = "mappings"
      BY <1>1, <2>1, ByNameIs DEF Pcs
    <2>3. InStep(m)
      BY <1>1, <2>1, <2>2 DEF InStep
    <2>4. Knows(m)
      BY <1>1, <2>1, <2>2 DEF Knows, Choosing
    <2>5. Go(t, m) /\ m.vol = loc[t].vol
      BY <1>5, <2>1, <2>2
    <2> QED
      BY <1>1, <2>2, <2>3, <2>4, <2>5, GoStep
  <1> QED
    BY <1>3, <1>4, <1>5 DEF ReadTargets

\* The lookup of the volume's name preserves the invariant.
LEMMA FindVolumeIInv == ASSUME IInv, NEW t \in Threads, FindVolume(t) PROVE IInv'
  <1>1. /\ loc[t].pc = "name" /\ loc[t].pc # "idle" /\ UNCHANGED <<world, hostmap, odd, bounds>>
        /\ loc[t] \in LocRecs /\ InStep(loc[t]) /\ Knows(loc[t])
        /\ loc[t].then \in {"mappings", "lun", "unmap"}
    BY LocIs DEF FindVolume, InStep, LocRecs
  <1>2. UNCHANGED <<world, hostmap, odd, calls>> /\ troubles' \in 0..MaxTroubles
    BY <1>1 DEF bounds, IInv, Typed
  <1>3. CASE loc[t].vol \notin exists /\ Raise(t, MethodAt(loc[t].then), "ObjectNotFoundError")
    <2>1. PICK method : method = MethodAt(loc[t].then)
      OBVIOUS
    <2>2. "ObjectNotFoundError" \in Raises(method)
      BY <1>1, <2>1, RaisesIs DEF MethodAt
    <2>3. odd = {} => MappedTo(loc[t].vol) \cap Owners(loc[t].node) = {}
      BY <1>1, <1>3, NoMapping
    <2>4. Raise(t, method, "ObjectNotFoundError")
      BY <1>3, <2>1
    <2> QED
      BY <1>1, <1>2, <2>2, <2>3, <2>4, RaiseStep
  <1>4. CASE Go(t, [loc[t] EXCEPT !.pc = loc[t].then, !.then = "none"])
    <2>1. PICK m : m = [loc[t] EXCEPT !.pc = loc[t].then, !.then = "none"]
      OBVIOUS
    <2>2. /\ m \in LocRecs /\ m.pc = loc[t].then /\ m.then = "none" /\ m.host = loc[t].host
          /\ m.op = loc[t].op /\ m.vol = loc[t].vol /\ m.node = loc[t].node /\ m.lun = loc[t].lun
      BY <1>1, <2>1 DEF LocRecs, Pcs
    <2>3. InStep(m)
      BY <1>1, <2>2 DEF InStep
    <2>4. Knows(m)
      BY <1>1, <2>2 DEF Knows, Choosing
    <2>5. Go(t, m)
      BY <1>4, <2>1
    <2> QED
      BY <1>1, <2>2, <2>3, <2>4, <2>5, GoStep
  <1> QED
    BY <1>3, <1>4 DEF FindVolume

\* get_volume_mappings, with the idempotent answer, preserves the invariant.
LEMMA ReadMappingsIInv == ASSUME IInv, NEW t \in Threads, ReadMappings(t) PROVE IInv'
  <1>1. /\ loc[t].pc = "mappings" /\ loc[t].pc # "idle" /\ UNCHANGED <<world, hostmap, odd, bounds>>
        /\ loc[t] \in LocRecs /\ InStep(loc[t]) /\ Knows(loc[t]) /\ loc[t].then = "none"
        /\ loc[t].op = "Publish" /\ array \in Arrays /\ loc[t].vol \in Volumes
    BY LocIs DEF ReadMappings, InStep
  <1>2. UNCHANGED <<world, hostmap, odd, calls>> /\ troubles' \in 0..MaxTroubles
    BY <1>1 DEF bounds, IInv, Typed
  <1>3. CASE Raise(t, "get_volume_mappings", "ObjectNotFoundError")
    BY <1>1, <1>2, <1>3, RaiseStep, RaisesIs
  <1>4. CASE Raise(t, "get_volume_mappings", "XCLIError")
    BY <1>1, <1>2, <1>4, RaiseStep DEF ForeignErrors
  <1>5. CASE MappedTo(loc[t].vol) = {loc[t].host} /\ Grant(t, hostmap[loc[t].host][loc[t].vol])
    <2>1. PICK lun : lun = hostmap[loc[t].host][loc[t].vol]
      OBVIOUS
    <2>2. loc[t].host \in Hosts /\ lun # NoLun
      BY <1>5, <2>1 DEF MappedTo
    <2>3. lun \in Luns
      BY <1>1, <2>1, <2>2 DEF IInv, Typed
    <2>4. PICK p \in Nat : p = Answer(lun) /\ p = IF array = "ds8k" THEN HostLun[lun] ELSE lun
      BY <1>1, <2>3, AnswerIs, SMTT(30)
    <2>5. Reply(t, "OK", "none", "none", p)
      BY <1>5, <2>1, <2>4 DEF Grant
    <2>6. loc[t].host \in Owners(loc[t].node)
      BY <1>1 DEF Knows
    <2>7. p # Unpublished
      BY <2>4 DEF Unpublished
    <2>8. odd \in SUBSET {"overlap", "edit", "dropped"} /\ calls' \in 0..MaxCalls /\ odd' = odd
      BY <1>2 DEF IInv, Typed
    <2> QED
      BY <1>1, <1>2, <2>1, <2>2, <2>4, <2>5, <2>6, <2>7, <2>8, ReplyStep
  <1>6. CASE Raise(t, "none", "VolumeMappedToMultipleHostsError")
    BY <1>1, <1>2, <1>6, RaiseStep
  <1>7. CASE /\ MappedTo(loc[t].vol) = {}
             /\ Go(t, ByName([loc[t] EXCEPT !.tries = LunTries], IF array = "ds8k" THEN "map" ELSE "lun"))
    <2>1. PICK r, next : /\ r = [loc[t] EXCEPT !.tries = LunTries]
                         /\ next = IF array = "ds8k" THEN "map" ELSE "lun"
      OBVIOUS
    <2>2. /\ r \in LocRecs /\ r.host = loc[t].host /\ r.op = "Publish" /\ r.vol = loc[t].vol
          /\ r.node = loc[t].node /\ r.lun = loc[t].lun /\ r.then = "none"
      BY <1>1, <2>1, MappingAssumption DEF LocRecs
    <2>3. PICK m : m = ByName(r, next)
      OBVIOUS
    <2>4. /\ m \in LocRecs
          /\ m.op = r.op /\ m.vol = r.vol /\ m.node = r.node /\ m.host = r.host /\ m.lun = r.lun
          /\ array = "ds8k" => m.pc = "map" /\ m.then = "none"
          /\ array # "ds8k" => m.pc = "name" /\ m.then = "lun"
      <3>1. next \in Pcs /\ (array = "ds8k" \/ next \in {"mappings", "lun", "unmap"})
        BY <2>1 DEF Pcs
      <3>2. /\ m \in LocRecs
            /\ m.op = r.op /\ m.vol = r.vol /\ m.node = r.node /\ m.host = r.host /\ m.lun = r.lun
            /\ array = "ds8k" => m.pc = next /\ m.then = "none"
            /\ array # "ds8k" => m.pc = "name" /\ m.then = next
        BY <2>2, <2>3, <3>1, ByNameIs
      <3> QED
        BY <2>1, <3>2
    <2>5. InStep(m)
      BY <1>1, <2>2, <2>4 DEF InStep
    <2>6. \A h \in Hosts : hostmap[h][loc[t].vol] = NoLun
      BY <1>7 DEF MappedTo
    <2>7. Knows(m)
      BY <1>1, <2>2, <2>4, <2>6 DEF Knows, Choosing
    <2>8. Go(t, m) /\ m.vol = loc[t].vol
      BY <1>7, <2>1, <2>2, <2>3, <2>4
    <2> QED
      BY <1>1, <2>4, <2>5, <2>7, <2>8, GoStep
  <1> QED
    BY <1>3, <1>4, <1>5, <1>6, <1>7 DEF ReadMappings

\* The choice of a LUN preserves the invariant.
LEMMA PickLunIInv == ASSUME IInv, NEW t \in Threads, PickLun(t) PROVE IInv'
  <1>1. /\ loc[t].pc = "lun" /\ loc[t].pc # "idle" /\ UNCHANGED <<world, hostmap, odd, bounds>>
        /\ loc[t] \in LocRecs /\ InStep(loc[t]) /\ Knows(loc[t]) /\ loc[t].then = "none"
        /\ loc[t].op = "Publish" /\ array \in Arrays
    BY LocIs DEF PickLun, InStep
  <1>2. UNCHANGED <<world, hostmap, odd, calls>> /\ troubles' \in 0..MaxTroubles
    BY <1>1 DEF bounds, IInv, Typed
  <1>3. CASE Raise(t, "map_volume", "HostNotFoundError")
    BY <1>1, <1>2, <1>3, RaiseStep, RaisesIs
  <1>4. CASE Raise(t, "map_volume", "NoAvailableLunError")
    BY <1>1, <1>2, <1>4, RaiseStep, RaisesIs
  <1>5. ASSUME NEW lun \in LunChoices(loc[t].host), Go(t, [loc[t] EXCEPT !.pc = "map", !.lun = lun])
        PROVE  IInv'
    <2>1. PICK h : h = loc[t].host
      OBVIOUS
    <2>2. lun \in Luns
      BY <1>1, <1>5, <2>1, ChoicesAreFree
    <2>3. lun \in Int /\ lun # NoLun
      BY <1>1, <2>2, LunsAreNumbers
    <2>4. PICK m : m = [loc[t] EXCEPT !.pc = "map", !.lun = lun]
      OBVIOUS
    <2>5. /\ m \in LocRecs /\ m.pc = "map" /\ m.then = "none" /\ m.host = loc[t].host
          /\ m.op = "Publish" /\ m.vol = loc[t].vol /\ m.node = loc[t].node /\ m.lun = lun
      BY <1>1, <2>3, <2>4 DEF LocRecs, Pcs
    <2>6. InStep(m)
      BY <1>1, <2>5 DEF InStep
    <2>7. Knows(m)
      BY <1>1, <2>2, <2>3, <2>5 DEF Knows, Choosing
    <2>8. Go(t, m)
      BY <1>5, <2>4
    <2> QED
      BY <1>1, <2>5, <2>6, <2>7, <2>8, GoStep
  <1> QED
    BY <1>3, <1>4, <1>5 DEF PickLun

\* map_volume on SVC and XIV, with the retries, preserves the invariant.
LEMMA MapVolumeIInv == ASSUME IInv, NEW t \in Threads, MapVolume(t) PROVE IInv'
  <1>1. /\ loc[t].pc = "map" /\ loc[t].pc # "idle" /\ array # "ds8k" /\ UNCHANGED <<world, odd, bounds>>
        /\ loc[t] \in LocRecs /\ InStep(loc[t]) /\ Knows(loc[t]) /\ loc[t].then = "none"
        /\ loc[t].op = "Publish" /\ array \in Arrays
    BY LocIs DEF MapVolume, InStep
  <1>2. calls' = calls /\ odd' = odd /\ UNCHANGED world /\ troubles' \in 0..MaxTroubles
    BY <1>1 DEF bounds, IInv, Typed
  <1>3. CASE Refused(loc[t]) # "none" /\ Raise(t, "map_volume", Refused(loc[t])) /\ UNCHANGED hostmap
    <2>1. PICK ex : ex = Refused(loc[t])
      OBVIOUS
    <2>2. ex \in {"ObjectNotFoundError", "HostNotFoundError", "MappingError"}
      BY <1>3, <2>1 DEF Refused
    <2>3. ex \in Raises("map_volume") /\ ex # "none"
      BY <2>2, RaisesIs
    <2>4. Raise(t, "map_volume", ex)
      BY <1>3, <2>1
    <2> QED
      BY <1>1, <1>2, <1>3, <2>3, <2>4, RaiseStep
  <1>4. CASE loc[t].tries = 1 /\ Raise(t, "map_volume", "LunAlreadyInUseError") /\ UNCHANGED hostmap
    BY <1>1, <1>2, <1>4, RaiseStep, RaisesIs
  <1>5. CASE /\ loc[t].tries > 1 /\ UNCHANGED hostmap
             /\ Go(t, ByName([loc[t] EXCEPT !.tries = @ - 1], "lun"))
    <2>1. PICK r : r = [loc[t] EXCEPT !.tries = @ - 1]
      OBVIOUS
    <2>2. loc[t].tries - 1 \in 0..LunTries
      BY <1>1, <1>5, MappingAssumption DEF LocRecs
    <2>3. /\ r \in LocRecs /\ r.host = loc[t].host /\ r.op = "Publish" /\ r.vol = loc[t].vol
          /\ r.node = loc[t].node /\ r.lun = loc[t].lun /\ r.then = "none"
      BY <1>1, <2>1, <2>2 DEF LocRecs
    <2>4. PICK m : m = ByName(r, "lun")
      OBVIOUS
    <2>5. /\ m \in LocRecs
          /\ m.op = r.op /\ m.vol = r.vol /\ m.node = r.node /\ m.host = r.host /\ m.lun = r.lun
          /\ m.pc = "name" /\ m.then = "lun"
      BY <1>1, <2>3, <2>4, ByNameIs DEF Pcs
    <2>6. InStep(m)
      BY <1>1, <2>3, <2>5 DEF InStep
    <2>7. Knows(m)
      BY <1>1, <2>3, <2>5 DEF Knows, Choosing
    <2>8. Go(t, m) /\ m.vol = loc[t].vol /\ UNCHANGED <<world, hostmap, odd, bounds>>
      BY <1>1, <1>5, <2>1, <2>3, <2>4, <2>5
    <2> QED
      BY <1>1, <2>5, <2>6, <2>7, <2>8, GoStep
  <1>6. CASE /\ Refused(loc[t]) = "none" /\ loc[t].lun \notin InUse(loc[t].host)
             /\ hostmap' = [hostmap EXCEPT ![loc[t].host][loc[t].vol] = loc[t].lun]
             /\ Grant(t, loc[t].lun)
    <2>1. PICK lun : lun = loc[t].lun
      OBVIOUS
    <2>2. lun \in Luns
      BY <1>1, <2>1 DEF Knows
    <2>3. /\ lun \notin InUse(loc[t].host) /\ Grant(t, lun)
          /\ hostmap' = [hostmap EXCEPT ![loc[t].host][loc[t].vol] = lun]
      BY <1>6, <2>1
    <2> QED
      BY <1>1, <1>6, <2>2, <2>3, MapStep
  <1> QED
    BY <1>3, <1>4, <1>5, <1>6 DEF MapVolume, LunTaken

\* map_volume on DS8K preserves the invariant.
LEMMA MapAnyLunIInv == ASSUME IInv, NEW t \in Threads, MapAnyLun(t) PROVE IInv'
  <1>1. /\ loc[t].pc = "map" /\ loc[t].pc # "idle" /\ UNCHANGED <<world, odd, bounds>>
        /\ InStep(loc[t]) /\ loc[t].op = "Publish"
    BY LocIs DEF MapAnyLun, InStep
  <1>2. calls' = calls /\ odd' = odd /\ UNCHANGED world /\ troubles' \in 0..MaxTroubles
    BY <1>1 DEF bounds, IInv, Typed
  <1>3. CASE Refused(loc[t]) # "none" /\ Raise(t, "map_volume", Refused(loc[t])) /\ UNCHANGED hostmap
    <2>1. PICK ex : ex = Refused(loc[t])
      OBVIOUS
    <2>2. ex \in {"ObjectNotFoundError", "HostNotFoundError", "MappingError"}
      BY <1>3, <2>1 DEF Refused
    <2>3. ex \in Raises("map_volume") /\ ex # "none"
      BY <2>2, RaisesIs
    <2>4. Raise(t, "map_volume", ex)
      BY <1>3, <2>1
    <2> QED
      BY <1>1, <1>2, <1>3, <2>3, <2>4, RaiseStep
  <1>4. CASE Raise(t, "map_volume", "NoAvailableLunError") /\ UNCHANGED hostmap
    BY <1>1, <1>2, <1>4, RaiseStep, RaisesIs
  <1>5. ASSUME Refused(loc[t]) = "none", NEW lun \in Luns \ InUse(loc[t].host),
               hostmap' = [hostmap EXCEPT ![loc[t].host][loc[t].vol] = lun], Grant(t, lun)
        PROVE  IInv'
    BY <1>1, <1>5, MapStep
  <1> QED
    BY <1>3, <1>4, <1>5 DEF MapAnyLun

\* unmap_volume on SVC and XIV preserves the invariant.
LEMMA UnmapVolumeIInv == ASSUME IInv, NEW t \in Threads, UnmapVolume(t) PROVE IInv'
  <1>1. /\ loc[t].pc = "unmap" /\ loc[t].pc # "idle" /\ UNCHANGED <<world, odd, bounds>>
        /\ InStep(loc[t]) /\ loc[t].op = "Unpublish" /\ loc[t].vol \in Volumes
    BY LocIs DEF UnmapVolume, InStep
  <1>2. calls' = calls /\ odd' = odd /\ UNCHANGED world /\ troubles' \in 0..MaxTroubles
    BY <1>1 DEF bounds, IInv, Typed
  <1>3. CASE Raise(t, "unmap_volume", "HostNotFoundError") /\ UNCHANGED hostmap
    BY <1>1, <1>2, <1>3, RaiseStep, RaisesIs
  <1>4. CASE /\ loc[t].vol \notin exists /\ Raise(t, "unmap_volume", "ObjectNotFoundError")
             /\ UNCHANGED hostmap
    <2>1. odd = {} => MappedTo(loc[t].vol) \cap Owners(loc[t].node) = {}
      BY <1>1, <1>4, NoMapping
    <2> QED
      BY <1>1, <1>2, <1>4, <2>1, RaiseStep, RaisesIs
  <1>5. CASE /\ loc[t].host \notin MappedTo(loc[t].vol)
             /\ Raise(t, "unmap_volume", "VolumeAlreadyUnmappedError") /\ UNCHANGED hostmap
    <2>1. odd = {} => MappedTo(loc[t].vol) \cap Owners(loc[t].node) = {}
      BY <1>1, <1>5, NoMapping
    <2> QED
      BY <1>1, <1>2, <1>5, <2>1, RaiseStep, RaisesIs
  <1>6. CASE /\ loc[t].host \in MappedTo(loc[t].vol)
             /\ hostmap' = [hostmap EXCEPT ![loc[t].host][loc[t].vol] = NoLun]
             /\ Unmapped(t)
    <2>1. loc[t].host \in Hosts
      BY <1>6 DEF MappedTo
    <2>2. /\ hostmap' \in [Hosts -> [Volumes -> Luns \cup {NoLun}]]
          /\ \A g \in Hosts, w \in Volumes :
                hostmap'[g][w] = IF g = loc[t].host /\ w = loc[t].vol THEN NoLun ELSE hostmap[g][w]
      BY <1>1, <1>6, <2>1 DEF IInv, Typed
    <2>3. \A g \in Hosts, w \in Volumes : hostmap'[g][w] \in {hostmap[g][w], NoLun}
      BY <2>2
    <2> QED
      BY <1>1, <1>6, <2>1, <2>2, <2>3, UnmapStep
  <1> QED
    BY <1>3, <1>4, <1>5, <1>6 DEF UnmapVolume

\* DS8K's search for the LUN of the volume preserves the invariant.
LEMMA FindLunIInv == ASSUME IInv, NEW t \in Threads, FindLun(t) PROVE IInv'
  <1>1. /\ loc[t].pc = "unmap" /\ loc[t].pc # "idle" /\ array = "ds8k"
        /\ UNCHANGED <<world, hostmap, odd, bounds>>
        /\ loc[t] \in LocRecs /\ InStep(loc[t]) /\ Knows(loc[t]) /\ loc[t].then = "none"
        /\ loc[t].op = "Unpublish" /\ loc[t].vol \in Volumes /\ array \in Arrays
    BY LocIs DEF FindLun, InStep
  <1>2. UNCHANGED <<world, hostmap, odd, calls>> /\ troubles' \in 0..MaxTroubles
    BY <1>1 DEF bounds, IInv, Typed
  <1>3. CASE Raise(t, "unmap_volume", "HostNotFoundError")
    BY <1>1, <1>2, <1>3, RaiseStep, RaisesIs
  <1>4. CASE loc[t].host \notin MappedTo(loc[t].vol) /\ Raise(t, "unmap_volume", "ObjectNotFoundError")
    <2>1. odd = {} => MappedTo(loc[t].vol) \cap Owners(loc[t].node) = {}
      BY <1>1, <1>4, NoMapping
    <2> QED
      BY <1>1, <1>2, <1>4, <2>1, RaiseStep, RaisesIs
  <1>5. CASE /\ loc[t].host \in MappedTo(loc[t].vol)
             /\ Go(t, [loc[t] EXCEPT !.pc = "unmaplun", !.lun = hostmap[loc[t].host][loc[t].vol]])
    <2>1. PICK lun : lun = hostmap[loc[t].host][loc[t].vol]
      OBVIOUS
    <2>2. loc[t].host \in Hosts /\ lun # NoLun
      BY <1>5, <2>1 DEF MappedTo
    <2>3. lun \in Luns
      BY <1>1, <2>1, <2>2 DEF IInv, Typed
    <2>4. lun \in Int
      BY <1>1, <2>3, LunsAreNumbers
    <2>5. PICK m : m = [loc[t] EXCEPT !.pc = "unmaplun", !.lun = lun]
      OBVIOUS
    <2>6. /\ m \in LocRecs /\ m.pc = "unmaplun" /\ m.then = "none" /\ m.host = loc[t].host
          /\ m.op = "Unpublish" /\ m.vol = loc[t].vol /\ m.node = loc[t].node /\ m.lun = lun
      BY <1>1, <2>4, <2>5 DEF LocRecs, Pcs
    <2>7. InStep(m)
      BY <1>1, <2>6 DEF InStep
    <2>8. Knows(m)
      BY <1>1, <2>1, <2>2, <2>3, <2>6 DEF Knows, Choosing
    <2>9. Go(t, m)
      BY <1>5, <2>1, <2>5
    <2> QED
      BY <1>1, <2>6, <2>7, <2>8, <2>9, GoStep
  <1> QED
    BY <1>3, <1>4, <1>5 DEF FindLun

\* What DS8K's removal of a LUN does to the mappings: without overlapping calls
\* the LUN is still the volume's own.
LEMMA UnmapLunIs ==
  ASSUME IInv, NEW t \in Threads, loc[t].pc = "unmaplun", loc[t].host \in Hosts,
         hostmap' = [hostmap EXCEPT ![loc[t].host] =
                        [v \in Volumes |-> IF @[v] = loc[t].lun THEN NoLun ELSE @[v]]]
  PROVE  /\ hostmap' \in [Hosts -> [Volumes -> Luns \cup {NoLun}]]
         /\ \A g \in Hosts, w \in Volumes : hostmap'[g][w] \in {hostmap[g][w], NoLun}
         /\ "overlap" \notin odd =>
               \A g \in Hosts, w \in Volumes :
                   hostmap'[g][w] = IF g = loc[t].host /\ w = loc[t].vol THEN NoLun ELSE hostmap[g][w]
  <1>1. PICK v \in Volumes, h \in Hosts, lun \in {loc[t].lun} : v = loc[t].vol /\ h = loc[t].host /\ lun = loc[t].lun
    BY LocIs
  <1>2. hostmap' = [hostmap EXCEPT ![h] = [w \in Volumes |-> IF @[w] = lun THEN NoLun ELSE @[w]]]
    BY <1>1
  <1>3. hostmap \in [Hosts -> [Volumes -> Luns \cup {NoLun}]]
    BY DEF IInv, Typed
  <1>4. \A g \in Hosts, w \in Volumes :
           hostmap'[g][w] = IF g = h /\ hostmap[g][w] = lun THEN NoLun ELSE hostmap[g][w]
    BY <1>2, <1>3
  <1>5. hostmap' \in [Hosts -> [Volumes -> Luns \cup {NoLun}]]
    BY <1>2, <1>3
  <1>6. "overlap" \notin odd => lun # NoLun /\ hostmap[h][v] = lun
    BY <1>1, LocIs DEF Knows
  <1>7. "overlap" \notin odd => \A w \in Volumes : hostmap[h][w] = lun <=> w = v
    BY <1>6 DEF IInv, Distinct
  <1> QED
    BY <1>1, <1>4, <1>5, <1>7

\* DS8K's removal of the LUN preserves the invariant.
LEMMA UnmapLunIInv == ASSUME IInv, NEW t \in Threads, UnmapLun(t) PROVE IInv'
  <1>1. /\ loc[t].pc = "unmaplun" /\ loc[t].pc # "idle" /\ UNCHANGED <<world, odd, bounds>>
        /\ InStep(loc[t]) /\ Knows(loc[t]) /\ loc[t].op = "Unpublish" /\ loc[t].vol \in Volumes
    BY LocIs DEF UnmapLun, InStep
  <1>2. calls' = calls /\ odd' = odd /\ UNCHANGED world /\ troubles' \in 0..MaxTroubles
    BY <1>1 DEF bounds, IInv, Typed
  <1>3. CASE Raise(t, "unmap_volume", "HostNotFoundError") /\ UNCHANGED hostmap
    BY <1>1, <1>2, <1>3, RaiseStep, RaisesIs
  <1>4. CASE /\ loc[t].lun \notin InUse(loc[t].host)
             /\ Raise(t, "unmap_volume", "VolumeAlreadyUnmappedError") /\ UNCHANGED hostmap
    <2>1. "overlap" \notin odd => loc[t].lun \in InUse(loc[t].host)
      BY <1>1 DEF Knows, InUse
    <2> QED
      BY <1>1, <1>2, <1>4, <2>1, RaiseStep, RaisesIs
  <1>5. CASE /\ loc[t].host \in hosts
             /\ hostmap' = [hostmap EXCEPT ![loc[t].host] =
                               [v \in Volumes |-> IF @[v] = loc[t].lun THEN NoLun ELSE @[v]]]
             /\ Unmapped(t)
    <2>1. loc[t].host \in Hosts
      BY <1>5 DEF IInv, Typed
    <2>2. /\ hostmap' \in [Hosts -> [Volumes -> Luns \cup {NoLun}]]
          /\ \A g \in Hosts, w \in Volumes : hostmap'[g][w] \in {hostmap[g][w], NoLun}
          /\ "overlap" \notin odd =>
               \A g \in Hosts, w \in Volumes :
                   hostmap'[g][w] = IF g = loc[t].host /\ w = loc[t].vol THEN NoLun ELSE hostmap[g][w]
      BY <1>1, <1>5, <2>1, UnmapLunIs
    <2> QED
      BY <1>1, <1>5, <2>1, <2>2, UnmapStep
  <1> QED
    BY <1>3, <1>4, <1>5 DEF UnmapLun

\* The errors of a command that fails are ones that its method declares, or are known.
LEMMA FailuresAre ==
  ASSUME array \in Arrays, NEW l \in LocRecs, InStep(l), l.pc # "idle", NEW ex \in Failures(l.pc),
         NEW method, method = MethodAt(IF l.pc = "name" THEN l.then ELSE l.pc)
  PROVE  /\ ex # "none"
         /\ ex \in Raises(method) \cup ForeignErrors \/ <<method, ex>> \in Undeclared
         /\ l.op = "Unpublish" => ex \notin {"VolumeAlreadyUnmappedError", "ObjectNotFoundError"}
  <1>1. array \in {"svc", "xiv", "ds8k"}
    BY MappingAssumption
  <1>2. CASE l.pc \in {"list", "host"}
    BY <1>1, <1>2 DEF Failures, MethodAt, ForeignErrors, Undeclared
  <1>3. CASE l.pc = "targets"
    BY <1>1, <1>3 DEF Failures, MethodAt, ForeignErrors
  <1>4. CASE l.pc = "name"
    <2>1. ex \in ForeignErrors \cup {"IllegalObjectID"}
      BY <1>1, <1>4 DEF Failures, ForeignErrors
    <2>2. l.then \in {"mappings", "lun", "unmap"}
      BY <1>4 DEF InStep, LocRecs
    <2>3. method \in {"get_volume_mappings", "map_volume", "unmap_volume"}
      BY <1>4, <2>2 DEF MethodAt
    <2> QED
      BY <2>1, <2>3, RaisesIs DEF Undeclared, ForeignErrors
  <1>5. CASE l.pc = "mappings"
    BY <1>1, <1>5, RaisesIs DEF Failures, MethodAt, ForeignErrors, InStep
  <1>6. CASE l.pc = "lun"
    BY <1>1, <1>6, RaisesIs DEF Failures, MethodAt, ForeignErrors
  <1>7. CASE l.pc = "map"
    BY <1>1, <1>7, RaisesIs DEF Failures, MethodAt
  <1>8. CASE l.pc \in {"unmap", "unmaplun"}
    BY <1>1, <1>8, RaisesIs DEF Failures, MethodAt
  <1> QED
    BY <1>2, <1>3, <1>4, <1>5, <1>6, <1>7, <1>8 DEF LocRecs, Pcs

\* A command that fails preserves the invariant.
LEMMA FaultIInv == ASSUME IInv, NEW t \in Threads, Fault(t) PROVE IInv'
  <1>1. /\ loc[t].pc # "idle" /\ UNCHANGED <<world, hostmap, odd, calls>>
        /\ troubles' = troubles + 1 /\ troubles < MaxTroubles
        /\ loc[t] \in LocRecs /\ InStep(loc[t]) /\ array \in Arrays
    BY LocIs DEF Fault
  <1>2. troubles' \in 0..MaxTroubles
    BY <1>1, MappingAssumption DEF IInv, Typed
  <1>3. PICK l : l = loc[t]
    OBVIOUS
  <1>4. PICK ex \in Failures(l.pc) : Raise(t, MethodAt(IF l.pc = "name" THEN l.then ELSE l.pc), ex)
    BY <1>3 DEF Fault
  <1>5. PICK method : method = MethodAt(IF l.pc = "name" THEN l.then ELSE l.pc)
    OBVIOUS
  <1>6. /\ ex # "none"
        /\ ex \in Raises(method) \cup ForeignErrors \/ <<method, ex>> \in Undeclared
        /\ l.op = "Unpublish" => ex \notin {"VolumeAlreadyUnmappedError", "ObjectNotFoundError"}
    BY <1>1, <1>3, <1>4, <1>5, FailuresAre
  <1>7. Raise(t, method, ex)
    BY <1>4, <1>5
  <1> QED
    BY <1>1, <1>2, <1>3, <1>6, <1>7, RaiseStep

\* The dropped error of a DS8K preserves the invariant.
LEMMA NotFoundDroppedIInv == ASSUME IInv, NEW t \in Threads, NotFoundDropped(t) PROVE IInv'
  <1>1. /\ loc[t].pc # "idle" /\ UNCHANGED <<world, hostmap>> /\ calls' = calls
        /\ troubles' = troubles + 1 /\ troubles < MaxTroubles /\ odd' = odd \cup {"dropped"}
        /\ Reply(t, "OK", "none", "none", Unpublished)
    BY DEF NotFoundDropped, Unmapped
  <1>2. troubles' \in 0..MaxTroubles /\ calls' \in 0..MaxCalls
    BY <1>1, MappingAssumption DEF IInv, Typed
  <1>3. /\ odd' \in SUBSET {"overlap", "edit", "dropped"} /\ odd \subseteq odd' /\ odd' # {}
        /\ "overlap" \in odd' => "overlap" \in odd
    BY <1>1 DEF IInv, Typed
  <1> QED
    BY <1>1, <1>2, <1>3, ReplyStep

\* The invariant without calls and answers: what stays when only the bounds move.
LEMMA AnswersKept ==
  ASSUME IInv, UNCHANGED <<array, hostmap, granted>>, odd \subseteq odd'
  PROVE  LunHolds' /\ UnpublishedClean'
  <1>1. \A k : Owners(k)' = Owners(k)
    BY ArrayKept
  <1>2. odd' = {} => odd = {}
    OBVIOUS
  <1>3. LunHolds'
    BY <1>1 DEF IInv, LunHolds, NoLun, Unpublished
  <1>4. UnpublishedClean'
    BY <1>1, <1>2 DEF IInv, UnpublishedClean, MappedTo, NoLun, Unpublished
  <1> QED
    BY <1>3, <1>4

\* What calls know does not depend on the hosts and volumes that are defined.
LEMMA CallsKept ==
  ASSUME IInv, UNCHANGED <<array, hostmap, granted, loc>>, odd \subseteq odd',
         "overlap" \in odd' => "overlap" \in odd
  PROVE  Alone' /\ Known'
  <1>1. Luns' = Luns /\ \A k : Owners(k)' = Owners(k) /\ HostOf(k)' = HostOf(k)
    BY ArrayKept
  <1>2. odd' = {} => odd = {}
    OBVIOUS
  <1>3. ASSUME NEW u \in Threads PROVE Knows(loc[u])'
    <2>1. Knows(loc[u])
      BY DEF IInv, Known
    <2> QED
      BY <1>1, <1>2, <2>1 DEF Knows, Choosing, NoLun, Unpublished
  <1> QED
    BY <1>3 DEF IInv, Alone, Known

\* A restart of the controller preserves the invariant.
LEMMA CrashIInv == ASSUME IInv, Crash PROVE IInv'
  <1>1. /\ array' = array /\ hosts' = hosts /\ exists' = exists /\ hostmap' = hostmap
        /\ granted' = granted /\ odd' = odd /\ calls' = calls
        /\ troubles' = troubles + 1 /\ troubles < MaxTroubles
        /\ loc' = [t \in Threads |-> Idle] /\ outcome' = Running
    BY DEF Crash, world
  <1>2. Distinct' /\ Placed' /\ SingleHost' /\ LunHolds' /\ UnpublishedClean'
        /\ hostmap' \in [Hosts -> [Volumes -> Luns' \cup {NoLun}]]
    BY <1>1, MapsKept, AnswersKept
  <1>3. \A t \in Threads : loc'[t] = Idle
    BY <1>1
  <1>4. Idle \in Locs /\ Idle.pc = "idle" /\ Idle.lun = NoLun
    BY IdleIs DEF Idle
  <1>5. Alone'
    BY <1>3, <1>4 DEF Alone
  <1>6. Known'
    BY <1>3, <1>4 DEF Known, Knows, NoLun
  <1>7. troubles' \in 0..MaxTroubles
    BY <1>1, MappingAssumption DEF IInv, Typed
  <1>8. Typed'
    BY <1>1, <1>2, <1>4, <1>7 DEF IInv, Typed, NoLun, Unpublished
  <1>9. RaisesDeclared'
    BY <1>1 DEF RaisesDeclared, Running
  <1> QED
    BY <1>2, <1>5, <1>6, <1>8, <1>9 DEF IInv

\* A new call preserves the invariant: from now on nothing is promised by an old one.
LEMMA StartIInv == ASSUME IInv, NEW t \in Threads, Start(t) PROVE IInv'
  <1>1. PICK op \in {"Publish", "Unpublish"}, v \in Volumes, n \in Nodes :
          /\ outcome' = Running
          /\ loc' = [loc EXCEPT ![t] = [Idle EXCEPT !.pc = IF array = "svc" THEN "list" ELSE "host",
                                                   !.op = op, !.vol = v, !.node = n]]
          /\ granted' = [granted EXCEPT ![v][n] =
                             IF op = "Unpublish" \/ @ = Unpublished THEN NoLun ELSE @]
          /\ odd' = IF \E o \in Threads : loc[o].pc # "idle" /\ loc[o].vol = v
                      THEN odd \cup {"overlap"} ELSE odd
    BY DEF Start
  <1>2. /\ array' = array /\ hosts' = hosts /\ exists' = exists /\ hostmap' = hostmap
        /\ loc[t].pc = "idle" /\ calls < MaxCalls /\ calls' = calls + 1 /\ troubles' = troubles
    BY DEF Start, world
  <1>3. PICK m : m = [Idle EXCEPT !.pc = IF array = "svc" THEN "list" ELSE "host",
                                  !.op = op, !.vol = v, !.node = n]
    OBVIOUS
  <1>4. /\ m.pc = (IF array = "svc" THEN "list" ELSE "host") /\ m.op = op /\ m.vol = v /\ m.node = n /\ m.lun = NoLun /\ m.then = "none"
        /\ m \in LocRecs
    <2>1. PICK i : i = Idle
      OBVIOUS
    <2>2. i \in LocRecs
      BY <2>1, IdleIs DEF Locs
    <2>3. i.lun = NoLun /\ i.then = "none"
      BY <2>1 DEF Idle
    <2>4. m = [i EXCEPT !.pc = IF array = "svc" THEN "list" ELSE "host", !.op = op, !.vol = v, !.node = n]
      BY <1>3, <2>1
    <2> QED
      BY <2>2, <2>3, <2>4 DEF LocRecs, Pcs
  <1>5. m \in Locs
    BY <1>4 DEF Locs, InStep
  <1>6. loc' \in [Threads -> Locs] /\ \A u \in Threads : loc'[u] = IF u = t THEN m ELSE loc[u]
    BY <1>1, <1>3, <1>5 DEF IInv, Typed
  <1>7. /\ granted' \in [Volumes -> [Nodes -> Nat \cup {NoLun, Unpublished}]]
        /\ granted'[v][n] = IF op = "Unpublish" \/ granted[v][n] = Unpublished THEN NoLun ELSE granted[v][n]
        /\ \A w \in Volumes, k \in Nodes : w # v \/ k # n => granted'[w][k] = granted[w][k]
    BY <1>1 DEF IInv, Typed
  <1>8. /\ odd \subseteq odd' /\ odd' \in SUBSET {"overlap", "edit", "dropped"}
        /\ odd' = {} => odd = {}
        /\ "overlap" \notin odd' =>
              "overlap" \notin odd /\ \A o \in Threads : loc[o].pc # "idle" => loc[o].vol # v
    BY <1>1 DEF IInv, Typed
  <1>9. Distinct' /\ Placed' /\ SingleHost'
        /\ hostmap' \in [Hosts -> [Volumes -> Luns' \cup {NoLun}]]
    BY <1>2, <1>8, MapsKept
  <1>10. LunHolds' /\ UnpublishedClean'
    <2>1. "overlap" \notin odd /\ granted'[v][n] \notin {NoLun, Unpublished} =>
            \E h \in Owners(n) :
               /\ hostmap[h][v] # NoLun
               /\ granted'[v][n] = IF array = "ds8k" THEN HostLun[hostmap[h][v]] ELSE hostmap[h][v]
      BY <1>7 DEF IInv, LunHolds
    <2>2. odd' = {} /\ granted'[v][n] = Unpublished => MappedTo(v) \cap Owners(n) = {}
      BY <1>7 DEF NoLun, Unpublished
    <2> QED
      BY <1>2, <1>7, <1>8, <2>1, <2>2, PromiseStep
  <1>11. Alone'
    BY <1>4, <1>6, <1>8 DEF IInv, Alone
  <1>12. Luns' = Luns /\ \A k : Owners(k)' = Owners(k) /\ HostOf(k)' = HostOf(k)
    BY <1>2, ArrayKept
  <1>13. ASSUME NEW u \in Threads, u # t PROVE Knows(loc[u])'
    <2>1. PICK k : k = loc[u]
      OBVIOUS
    <2>2. loc'[u] = k /\ Knows(k) /\ k \in Locs
      BY <1>6, <1>13, <2>1 DEF IInv, Known, Typed
    <2>3. k.pc # "idle" => k.vol \in Volumes /\ k.node \in Nodes
      BY <2>2 DEF Locs, InStep
    <2>4. k.pc # "idle" /\ "overlap" \notin odd' => granted'[k.vol][k.node] = granted[k.vol][k.node]
      BY <1>7, <1>8, <2>1, <2>3
    <2>5. Knows(k)'
      BY <1>2, <1>8, <1>12, <2>2, <2>4 DEF Knows, Choosing, NoLun, Unpublished
    <2> QED
      BY <2>2, <2>5 DEF Knows
  <1>14. Knows(loc[t])'
    <2>1. Knows(m)'
      BY <1>2, <1>4, <1>7 DEF Knows, Choosing, NoLun, Unpublished
    <2>2. loc'[t] = m
      BY <1>6
    <2> QED
      BY <2>1, <2>2 DEF Knows
  <1>15. Known'
    BY <1>13, <1>14 DEF Known
  <1>16. calls' \in 0..MaxCalls
    BY <1>2, MappingAssumption DEF IInv, Typed
  <1>17. Typed'
    BY <1>2, <1>6, <1>7, <1>8, <1>9, <1>16 DEF IInv, Typed, NoLun, Unpublished
  <1>18. RaisesDeclared'
    BY <1>1 DEF RaisesDeclared, Running
  <1> QED
    BY <1>9, <1>10, <1>11, <1>15, <1>17, <1>18 DEF IInv

\* The deletion of a volume without mappings preserves the invariant.
LEMMA VolumeDeletedIInv == ASSUME IInv, NEW v \in Volumes, VolumeDeleted(v) PROVE IInv'
  <1>1. /\ array' = array /\ hosts' = hosts /\ hostmap' = hostmap /\ loc' = loc
        /\ granted' = granted /\ odd' = odd /\ calls' = calls /\ exists' = exists \ {v}
        /\ troubles' = troubles + 1 /\ troubles < MaxTroubles /\ outcome' = Running
        /\ \A h \in Hosts : hostmap[h][v] = NoLun
    BY DEF VolumeDeleted, MappedTo
  <1>2. Alone' /\ Known' /\ LunHolds' /\ UnpublishedClean'
    BY <1>1, CallsKept, AnswersKept
  <1>3. Distinct'
    BY <1>1 DEF IInv, Distinct, NoLun
  <1>4. Luns' = Luns /\ \A k : Owners(k)' = Owners(k) /\ HostOf(k)' = HostOf(k)
    BY <1>1, ArrayKept
  <1>5. Placed' /\ SingleHost'
    BY <1>1, <1>4 DEF IInv, Placed, SingleHost, MappedTo, NoLun
  <1>6. troubles' \in 0..MaxTroubles
    BY <1>1, MappingAssumption DEF IInv, Typed
  <1>7. Typed'
    BY <1>1, <1>4, <1>6 DEF IInv, Typed, NoLun, Unpublished
  <1>8. RaisesDeclared'
    BY <1>1 DEF RaisesDeclared, Running
  <1> QED
    BY <1>2, <1>3, <1>5, <1>7, <1>8 DEF IInv

\* An edit of the hosts preserves the invariant.
LEMMA EditHostIInv == ASSUME IInv, NEW h \in Hosts, EditHost(h) PROVE IInv'
  <1>1. /\ array' = array /\ exists' = exists /\ hostmap' = hostmap /\ loc' = loc
        /\ granted' = granted /\ calls' = calls
        /\ troubles' = troubles + 1 /\ troubles < MaxTroubles /\ outcome' = Running
        /\ hosts' = IF h \in hosts THEN hosts \ {h} ELSE hosts \cup {h}
    BY DEF EditHost
  <1>2. /\ odd \subseteq odd' /\ odd' \in SUBSET {"overlap", "edit", "dropped"} /\ odd' # {}
        /\ "overlap" \in odd' => "overlap" \in odd
    BY DEF EditHost, IInv, Typed
  <1>3. Alone' /\ Known' /\ LunHolds' /\ UnpublishedClean'
    BY <1>1, <1>2, CallsKept, AnswersKept
  <1>4. Distinct' /\ SingleHost'
    BY <1>1, <1>2 DEF IInv, Distinct, SingleHost, MappedTo, NoLun
  <1>5. Placed'
    BY <1>2 DEF Placed
  <1>6. troubles' \in 0..MaxTroubles /\ hosts' \in SUBSET Hosts
    BY <1>1, MappingAssumption DEF IInv, Typed
  <1>7. Luns' = Luns
    BY <1>1, ArrayKept
  <1>8. Typed'
    BY <1>1, <1>2, <1>6, <1>7 DEF IInv, Typed, NoLun, Unpublished
  <1>9. RaisesDeclared'
    BY <1>1 DEF RaisesDeclared, Running
  <1> QED
    BY <1>3, <1>4, <1>5, <1>8, <1>9 DEF IInv

-----------------------------------------------------------------------------
(***************************************************************************)
(* The theorems.                                                           *)
(***************************************************************************)

\* The invariant holds at the start: nothing is mapped and no call is at work.
LEMMA InitIInv == Init => IInv
  <1> SUFFICES ASSUME Init PROVE IInv
    OBVIOUS
  <1>1. \A h \in Hosts, v \in Volumes : hostmap[h][v] = NoLun
    BY DEF Init
  <1>2. \A v \in Volumes, n \in Nodes : granted[v][n] = NoLun
    BY DEF Init
  <1>3. \A t \in Threads : loc[t] = Idle
    BY DEF Init
  <1>4. array \in Arrays /\ odd = {} /\ hosts = Defined /\ exists = Volumes /\ outcome = Running
    BY DEF Init
  <1>5. Idle \in Locs /\ Idle.pc = "idle" /\ Knows(Idle)
    BY <1>4, IdleIs
  <1>6. Typed
    BY <1>4, <1>5, MappingAssumption DEF Init, Typed
  <1>7. Distinct /\ Placed
    BY <1>1, <1>4 DEF Distinct, Placed
  <1>8. Alone
    BY <1>3, <1>5 DEF Alone
  <1>9. Known
    BY <1>3, <1>5 DEF Known
  <1>10. SingleHost
    BY <1>1 DEF SingleHost, MappedTo
  <1>11. LunHolds
    BY <1>2 DEF LunHolds
  <1>12. UnpublishedClean
    BY <1>2 DEF UnpublishedClean, NoLun, Unpublished
  <1>13. RaisesDeclared
    BY <1>4 DEF RaisesDeclared, Running
  <1> QED
    BY <1>6, <1>7, <1>8, <1>9, <1>10, <1>11, <1>12, <1>13 DEF IInv

\* Every step preserves the invariant.
LEMMA NextIInv == IInv /\ [Next]_vars => IInv'
  <1> SUFFICES ASSUME IInv, [Next]_vars PROVE IInv'
    OBVIOUS
  <1>1. ASSUME NEW t \in Threads, Start(t) \/ Command(t) \/ Fault(t) \/ NotFoundDropped(t) PROVE IInv'
    BY <1>1, StartIInv, FaultIInv, NotFoundDroppedIInv, ListHostsIInv, FindHostIInv,
       ReadTargetsIInv, FindVolumeIInv, ReadMappingsIInv, PickLunIInv, MapVolumeIInv, MapAnyLunIInv, UnmapVolumeIInv, FindLunIInv,
       UnmapLunIInv DEF Command
  <1>2. ASSUME NEW v \in Volumes, VolumeDeleted(v) PROVE IInv'
    BY <1>2, VolumeDeletedIInv
  <1>3. ASSUME NEW h \in Hosts, EditHost(h) PROVE IInv'
    BY <1>3, EditHostIInv
  <1>4. CASE Crash
    BY <1>4, CrashIInv
  <1>5. CASE UNCHANGED vars
    <2>1. /\ UNCHANGED <<array, hosts, exists, hostmap, loc, granted, outcome, lost, odd, calls, troubles>>
      BY <1>5 DEF vars
    <2>2. Alone' /\ Known' /\ LunHolds' /\ UnpublishedClean'
      BY <2>1, CallsKept, AnswersKept
    <2>3. Distinct' /\ Placed' /\ SingleHost'
          /\ hostmap' \in [Hosts -> [Volumes -> Luns' \cup {NoLun}]]
      BY <2>1, MapsKept
    <2>4. Typed'
      BY <2>1, <2>3 DEF IInv, Typed, NoLun, Unpublished
    <2>5. RaisesDeclared'
      BY <2>1 DEF IInv, RaisesDeclared
    <2> QED
      BY <2>2, <2>3, <2>4, <2>5 DEF IInv
  <1> QED
    BY <1>1, <1>2, <1>3, <1>4, <1>5 DEF Next

\* The inductive invariant holds in every state.
THEOREM Invariance == Spec => []IInv
  BY InitIInv, NextIInv, PTL DEF Spec

\* ControllerPublishVolume: the node that was answered a LUN sees the volume under
\* that LUN, on a host with one of its ports, until an unpublish is asked for, if
\* calls about one volume do not overlap.
THEOREM AnsweredLunHolds == Spec => []LunHolds
  <1>1. IInv => LunHolds
    BY DEF IInv
  <1> QED
    BY <1>1, Invariance, PTL

\* The mappings agree with the answers: LUNs are of the mediator's range, a volume is
\* on one host at a time, and ControllerUnpublishVolume answers OK only when the
\* volume is on no host of the node, with the exceptions that the properties name.
THEOREM MappingsAgree == Spec => []MappedAsAnswered
  <1>1. IInv => MappedAsAnswered
    <2> SUFFICES ASSUME IInv PROVE MappedAsAnswered
      OBVIOUS
    <2>1. \A t \in Threads : loc[t].lun \in Luns \cup {NoLun} /\ loc[t].tries \in 0..LunTries
      BY LocIs DEF Knows, LocRecs
    <2>2. TypeOK
      BY <2>1 DEF IInv, Typed, TypeOK
    <2> QED
      BY <2>2 DEF IInv, MappedAsAnswered
  <1> QED
    BY <1>1, Invariance, PTL

\* The mediators raise what the interface declares for the method, but for the known
\* exceptions.
THEOREM ErrorsAreDeclared == Spec => []RaisesDeclared
  <1>1. IInv => RaisesDeclared
    BY DEF IInv
  <1> QED
    BY <1>1, Invariance, PTL

\* The steps that leave the mappings alone.
LEMMA MapsUntouched ==
  ASSUME NEW t \in Threads,
         \/ Start(t) \/ Fault(t) \/ NotFoundDropped(t) \/ ListHosts(t) \/ FindHost(t) \/ ReadTargets(t)
         \/ FindVolume(t) \/ ReadMappings(t) \/ PickLun(t) \/ FindLun(t)
  PROVE  hostmap' = hostmap
  <1>1. CASE Start(t) \/ Fault(t) \/ NotFoundDropped(t)
    BY <1>1, ZenonT(30) DEF Start, Fault, NotFoundDropped
  <1>2. CASE ListHosts(t) \/ FindHost(t) \/ ReadTargets(t) \/ FindVolume(t)
    BY <1>2, SMTT(30) DEF ListHosts, FindHost, ReadTargets, FindVolume
  <1>3. CASE ReadMappings(t) \/ PickLun(t) \/ FindLun(t)
    BY <1>3 DEF ReadMappings, PickLun, FindLun
  <1> QED
    BY <1>1, <1>2, <1>3, SMTT(30)

\* map_volume takes no mapping away.
LEMMA MapsOnly ==
  ASSUME IInv, NEW t \in Threads, MapVolume(t) \/ MapAnyLun(t),
         NEW h \in Hosts, NEW v \in Volumes, hostmap[h][v] # NoLun
  PROVE  hostmap'[h][v] # NoLun
  <1>1. ASSUME NEW lun \in Luns, Refused(loc[t]) = "none", loc[t].vol \in Volumes,
               hostmap' = [hostmap EXCEPT ![loc[t].host][loc[t].vol] = lun]
        PROVE  hostmap'[h][v] # NoLun
    <2>1. lun # NoLun
      BY LocIs, LunsAreNumbers
    <2>2. loc[t].host \in Hosts
      BY <1>1 DEF Refused, IInv, Typed
    <2>3. hostmap'[h][v] \in {hostmap[h][v], lun}
      BY <1>1, <2>2 DEF IInv, Typed
    <2> QED
      BY <2>1, <2>3
  <1>2. CASE MapVolume(t)
    <2>1. loc[t].vol \in Volumes /\ loc[t].lun \in Luns
      BY <1>2, LocIs DEF MapVolume, Knows
    <2> QED
      BY <1>1, <1>2, <2>1 DEF MapVolume
  <1>3. CASE MapAnyLun(t)
    <2>1. loc[t].vol \in Volumes
      BY <1>3, LocIs DEF MapAnyLun
    <2> QED
      BY <1>1, <1>3, <2>1 DEF MapAnyLun
  <1> QED
    BY <1>2, <1>3

\* Whose unpublish takes a mapping away.
LEMMA UnmapsOwnStep ==
  ASSUME IInv, [Next]_vars, NEW h \in Hosts, NEW v \in Volumes,
         hostmap[h][v] # NoLun, hostmap'[h][v] = NoLun
  PROVE  \/ \E t \in Threads : /\ loc[t].op = "Unpublish" /\ loc[t].vol = v
                                /\ loc[t].host = h /\ loc'[t].pc = "idle"
         \/ array = "ds8k" /\ "overlap" \in odd
  <1>1. hostmap' # hostmap
    OBVIOUS
  <1>2. PICK t \in Threads : UnmapVolume(t) \/ UnmapLun(t)
    <2>1. ASSUME NEW t \in Threads, Start(t) \/ Command(t) \/ Fault(t) \/ NotFoundDropped(t),
                 ~(UnmapVolume(t) \/ UnmapLun(t))
          PROVE  FALSE
      BY <1>1, <2>1, MapsUntouched, MapsOnly DEF Command
    <2>2. ASSUME NEW w, VolumeDeleted(w) PROVE FALSE
      BY <1>1, <2>2 DEF VolumeDeleted
    <2>3. ASSUME NEW g, EditHost(g) PROVE FALSE
      BY <1>1, <2>3 DEF EditHost
    <2>4. ~Crash /\ ~UNCHANGED vars
      BY <1>1 DEF Crash, vars
    <2> QED
      BY <2>1, <2>2, <2>3, <2>4 DEF Next
  <1>3. /\ loc[t].pc \in {"unmap", "unmaplun"} /\ loc[t].op = "Unpublish" /\ loc[t].vol \in Volumes
        /\ loc[t].pc = "unmaplun" => array = "ds8k"
    BY <1>2, LocIs DEF UnmapVolume, UnmapLun, InStep, Knows
  <1>4. Unmapped(t) => loc'[t].pc = "idle"
    BY IdleIs DEF Unmapped, Reply, IInv, Typed
  <1>5. CASE UnmapVolume(t)
    <2>1. /\ hostmap' = [hostmap EXCEPT ![loc[t].host][loc[t].vol] = NoLun]
          /\ Unmapped(t) /\ loc[t].host \in Hosts
      BY <1>1, <1>5 DEF UnmapVolume, MappedTo
    <2>2. loc[t].host = h /\ loc[t].vol = v
      BY <1>3, <2>1 DEF IInv, Typed
    <2> QED
      BY <1>3, <1>4, <2>1, <2>2
  <1>6. CASE UnmapLun(t)
    <2>1. /\ hostmap' = [hostmap EXCEPT ![loc[t].host] =
                            [w \in Volumes |-> IF @[w] = loc[t].lun THEN NoLun ELSE @[w]]]
          /\ Unmapped(t) /\ loc[t].host \in Hosts /\ loc[t].pc = "unmaplun"
      BY <1>1, <1>6 DEF UnmapLun, IInv, Typed
    <2>2. "overlap" \notin odd =>
             hostmap'[h][v] = IF h = loc[t].host /\ v = loc[t].vol THEN NoLun ELSE hostmap[h][v]
      BY <2>1, UnmapLunIs
    <2> QED
      BY <1>3, <1>4, <2>1, <2>2
  <1> QED
    BY <1>2, <1>5, <1>6

\* A mapping goes away only in an unpublish of its volume from its host; only on a
\* DS8K, which unmaps by LUN, can overlapping calls take away another volume's.
THEOREM UnmapsOwnOnly == Spec => UnmapsOwn
  <1>1. ASSUME IInv, [Next]_vars
        PROVE  [\A h \in Hosts, v \in Volumes :
                  hostmap[h][v] # NoLun /\ hostmap'[h][v] = NoLun =>
                      \/ \E t \in Threads : /\ loc[t].op = "Unpublish" /\ loc[t].vol = v
                                            /\ loc[t].host = h /\ loc'[t].pc = "idle"
                      \/ array = "ds8k" /\ "overlap" \in odd]_vars
    BY <1>1, UnmapsOwnStep
  <1> QED
    BY <1>1, Invariance, PTL DEF Spec, UnmapsOwn

-----------------------------------------------------------------------------
(***************************************************************************)
(* The races for LUNs.                                                     *)
(***************************************************************************)

\* The chosen LUN was taken by another call.
Beaten(l) == l.pc = "map" /\ l.lun \in InUse(l.host)

\* Every try that a call has used up, or is about to, was lost to a race.
RacedAt(l, n) ==
    Choosing(l) =>
        /\ l.tries \in 1..LunTries
        /\ n >= LunTries - l.tries
        /\ Beaten(l) => n >= LunTries - l.tries + 1

Raced == /\ lost \in [Threads -> Nat]
         /\ array # "ds8k" => \A t \in Threads : RacedAt(loc[t], lost[t])

\* The call of a thread that has chosen a LUN is about a host.
LEMMA ChosenHost == ASSUME IInv, NEW t \in Threads, loc[t].pc = "map" PROVE loc[t].host \in Hosts
  <1>1. PICK n \in Nodes : n = loc[t].node
    BY LocIs
  <1> QED
    BY <1>1, LocIs, OwnersApart DEF Knows

\* A step of t that takes no LUN leaves the races of the others as they are.
LEMMA RacedKept ==
  ASSUME IInv, Raced, NEW t \in Threads, array' = array, lost' = lost,
         NEW m, loc' = [loc EXCEPT ![t] = m],
         \A h \in Hosts : InUse(h)' \subseteq InUse(h),
         array # "ds8k" => RacedAt(m, lost[t])'
  PROVE  Raced'
  <1>1. /\ loc'[t] = m
        /\ \A o \in Threads : o # t => loc'[o] = loc[o]
    BY DEF IInv, Typed
  <1>2. ASSUME NEW o \in Threads, o # t, array # "ds8k" PROVE RacedAt(loc[o], lost[o])'
    <2>1. PICK l, n : l = loc[o] /\ n = lost[o]
      OBVIOUS
    <2>2. RacedAt(l, n)
      BY <1>2, <2>1 DEF Raced
    <2>3. Beaten(l)' => Beaten(l)
      BY <2>1, ChosenHost DEF Beaten
    <2>4. RacedAt(l, n)'
      BY <2>2, <2>3 DEF RacedAt, Choosing
    <2> QED
      BY <1>1, <1>2, <2>1, <2>4 DEF RacedAt, Choosing, Beaten, InUse
  <1>3. array # "ds8k" => RacedAt(loc[t], lost[t])'
    BY <1>1 DEF RacedAt, Choosing, Beaten, InUse
  <1> QED
    BY <1>2, <1>3 DEF Raced

\* The call of t goes on without taking a LUN.
LEMMA GoRaced ==
  ASSUME IInv, Raced, NEW t \in Threads, NEW m, Go(t, m),
         UNCHANGED <<world, hostmap, lost, odd, bounds>>, array # "ds8k" => RacedAt(m, lost[t])
  PROVE  Raced'
  <1>1. array' = array /\ lost' = lost /\ hostmap' = hostmap /\ loc' = [loc EXCEPT ![t] = m]
    BY DEF world, Go
  <1>2. \A h : InUse(h)' = InUse(h)
    BY <1>1 DEF InUse, NoLun
  <1>3. PICK n : n = lost[t]
    OBVIOUS
  <1>4. array # "ds8k" => RacedAt(m, n)'
    BY <1>2, <1>3 DEF RacedAt, Choosing, Beaten
  <1>5. array # "ds8k" => RacedAt(m, lost[t])'
    BY <1>1, <1>3, <1>4 DEF RacedAt, Choosing, Beaten, InUse
  <1> QED
    BY <1>1, <1>2, <1>5, RacedKept

\* The call of t ends without taking a LUN.
LEMMA ReplyRaced ==
  ASSUME IInv, Raced, NEW t \in Threads, array' = array, lost' = lost, loc' = [loc EXCEPT ![t] = Idle],
         \A h \in Hosts : InUse(h)' \subseteq InUse(h)
  PROVE  Raced'
  <1>1. PICK m : m = Idle
    OBVIOUS
  <1>2. RacedAt(m, lost[t])'
    BY <1>1 DEF Idle, RacedAt, Choosing
  <1> QED
    BY <1>1, <1>2, RacedKept

\* The call of t ends and the mappings stay.
LEMMA EndRaced ==
  ASSUME IInv, Raced, NEW t \in Threads, array' = array, lost' = lost, hostmap' = hostmap,
         \/ \E method, ex : Raise(t, method, ex)
         \/ \E lun : Grant(t, lun)
         \/ Unmapped(t)
  PROVE  Raced'
  <1>1. loc' = [loc EXCEPT ![t] = Idle]
    BY DEF Raise, Grant, Unmapped, Reply
  <1>2. \A h : InUse(h)' = InUse(h)
    BY DEF InUse, NoLun
  <1> QED
    BY <1>1, <1>2, ReplyRaced

\* Before a call chooses a LUN.
LEMMA ReadsRaced ==
  ASSUME IInv, Raced, NEW t \in Threads, ListHosts(t) \/ FindHost(t) \/ ReadTargets(t) \/ FindLun(t)
  PROVE  Raced'
  <1>1. /\ UNCHANGED <<world, hostmap, lost, odd, bounds>>
        /\ array' = array /\ lost' = lost /\ hostmap' = hostmap
    <2>1. UNCHANGED <<world, hostmap, lost, odd, bounds>>
      BY DEF ListHosts, FindHost, ReadTargets, FindLun
    <2> QED
      BY <2>1 DEF world
  <1>2. loc[t].pc \in {"list", "host", "targets", "unmap"} /\ loc[t] \in LocRecs /\ loc[t].then = "none"
    BY LocIs DEF ListHosts, FindHost, ReadTargets, FindLun, InStep
  <1>3. PICK l \in LocRecs : l = loc[t] /\ l.then = "none"
    BY <1>2
  <1>4. ASSUME NEW m, Go(t, m), m.pc \notin {"lun", "map"}, m.then # "lun" PROVE Raced'
    BY <1>1, <1>4, GoRaced DEF RacedAt, Choosing
  <1>5. CASE ListHosts(t)
    <2>1. PICK m : m = [l EXCEPT !.pc = "host", !.listed = hosts]
      OBVIOUS
    <2>2. Go(t, m) /\ m.pc = "host" /\ m.then = "none"
      BY <1>3, <1>5, <2>1 DEF ListHosts, LocRecs
    <2> QED
      BY <1>4, <2>2
  <1>6. CASE FindHost(t)
    <2>1. PICK found : found = HostFound[array][Readable(l)][l.node]
      OBVIOUS
    <2>2. CASE Raise(t, "get_host_by_host_identifiers", found.ex)
      BY <1>1, <2>2, EndRaced
    <2>3. ASSUME NEW fc, Go(t, [l EXCEPT !.host = found.host, !.listed = {}, !.pc = "targets", !.fc = fc])
          PROVE  Raced'
      <3>1. PICK m : m = [l EXCEPT !.host = found.host, !.listed = {}, !.pc = "targets", !.fc = fc]
        OBVIOUS
      <3>2. m.pc = "targets" /\ m.then = "none"
        BY <1>3, <3>1 DEF LocRecs
      <3> QED
        BY <1>4, <2>3, <3>1, <3>2
    <2>4. CASE Go(t, ByName([l EXCEPT !.host = found.host, !.listed = {}], "unmap"))
      <3>1. PICK m : m = ByName([l EXCEPT !.host = found.host, !.listed = {}], "unmap")
        OBVIOUS
      <3>2. m.pc \in {"unmap", "name"} /\ m.then \in {"none", "unmap"}
        BY <1>3, <3>1 DEF LocRecs, ByName
      <3> QED
        BY <1>4, <2>4, <3>1, <3>2
    <2> QED
      BY <1>3, <1>6, <2>1, <2>2, <2>3, <2>4 DEF FindHost
  <1>7. CASE ReadTargets(t)
    <2>1. CASE Go(t, ByName(l, "mappings"))
      <3>1. PICK m : m = ByName(l, "mappings")
        OBVIOUS
      <3>2. m.pc \in {"mappings", "name"} /\ m.then \in {"none", "mappings"}
        BY <1>3, <3>1 DEF LocRecs, ByName
      <3> QED
        BY <1>4, <2>1, <3>1, <3>2
    <2>2. CASE \E method, ex : Raise(t, method, ex)
      BY <1>1, <2>2, EndRaced
    <2> QED
      BY <1>3, <1>7, <2>1, <2>2 DEF ReadTargets
  <1>8. CASE FindLun(t)
    <2>1. CASE Go(t, [l EXCEPT !.pc = "unmaplun", !.lun = hostmap[l.host][l.vol]])
      <3>1. PICK m : m = [l EXCEPT !.pc = "unmaplun", !.lun = hostmap[l.host][l.vol]]
        OBVIOUS
      <3>2. m.pc = "unmaplun" /\ m.then = "none"
        BY <1>3, <3>1 DEF LocRecs
      <3> QED
        BY <1>4, <2>1, <3>1, <3>2
    <2>2. CASE \E method, ex : Raise(t, method, ex)
      BY <1>1, <2>2, EndRaced
    <2> QED
      BY <1>3, <1>8, <2>1, <2>2 DEF FindLun
  <1> QED
    BY <1>5, <1>6, <1>7, <1>8

\* A lookup of the volume uses up no try.
LEMMA FindVolumeRaced == ASSUME IInv, Raced, NEW t \in Threads, FindVolume(t) PROVE Raced'
  <1>1. UNCHANGED <<world, hostmap, lost, odd, bounds>> /\ array' = array /\ lost' = lost /\ hostmap' = hostmap
    BY DEF FindVolume, world
  <1>2. PICK l \in LocRecs : l = loc[t] /\ l.pc = "name" /\ l.then \in {"mappings", "lun", "unmap"}
    BY LocIs DEF FindVolume, InStep, LocRecs
  <1>3. CASE Raise(t, MethodAt(l.then), "ObjectNotFoundError")
    BY <1>1, <1>3, EndRaced
  <1>4. CASE Go(t, [l EXCEPT !.pc = l.then, !.then = "none"])
    <2>1. PICK m : m = [l EXCEPT !.pc = l.then, !.then = "none"]
      OBVIOUS
    <2>2. m.pc = l.then /\ m.then = "none" /\ m.tries = l.tries
      BY <2>1 DEF LocRecs
    <2>3. array # "ds8k" => RacedAt(l, lost[t])
      BY <1>2 DEF Raced
    <2>4. array # "ds8k" => RacedAt(m, lost[t])
      BY <1>2, <2>2, <2>3 DEF RacedAt, Choosing, Beaten
    <2> QED
      BY <1>1, <1>4, <2>1, <2>4, GoRaced
  <1> QED
    BY <1>2, <1>3, <1>4 DEF FindVolume

\* A call starts to choose with all its tries.
LEMMA ReadMappingsRaced == ASSUME IInv, Raced, NEW t \in Threads, ReadMappings(t) PROVE Raced'
  <1>1. UNCHANGED <<world, hostmap, lost, odd, bounds>> /\ array' = array /\ lost' = lost /\ hostmap' = hostmap
    BY DEF ReadMappings, world
  <1>2. PICK l \in LocRecs : l = loc[t]
    BY LocIs
  <1>3. CASE \E method, ex : Raise(t, method, ex)
    BY <1>1, <1>3, EndRaced
  <1>4. CASE \E lun : Grant(t, lun)
    BY <1>1, <1>4, EndRaced
  <1>5. CASE Go(t, ByName([l EXCEPT !.tries = LunTries], IF array = "ds8k" THEN "map" ELSE "lun"))
    <2>1. PICK m : m = ByName([l EXCEPT !.tries = LunTries], IF array = "ds8k" THEN "map" ELSE "lun")
      OBVIOUS
    <2>2. array # "ds8k" => m.pc = "name" /\ m.tries = LunTries
      BY <2>1 DEF LocRecs, ByName
    <2>3. lost[t] \in Nat
      BY DEF Raced
    <2>4. array # "ds8k" => RacedAt(m, lost[t])
      BY <2>2, <2>3, MappingAssumption DEF RacedAt, Beaten
    <2> QED
      BY <1>1, <1>5, <2>1, <2>4, GoRaced
  <1> QED
    BY <1>2, <1>3, <1>4, <1>5 DEF ReadMappings

\* The LUN that a call chooses is free.
LEMMA PickLunRaced == ASSUME IInv, Raced, NEW t \in Threads, PickLun(t) PROVE Raced'
  <1>1. UNCHANGED <<world, hostmap, lost, odd, bounds>> /\ array' = array /\ lost' = lost /\ hostmap' = hostmap
    BY DEF PickLun, world
  <1>2. PICK l \in LocRecs : l = loc[t] /\ l.pc = "lun" /\ array \in Arrays
    BY LocIs DEF PickLun
  <1>3. CASE \E method, ex : Raise(t, method, ex)
    BY <1>1, <1>3, EndRaced
  <1>4. ASSUME NEW lun \in LunChoices(l.host), Go(t, [l EXCEPT !.pc = "map", !.lun = lun]) PROVE Raced'
    <2>1. PICK h, m : h = l.host /\ m = [l EXCEPT !.pc = "map", !.lun = lun]
      OBVIOUS
    <2>2. lun \notin InUse(h)
      BY <1>2, <1>4, <2>1, ChoicesAreFree
    <2>3. m.pc = "map" /\ m.tries = l.tries /\ m.lun = lun /\ m.host = h
      BY <2>1 DEF LocRecs
    <2>4. array # "ds8k" => RacedAt(l, lost[t])
      BY <1>2 DEF Raced
    <2>5. array # "ds8k" => RacedAt(m, lost[t])
      BY <1>2, <2>2, <2>3, <2>4 DEF RacedAt, Choosing, Beaten
    <2> QED
      BY <1>1, <1>4, <2>1, <2>5, GoRaced
  <1> QED
    BY <1>2, <1>3, <1>4 DEF PickLun

\* map_volume: a try is used up by a lost race, and a LUN that is taken is a race lost
\* by the calls that had chosen it.
LEMMA MapVolumeRaced == ASSUME IInv, Raced, NEW t \in Threads, MapVolume(t) PROVE Raced'
  <1>1. array' = array /\ array # "ds8k" /\ UNCHANGED <<world, odd, bounds>>
    BY DEF MapVolume, world
  <1>2. PICK l \in LocRecs : l = loc[t] /\ l.pc = "map"
    BY LocIs DEF MapVolume
  <1>3. CASE (\E method, ex : Raise(t, method, ex)) /\ UNCHANGED <<hostmap, lost>>
    BY <1>1, <1>3, EndRaced
  <1>4. CASE /\ l.lun \in InUse(l.host) /\ l.tries > 1 /\ UNCHANGED <<hostmap, lost>>
             /\ Go(t, ByName([l EXCEPT !.tries = @ - 1], "lun"))
    <2>1. PICK m : m = ByName([l EXCEPT !.tries = @ - 1], "lun")
      OBVIOUS
    <2>2. m.pc = "name" /\ m.tries = l.tries - 1 /\ l.tries \in 0..LunTries
      BY <1>1, <2>1 DEF LocRecs, ByName
    <2>3. RacedAt(l, lost[t]) /\ lost[t] \in Nat
      BY <1>1, <1>2 DEF Raced
    <2>4. lost[t] >= LunTries - l.tries + 1
      BY <1>2, <1>4, <2>3 DEF RacedAt, Choosing, Beaten
    <2>5. RacedAt(m, lost[t])
      BY <1>4, <2>2, <2>3, <2>4, MappingAssumption DEF RacedAt, Beaten
    <2>6. UNCHANGED <<world, hostmap, lost, odd, bounds>>
      BY <1>1, <1>4
    <2> QED
      BY <1>4, <2>1, <2>5, <2>6, GoRaced
  <1>5. CASE /\ hostmap' = [hostmap EXCEPT ![l.host][l.vol] = l.lun]
             /\ lost' = [o \in Threads |-> lost[o] + (IF RacesFor(o, l) THEN 1 ELSE 0)]
             /\ Grant(t, l.lun)
    <2>1. loc' = [loc EXCEPT ![t] = Idle]
      BY <1>5 DEF Grant, Reply
    <2>2. lost' \in [Threads -> Nat]
      BY <1>5 DEF Raced
    <2>3. loc'[t] = Idle /\ \A o \in Threads : o # t => loc'[o] = loc[o]
      BY <2>1 DEF IInv, Typed
    <2>4. RacedAt(loc[t], lost[t])'
      <3>1. ~Choosing(Idle)
        BY DEF Choosing, Idle
      <3> QED
        BY <2>3, <3>1 DEF RacedAt, Choosing
    <2>5. ASSUME NEW o \in Threads, o # t PROVE RacedAt(loc[o], lost[o])'
      <3>1. PICK k \in LocRecs, n \in Nat, n2 \in Nat : k = loc[o] /\ n = lost[o] /\ n2 = lost'[o]
        BY <2>2, LocIs DEF Raced
      <3>2. RacedAt(k, n)
        BY <1>1, <3>1 DEF Raced
      <3>3. n2 = IF RacesFor(o, l) THEN n + 1 ELSE n
        BY <1>5, <3>1
      <3>4. k.pc = "map" /\ k.lun \in InUse(k.host)' /\ k.lun \notin InUse(k.host) => RacesFor(o, l)
        <4>1. SUFFICES ASSUME k.pc = "map", k.lun \in InUse(k.host)', k.lun \notin InUse(k.host)
                       PROVE  k.host = l.host /\ k.lun = l.lun
          BY <3>1 DEF RacesFor
        <4>2. k.host \in Hosts
          BY <3>1, <4>1, ChosenHost
        <4>3. PICK v \in Volumes : hostmap'[k.host][v] = k.lun /\ hostmap'[k.host][v] # NoLun
          BY <4>1 DEF InUse, NoLun
        <4>4. hostmap[k.host][v] # k.lun
          BY <4>1, <4>3 DEF InUse
        <4> QED
          BY <1>5, <4>2, <4>3, <4>4 DEF IInv, Typed
      <3>5. (RacedAt(k, n2))'
        BY <3>2, <3>3, <3>4, MappingAssumption DEF RacedAt, Choosing, Beaten
      <3> QED
        BY <2>3, <2>5, <3>1, <3>5 DEF RacedAt, Choosing, Beaten, InUse
    <2> QED
      BY <2>2, <2>4, <2>5 DEF Raced
  <1> QED
    BY <1>2, <1>3, <1>4, <1>5 DEF MapVolume, LunTaken

\* Mappings that go away are no races; a DS8K has none.
LEMMA UnmapsRaced ==
  ASSUME IInv, Raced, NEW t \in Threads, UnmapVolume(t) \/ UnmapLun(t) \/ MapAnyLun(t)
  PROVE  Raced'
  <1>1. array' = array /\ lost' = lost
    BY DEF UnmapVolume, UnmapLun, MapAnyLun, world
  <1>2. CASE array = "ds8k"
    BY <1>1, <1>2 DEF Raced
  <1>3. CASE array # "ds8k" /\ UnmapVolume(t)
    <2>1. CASE (\E method, ex : Raise(t, method, ex)) /\ UNCHANGED hostmap
      BY <1>1, <2>1, EndRaced
    <2>2. CASE /\ hostmap' = [hostmap EXCEPT ![loc[t].host][loc[t].vol] = NoLun]
               /\ Unmapped(t)
      <3>1. loc' = [loc EXCEPT ![t] = Idle]
        BY <2>2 DEF Unmapped, Reply
      <3>2. \A h \in Hosts, v \in Volumes : hostmap'[h][v] \in {hostmap[h][v], NoLun}
        BY <2>2 DEF IInv, Typed
      <3>3. \A h \in Hosts : InUse(h)' \subseteq InUse(h)
        BY <3>2 DEF InUse, NoLun
      <3> QED
        BY <1>1, <3>1, <3>3, ReplyRaced
    <2> QED
      BY <1>3, <2>1, <2>2 DEF UnmapVolume
  <1> QED
    BY <1>2, <1>3, LocIs DEF UnmapLun, MapAnyLun, Knows

\* Commands that fail, and new calls.
LEMMA OthersRaced ==
  ASSUME IInv, Raced, NEW t \in Threads, Start(t) \/ Fault(t) \/ NotFoundDropped(t)
  PROVE  Raced'
  <1>1. CASE Fault(t)
    BY <1>1, EndRaced DEF Fault, world
  <1>2. CASE NotFoundDropped(t)
    BY <1>2, EndRaced DEF NotFoundDropped, world
  <1>3. CASE Start(t)
    <2>1. /\ array' = array /\ hostmap' = hostmap /\ lost' = [lost EXCEPT ![t] = 0]
          /\ \E m : loc' = [loc EXCEPT ![t] = m] /\ m.pc \in {"list", "host"} /\ m.then = "none"
      <3>0. PICK op \in {"Publish", "Unpublish"}, v \in Volumes, n \in Nodes :
               loc' = [loc EXCEPT ![t] = [Idle EXCEPT !.pc = IF array = "svc" THEN "list" ELSE "host",
                                                      !.op = op, !.vol = v, !.node = n]]
        BY <1>3 DEF Start
      <3>1. PICK m : /\ loc' = [loc EXCEPT ![t] = m]
                     /\ m = [Idle EXCEPT !.pc = IF array = "svc" THEN "list" ELSE "host",
                                         !.op = op, !.vol = v, !.node = n]
        BY <3>0
      <3>2. m.pc \in {"list", "host"} /\ m.then = "none"
        BY <3>1 DEF Idle
      <3>3. array' = array /\ hostmap' = hostmap /\ lost' = [lost EXCEPT ![t] = 0]
        BY <1>3 DEF Start, world
      <3> QED
        BY <3>1, <3>2, <3>3
    <2>2. PICK m : loc' = [loc EXCEPT ![t] = m] /\ m.pc \in {"list", "host"} /\ m.then = "none"
      BY <2>1
    <2>3. /\ lost' \in [Threads -> Nat] /\ \A o \in Threads : o # t => lost'[o] = lost[o]
          /\ loc'[t] = m /\ \A o \in Threads : o # t => loc'[o] = loc[o]
      BY <2>1, <2>2 DEF Raced, IInv, Typed
    <2>4. RacedAt(loc[t], lost[t])'
      BY <2>2, <2>3 DEF RacedAt, Choosing
    <2>5. ASSUME array # "ds8k", NEW o \in Threads, o # t PROVE RacedAt(loc[o], lost[o])'
      <3>1. RacedAt(loc[o], lost[o])
        BY <2>5 DEF Raced
      <3> QED
        BY <2>1, <2>3, <2>5, <3>1 DEF RacedAt, Choosing, Beaten, InUse, NoLun
    <2> QED
      BY <2>1, <2>3, <2>4, <2>5 DEF Raced
  <1> QED
    BY <1>1, <1>2, <1>3

\* Every step keeps account of the races.
LEMMA RacedNext == IInv /\ Raced /\ [Next]_vars => Raced'
  <1> SUFFICES ASSUME IInv, Raced, [Next]_vars PROVE Raced'
    OBVIOUS
  <1>1. ASSUME NEW t \in Threads, Start(t) \/ Command(t) \/ Fault(t) \/ NotFoundDropped(t) PROVE Raced'
    BY <1>1, OthersRaced, ReadsRaced, FindVolumeRaced, ReadMappingsRaced, PickLunRaced, MapVolumeRaced,
       UnmapsRaced DEF Command
  <1>2. CASE UNCHANGED <<array, hostmap, loc, lost>>
    BY <1>2 DEF Raced, RacedAt, Choosing, Beaten, InUse, NoLun
  <1>3. CASE Crash
    <2>1. array' = array /\ lost' = lost /\ \A t \in Threads : loc'[t] = Idle
      BY <1>3 DEF Crash, world
    <2>2. ~Choosing(Idle)
      BY DEF Choosing, Idle
    <2> QED
      BY <2>1, <2>2 DEF Raced, RacedAt, Choosing
  <1> QED
    BY <1>1, <1>2, <1>3 DEF Next, VolumeDeleted, EditHost, vars

\* The exceptions that say that the LUNs have run out.
LunErrors == {"LunAlreadyInUseError", "NoAvailableLunError"}

LEMMA ExhaustedIs ==
  ASSUME IInv, NEW t \in Threads, loc[t].pc # "idle", NEW method, NEW ex, ex # "none", Raise(t, method, ex)
  PROVE  outcome'.ex = ex /\ (outcome'.status = "RESOURCE_EXHAUSTED" => ex \in LunErrors)
  <1>1. loc[t].op \in {"Publish", "Unpublish"}
    BY LocIs DEF LocRecs
  <1>2. outcome' = [status |-> Status(loc[t].op, ex), method |-> method, ex |-> ex]
    BY DEF Raise, Reply
  <1>3. CommonStatus(ex) # "RESOURCE_EXHAUSTED"
    BY DEF CommonStatus
  <1>4. Status("Publish", ex) = PublishStatus(ex) /\ Status("Unpublish", ex) = UnpublishStatus(ex)
    BY DEF Status
  <1> QED
    BY <1>1, <1>2, <1>3, <1>4 DEF PublishStatus, UnpublishStatus, LunErrors

\* Steps that raise no such exception.
LEMMA OthersNotExhausted ==
  ASSUME IInv, NEW t \in Threads,
         \/ Start(t) \/ Fault(t) \/ NotFoundDropped(t) \/ ListHosts(t) \/ FindHost(t) \/ ReadTargets(t)
         \/ FindVolume(t) \/ ReadMappings(t) \/ UnmapVolume(t) \/ FindLun(t) \/ UnmapLun(t)
  PROVE  outcome'.status # "RESOURCE_EXHAUSTED"
  <1>1. ASSUME NEW method, NEW ex, Raise(t, method, ex), ex # "none", ex \notin LunErrors, loc[t].pc # "idle"
        PROVE  outcome'.status # "RESOURCE_EXHAUSTED"
    BY <1>1, ExhaustedIs
  <1>2. ASSUME \/ \E m : Go(t, m)
               \/ \E lun : Grant(t, lun)
               \/ Unmapped(t)
        PROVE  outcome'.status # "RESOURCE_EXHAUSTED"
    <2>1. outcome' \in {Running, [status |-> "OK", method |-> "none", ex |-> "none"]}
      BY <1>2, Zenon DEF Go, Grant, Unmapped, Reply
    <2> QED
      BY <2>1 DEF Running
  <1>3. CASE Start(t)
    <2>1. outcome' = Running
      BY <1>3 DEF Start
    <2> QED
      BY <2>1 DEF Running
  <1>4. CASE Fault(t)
    <2>1. PICK l \in LocRecs : l = loc[t] /\ InStep(l) /\ array \in Arrays /\ l.pc # "idle"
      BY <1>4, LocIs DEF Fault
    <2>2. PICK ex \in Failures(l.pc) : Raise(t, MethodAt(IF l.pc = "name" THEN l.then ELSE l.pc), ex)
      BY <1>4, <2>1 DEF Fault
    <2>3. ex # "none"
      BY <2>1, <2>2, FailuresAre
    <2>4. ex \notin LunErrors
      <3>1. array \in {"svc", "xiv", "ds8k"}
        BY <2>1, MappingAssumption
      <3> QED
        BY <2>1, <2>2, <3>1 DEF Failures, LunErrors, LocRecs, Pcs
    <2> QED
      BY <1>1, <2>1, <2>2, <2>3, <2>4
  <1>5. CASE NotFoundDropped(t)
    BY <1>2, <1>5 DEF NotFoundDropped
  <1>6. CASE ListHosts(t)
    BY <1>2, <1>6 DEF ListHosts
  <1>7. CASE FindHost(t)
    <2>1. PICK hs \in SUBSET Hosts, n \in Nodes : hs = Readable(loc[t]) /\ n = loc[t].node
      BY <1>7, LocIs DEF Readable, FindHost, IInv, Typed
    <2>2. PICK found : found = HostFound[array][hs][n]
      OBVIOUS
    <2>3. found.ex \notin LunErrors
      BY <2>2, LocIs, LookupFinds DEF LunErrors
    <2>4. CASE found.ex # "none" /\ Raise(t, "get_host_by_host_identifiers", found.ex)
      BY <1>1, <1>7, <2>3, <2>4 DEF FindHost
    <2>5. CASE \E m : Go(t, m)
      BY <1>2, <2>5
    <2> QED
      BY <1>7, <2>1, <2>2, <2>4, <2>5 DEF FindHost
  <1>8. CASE ReadTargets(t)
    BY <1>1, <1>2, <1>8 DEF ReadTargets, LunErrors
  <1>9. CASE FindVolume(t)
    BY <1>1, <1>2, <1>9 DEF FindVolume, LunErrors
  <1>10. CASE ReadMappings(t)
    BY <1>1, <1>2, <1>10 DEF ReadMappings, LunErrors
  <1>11. CASE UnmapVolume(t)
    BY <1>1, <1>2, <1>11 DEF UnmapVolume, LunErrors
  <1>12. CASE FindLun(t)
    BY <1>1, <1>2, <1>12 DEF FindLun, LunErrors
  <1>13. CASE UnmapLun(t)
    BY <1>1, <1>2, <1>13 DEF UnmapLun, LunErrors
  <1> QED
    BY <1>3, <1>4, <1>5, <1>6, <1>7, <1>8, <1>9, <1>10, <1>11, <1>12, <1>13

\* Why a publish is answered that the LUNs have run out.
LEMMA ExhaustedWhy ==
  ASSUME IInv, Raced, NEW t \in Threads, PickLun(t) \/ MapVolume(t) \/ MapAnyLun(t),
         outcome'.status = "RESOURCE_EXHAUSTED"
  PROVE  Luns \ InUse(loc[t].host) = {} \/ lost[t] >= LunTries
  <1>1. PICK l \in LocRecs : l = loc[t] /\ l.pc \in {"lun", "map"}
    BY LocIs DEF PickLun, MapVolume, MapAnyLun
  <1>2. ASSUME NEW method, NEW ex, Raise(t, method, ex), ex # "none", ex \notin LunErrors PROVE FALSE
    BY <1>1, <1>2, ExhaustedIs
  <1>3. ASSUME \/ \E m : Go(t, m)
               \/ \E lun : Grant(t, lun)
        PROVE  FALSE
    <2>1. outcome' \in {Running, [status |-> "OK", method |-> "none", ex |-> "none"]}
      BY <1>3, Zenon DEF Go, Grant, Reply
    <2> QED
      BY <2>1 DEF Running
  <1>4. Refused(l) \notin LunErrors
    BY DEF Refused, LunErrors
  <1>5. CASE PickLun(t)
    <2>1. LunChoices(l.host) = {}
      BY <1>1, <1>2, <1>3, <1>5 DEF PickLun, LunErrors
    <2>2. PICK h : h = l.host
      OBVIOUS
    <2>3. Luns \ InUse(h) = {}
      BY <2>1, <2>2 DEF LunChoices
    <2> QED
      BY <1>1, <2>2, <2>3
  <1>6. CASE MapVolume(t)
    <2>1. l.lun \in InUse(l.host) /\ l.tries = 1 /\ l.pc = "map" /\ array # "ds8k"
      BY <1>1, <1>2, <1>3, <1>4, <1>6 DEF MapVolume, LunTaken
    <2>2. RacedAt(l, lost[t]) /\ lost[t] \in Nat
      BY <1>1, <2>1 DEF Raced
    <2>3. lost[t] >= LunTries - 1 + 1
      BY <2>1, <2>2 DEF RacedAt, Choosing, Beaten
    <2> QED
      BY <2>2, <2>3, MappingAssumption
  <1>7. CASE MapAnyLun(t)
    BY <1>1, <1>2, <1>3, <1>4, <1>7 DEF MapAnyLun
  <1> QED
    BY <1>5, <1>6, <1>7

\* A step of one call leaves the others where they are.
LEMMA OthersStay ==
  ASSUME IInv, NEW t \in Threads, PickLun(t) \/ MapVolume(t) \/ MapAnyLun(t), NEW o \in Threads, o # t
  PROVE  loc'[o] = loc[o]
  <1>1. \E m : loc' = [loc EXCEPT ![t] = m]
    BY DEF PickLun, MapVolume, MapAnyLun, LunTaken, Go, Raise, Grant, Reply
  <1> QED
    BY <1>1 DEF IInv, Typed

LEMMA ExhaustedStep ==
  ASSUME IInv, Raced, [Next]_vars, NEW t \in Threads,
         loc[t].pc # "idle", loc'[t].pc = "idle", outcome'.status = "RESOURCE_EXHAUSTED"
  PROVE  Luns \ InUse(loc[t].host) = {} \/ lost[t] >= LunTries
  <1>1. ~Crash /\ ~UNCHANGED vars
    BY DEF Crash, Running, vars
  <1>2. \A v : ~VolumeDeleted(v)
    BY DEF VolumeDeleted
  <1>3. \A h : ~EditHost(h)
    BY DEF EditHost
  <1>4. PICK u \in Threads : Start(u) \/ Command(u) \/ Fault(u) \/ NotFoundDropped(u)
    BY <1>1, <1>2, <1>3 DEF Next
  <1>5. PickLun(u) \/ MapVolume(u) \/ MapAnyLun(u)
    BY <1>4, OthersNotExhausted DEF Command
  <1>6. u = t
    BY <1>5, OthersStay
  <1> QED
    BY <1>5, <1>6, ExhaustedWhy

\* A publish is answered RESOURCE_EXHAUSTED only if its host has no LUN left, or if other
\* calls took the LUN it had chosen max_lun_retries times.
THEOREM TriesAreUsed == Spec => ExhaustedAfterRaces
  <1>1. Init => Raced
    <2>1. ~Choosing(Idle)
      BY DEF Choosing, Idle
    <2> QED
      BY <2>1 DEF Init, Raced, RacedAt
  <1>2. ASSUME IInv, Raced, [Next]_vars
        PROVE  [\A t \in Threads :
                  loc[t].pc # "idle" /\ loc'[t].pc = "idle" /\ outcome'.status = "RESOURCE_EXHAUSTED"
                      => Luns \ InUse(loc[t].host) = {} \/ lost[t] >= LunTries]_vars
    BY <1>2, ExhaustedStep
  <1> QED
    BY <1>1, <1>2, RacedNext, Invariance, PTL DEF Spec, ExhaustedAfterRaces
=============================================================================
