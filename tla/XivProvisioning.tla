--------------------------- MODULE XivProvisioning ---------------------------
(***************************************************************************)
(* The provisioning RPCs of the controller server against a XIV or A9000   *)
(* (array_mediator_xiv.py).  Sizes are asked for in bytes and kept in      *)
(* blocks, rounded down; ids are turned into names first, and the command  *)
(* that follows works on whatever has the name by then; a volume's         *)
(* snapshots are looked for before it is deleted.                          *)
(*                                                                         *)
(* Each RPC is a thread, each XCLI command a step (two lookups in a row    *)
(* are one).  gen3 is an array that does not report what a volume is a     *)
(* copy of.                                                                *)
(***************************************************************************)
EXTENDS XivArray, RpcStatus, ArrayMediator

CONSTANTS Threads,        \* handler threads
          Source,         \* the name of a volume that exists from the start
          SourceBlocks,   \* and its size
          Block,          \* BLOCK_SIZE_IN_BYTES
          Sizes,          \* the required_bytes the orchestrator asks for
          MinSize,        \* minimal_volume_size_in_bytes
          MaxSize,        \* maximal_volume_size_in_bytes
          Tries,          \* tries of the @retry of a rollback
          MaxCalls,       \* bound: calls
          MaxFaults,      \* bound: commands that are refused
          MaxCrashes      \* bound: restarts of the controller

ASSUME ProvisioningAssumption ==
    /\ Source \in Names /\ SourceBlocks \in Nat /\ Block \in Nat \ {0}
    /\ Sizes \subseteq Nat /\ MinSize \in Nat /\ MaxSize \in Nat /\ Tries \in Nat \ {0}
    /\ MaxCalls \in Nat /\ MaxFaults \in Nat /\ MaxCrashes \in Nat
    /\ MaxObjects > MaxCalls

VARIABLES gen3,
          loc,            \* each thread's call and local state
          answers,        \* the answers given
          asked,          \* the calls made
          overlap,        \* have two calls about one object been running at once?
          torn,           \* volumes of which a deletion and a snapshot have been under way at once
          calls, faults, crashes

bounds == <<gen3, asked, overlap, torn, calls, faults, crashes>>
vars   == <<arrayVars, loc, answers, bounds>>

-----------------------------------------------------------------------------
NoCall  == [op |-> "none", name |-> Source, size |-> 0, id |-> NoId, source |-> NoId, kind |-> "volume"]
NoError == [by |-> "none", ex |-> "none"]

\* A thread: its call, the wwn of its object, the name and size of the source,
\* and, in a rollback, the error to end with and the tries and rounds left.
Idle == [pc |-> "idle", call |-> NoCall, id |-> NoId, from |-> Source, blocks |-> 0,
         undo |-> NoError, tries |-> 0, rounds |-> 0]

Go(t, l)   == loc' = [loc EXCEPT ![t] = l]
Then(t, l) == Go(t, l) /\ UNCHANGED answers
To(t, pc)  == Then(t, [loc[t] EXCEPT !.pc = pc])
ReadOnly   == UNCHANGED <<arrayVars, bounds>>

Reply(t, status, id, err) ==
    /\ answers' = answers \cup {[call |-> loc[t].call, status |-> status, id |-> id, err |-> err]}
    /\ Go(t, Idle)

Ok(t)            == Reply(t, "OK", loc[t].id, NoError)
Refuse(t, status) == Reply(t, status, NoId, NoError)

\* _convert_size_bytes_to_blocks and its inverse; a size of 0 is the minimal one.
ToBlocks(bytes)  == bytes \div Block
ToBytes(blocks)  == blocks * Block
Required(call)   == IF call.size = 0 THEN MinSize ELSE call.size

\* _rollback_create_volume_from_source: delete_volume, tried again by @retry.
Undo(t, err, rounds) ==
    Then(t, [loc[t] EXCEPT !.pc = "find", !.undo = err, !.tries = Tries, !.rounds = rounds])

\* The delete_volume of a rollback has ended, with an error or not.
UndoNext(t, err) ==
    LET l == loc[t] end == IF err = NoError THEN l.undo ELSE err IN
    IF err # NoError /\ l.tries > 1 THEN Then(t, [l EXCEPT !.pc = "find", !.tries = @ - 1])
    ELSE IF l.rounds > 1 THEN Undo(t, end, l.rounds - 1)
    ELSE Reply(t, Status("CreateVolume", end.ex), NoId, end)

\* The steps of copying to a new volume: an exception there is rolled back, as in
\* _copy_to_existing_volume_from_source.
Copying == {"findSource", "fmaster", "names", "format", "copy", "resize"}

\* A method of the mediator raises an exception.
Raise(t, by, ex) ==
    LET l == loc[t] err == [by |-> by, ex |-> ex] status == Status(l.call.op, ex) IN
    IF l.undo # NoError THEN UndoNext(t, err)
    ELSE IF l.pc \in Copying THEN Undo(t, err, 1)
    ELSE Reply(t, status, IF status = "OK" THEN l.id ELSE NoId, err)

-----------------------------------------------------------------------------
(***************************************************************************)
(* CreateVolume                                                            *)
(***************************************************************************)

\* _generate_volume_response: the source, which gen3 does not report.
CopySource(i) == IF gen3 THEN NoId ELSE object[i].copied

\* Mutated form of Fits: the size is compared in blocks.
FitsBlocks(call, i) ==
    /\ call.source = NoId => object[i].blocks = call.size
    /\ CopySource(i) = call.source

\* Mutated form of Fits: the source is not compared.
FitsAnySource(call, i) == call.source = NoId => ToBytes(object[i].blocks) = call.size

\* The size check of CreateVolume and _handle_existing_volume_source.
Fits(call, i) ==
    /\ call.source = NoId => ToBytes(object[i].blocks) = call.size
    /\ CopySource(i) = call.source

\* The range check and get_volume.
Lookup(t) ==
    LET l == loc[t] IN
    /\ l.pc = "lookup"
    /\ IF l.call.size > MaxSize THEN Refuse(t, "OUT_OF_RANGE")
       ELSE IF Called(l.call.name) = {} THEN To(t, "create")
       ELSE \E i \in Called(l.call.name) :
              IF IsSnapshot(i) THEN Raise(t, "get_volume", "VolumeNameBelongsToSnapshotError")
              ELSE IF Fits(l.call, i) THEN Reply(t, "OK", i, NoError)
              ELSE Refuse(t, "ALREADY_EXISTS")
    /\ ReadOnly

\* create_volume: vol_create.
Create(t) ==
    LET l == loc[t] IN
    /\ l.pc = "create"
    /\ \/ /\ Called(l.call.name) # {} /\ UNCHANGED arrayVars
          /\ Raise(t, "create_volume", "VolumeAlreadyExists")
       \/ /\ Called(l.call.name) = {}
          /\ VolCreate(l.call.name, ToBlocks(Required(l.call)))
          /\ IF l.call.source = NoId THEN Reply(t, "OK", nextId, NoError)
             ELSE Then(t, [l EXCEPT !.pc = "findSource", !.id = nextId])
    /\ UNCHANGED bounds

\* master_name: that of the volume an object belongs to.
MasterName(i) == object[IF IsSnapshot(i) THEN object[i].master ELSE i].name

\* get_object_by_id of the source, which gives its size.
FindSource(t) ==
    LET l == loc[t] s == l.call.source IN
    /\ l.pc = "findSource"
    /\ IF ~Exists(s) THEN Undo(t, [by |-> "get_object_by_id", ex |-> "ObjectNotFoundError"], 2)
       ELSE IF l.call.kind = "snapshot" /\ ~IsSnapshot(s)
       THEN Raise(t, "get_object_by_id", "ExpectedSnapshotButFoundVolumeError")
       ELSE Then(t, [l EXCEPT !.pc = IF gen3 /\ l.call.kind = "snapshot" THEN "fmaster" ELSE "names",
                              !.from = MasterName(s), !.blocks = object[s].blocks])
    /\ ReadOnly

\* _get_source_object_wwn: gen3 reports the name of a snapshot's volume, from which its
\* wwn is looked up; if nothing has that name any more, None has no wwn.
FindMaster(t) ==
    LET l == loc[t] IN
    /\ l.pc \in {"fmaster", "smaster", "cmaster"}
    /\ IF Called(l.from) = {}
       THEN Raise(t, CASE l.pc = "fmaster" -> "get_object_by_id" [] l.pc = "smaster" -> "get_snapshot"
                       [] l.pc = "cmaster" -> "create_snapshot", "AttributeError")
       ELSE CASE l.pc = "fmaster" -> To(t, "names")
              [] l.pc = "smaster" ->
                    IF l.call.source \in Called(l.from) THEN Ok(t) ELSE Refuse(t, "ALREADY_EXISTS")
              [] l.pc = "cmaster" -> Ok(t)
    /\ ReadOnly

\* copy_to_existing_volume_from_source: the two names ...
FindNames(t) ==
    LET l == loc[t] s == l.call.source IN
    /\ l.pc = "names"
    /\ IF Exists(l.id) /\ Exists(s) THEN Then(t, [l EXCEPT !.pc = "format", !.from = object[s].name])
       ELSE Raise(t, "copy_to_existing_volume_from_source", "ObjectNotFoundError")
    /\ ReadOnly

\* ... vol_format ...
Format(t) ==
    LET l == loc[t] IN
    /\ l.pc = "format"
    /\ \/ /\ Called(l.call.name) = {} /\ UNCHANGED arrayVars
          /\ Raise(t, "copy_to_existing_volume_from_source", "ObjectNotFoundError")
       \/ \E i \in Called(l.call.name) : VolFormat(i) /\ To(t, "copy")
    /\ UNCHANGED bounds

\* Mutated form of Copy: the volume is not made bigger than its source.
CopyOnly(t) ==
    LET l == loc[t] IN
    /\ l.pc = "copy"
    /\ \E s \in Called(l.from), i \in Called(l.call.name) : VolCopy(s, i)
    /\ Ok(t)
    /\ UNCHANGED bounds

\* ... vol_copy ...
Copy(t) ==
    LET l == loc[t] IN
    /\ l.pc = "copy"
    /\ \/ /\ Called(l.from) = {} \/ Called(l.call.name) = {}
          /\ Raise(t, "copy_to_existing_volume_from_source", "ObjectNotFoundError") /\ UNCHANGED arrayVars
       \/ /\ \E s \in Called(l.from), i \in Called(l.call.name) : VolCopy(s, i)
          /\ IF Required(l.call) > ToBytes(l.blocks) THEN To(t, "resize") ELSE Ok(t)
    /\ UNCHANGED bounds

\* ... and vol_resize, which does not make a volume smaller.
Resize(t) ==
    LET l == loc[t] blocks == ToBlocks(Required(l.call)) IN
    /\ l.pc = "resize"
    /\ \/ /\ Called(l.call.name) = {} /\ UNCHANGED arrayVars
          /\ Raise(t, "copy_to_existing_volume_from_source", "ObjectNotFoundError")
       \/ \E i \in Called(l.call.name) :
            IF object[i].blocks <= blocks THEN VolResize(i, blocks) /\ Ok(t)
            ELSE Raise(t, "copy_to_existing_volume_from_source", "XCLIError") /\ UNCHANGED arrayVars
    /\ UNCHANGED bounds

-----------------------------------------------------------------------------
(***************************************************************************)
(* CreateSnapshot                                                          *)
(***************************************************************************)

\* get_snapshot, and the handler's check of what was found.
SnapshotLookup(t) ==
    LET l == loc[t] IN
    /\ l.pc = "slook"
    /\ IF Called(l.call.name) = {} THEN To(t, "ssource")
       ELSE \E i \in Called(l.call.name) :
              IF ~IsSnapshot(i) THEN Raise(t, "get_snapshot", "ExpectedSnapshotButFoundVolumeError")
              ELSE IF gen3 THEN Then(t, [l EXCEPT !.pc = "smaster", !.id = i, !.from = MasterName(i)])
              ELSE IF object[i].copied = l.call.source THEN Reply(t, "OK", i, NoError)
              ELSE Refuse(t, "ALREADY_EXISTS")
    /\ ReadOnly

\* create_snapshot: a source that is gone is None, which has no name ...
SnapshotSource(t) ==
    LET l == loc[t] s == l.call.source IN
    /\ l.pc = "ssource"
    /\ IF Exists(s) THEN Then(t, [l EXCEPT !.pc = "snap", !.from = object[s].name])
                    ELSE Raise(t, "create_snapshot", "AttributeError")
    /\ ReadOnly

\* Mutated form of Snap: the error is taken for that of a volume.
SnapAsVolume(t) ==
    LET l == loc[t] IN
    /\ l.pc = "snap" /\ Called(l.call.name) # {}
    /\ Raise(t, "create_snapshot", "VolumeAlreadyExists")
    /\ UNCHANGED <<arrayVars, bounds>>

\* ... and snapshot_create, which takes volumes only.
Snap(t) ==
    LET l == loc[t] IN
    /\ l.pc = "snap"
    /\ \/ /\ Called(l.call.name) # {} /\ UNCHANGED arrayVars
          /\ Raise(t, "create_snapshot", "SnapshotAlreadyExists")
       \/ /\ Called(l.call.name) = {} /\ Called(l.from) = {} /\ UNCHANGED arrayVars
          /\ Raise(t, "create_snapshot", "ObjectNotFoundError")
       \/ /\ Called(l.call.name) = {}
          /\ \E s \in Called(l.from) :
                IF IsSnapshot(s) THEN Raise(t, "create_snapshot", "XCLIError") /\ UNCHANGED arrayVars
                ELSE /\ SnapshotCreate(l.call.name, s)
                     /\ IF gen3 THEN Then(t, [l EXCEPT !.pc = "cmaster", !.id = nextId])
                                ELSE Reply(t, "OK", nextId, NoError)
    /\ UNCHANGED bounds

-----------------------------------------------------------------------------
(***************************************************************************)
(* delete_volume, which a rollback uses too, delete_snapshot               *)
(***************************************************************************)

Deleter(t) == IF loc[t].call.op = "DeleteSnapshot" THEN "delete_snapshot" ELSE "delete_volume"

\* _get_object_name_by_wwn.
FindObject(t) ==
    LET l == loc[t] IN
    /\ l.pc = "find"
    /\ IF Exists(l.id)
       THEN Then(t, [l EXCEPT !.from = object[l.id].name,
                              !.pc = IF l.call.op = "DeleteSnapshot" THEN "rmsnapshot" ELSE "snapshots"])
       ELSE Raise(t, Deleter(t), "ObjectNotFoundError")
    /\ ReadOnly

\* Mutated form of ListSnapshots: snapshots do not keep a volume.
ListSnapshotsBlind(t) == loc[t].pc = "snapshots" /\ To(t, "rmvolume") /\ ReadOnly

\* Mutated form of ListSnapshots: a volume in use counts as absent.
ListSnapshotsQuiet(t) ==
    /\ loc[t].pc = "snapshots"
    /\ IF \E i \in Called(loc[t].from) : Snapshots(i) # {}
       THEN Raise(t, "delete_volume", "ObjectNotFoundError") ELSE To(t, "rmvolume")
    /\ ReadOnly

\* snapshot_list; there is no case for a name that is gone.
ListSnapshots(t) ==
    LET l == loc[t] IN
    /\ l.pc = "snapshots"
    /\ IF Called(l.from) = {} THEN Raise(t, "delete_volume", "XCLIError")
       ELSE IF \E i \in Called(l.from) : Snapshots(i) # {}
       THEN Raise(t, "delete_volume", "ObjectIsStillInUseError")
       ELSE To(t, "rmvolume")
    /\ ReadOnly

\* vol_delete and snapshot_delete; each refuses what the other is for.
RemoveObject(t) ==
    LET l == loc[t] IN
    /\ l.pc \in {"rmvolume", "rmsnapshot"}
    /\ \/ Called(l.from) = {} /\ Raise(t, Deleter(t), "ObjectNotFoundError") /\ UNCHANGED arrayVars
       \/ \E i \in Called(l.from) :
            IF IsSnapshot(i) # (l.pc = "rmsnapshot")
            THEN Raise(t, Deleter(t), "XCLIError") /\ UNCHANGED arrayVars
            ELSE /\ IF l.pc = "rmvolume" THEN VolDelete(i) ELSE SnapshotDelete(i)
                 /\ IF l.undo = NoError THEN Ok(t) ELSE UndoNext(t, NoError)
    /\ UNCHANGED bounds

-----------------------------------------------------------------------------
(***************************************************************************)
(* ControllerExpandVolume                                                  *)
(***************************************************************************)

\* The volume before, and the two early returns.
ExpandLookup(t) ==
    LET l == loc[t] IN
    /\ l.pc = "xlook"
    /\ IF ~Exists(l.id) THEN Refuse(t, "NOT_FOUND")
       ELSE IF ToBytes(object[l.id].blocks) >= l.call.size THEN Ok(t)
       ELSE IF l.call.size > MaxSize THEN Refuse(t, "OUT_OF_RANGE")
       ELSE To(t, "xfind")
    /\ ReadOnly

\* expand_volume: the volume again, for its name ...
ExpandFind(t) ==
    LET l == loc[t] IN
    /\ l.pc = "xfind"
    /\ IF Exists(l.id) THEN Then(t, [l EXCEPT !.pc = "xresize", !.from = object[l.id].name])
                       ELSE Raise(t, "expand_volume", "ObjectNotFoundError")
    /\ ReadOnly

\* ... and vol_resize.
ExpandResize(t) ==
    LET l == loc[t] blocks == ToBlocks(l.call.size) IN
    /\ l.pc = "xresize"
    /\ \/ Called(l.from) = {} /\ Raise(t, "expand_volume", "ObjectNotFoundError") /\ UNCHANGED arrayVars
       \/ \E i \in Called(l.from) :
            IF object[i].blocks <= blocks THEN VolResize(i, blocks) /\ To(t, "xafter")
            ELSE Raise(t, "expand_volume", "XCLIError") /\ UNCHANGED arrayVars
    /\ UNCHANGED bounds

\* The volume after.
ExpandAfter(t) ==
    /\ loc[t].pc = "xafter"
    /\ IF Exists(loc[t].id) THEN Ok(t) ELSE Refuse(t, "NOT_FOUND")
    /\ ReadOnly

-----------------------------------------------------------------------------
(***************************************************************************)
(* Failures                                                                *)
(***************************************************************************)

\* The method of the mediator at a step, and what a command there may end in for
\* reasons that are not modelled: the cases the method has, any other error of
\* XCLI, and None from a create_volume that failed otherwise.
Refusals(t) ==
    LET pc == loc[t].pc By(m, exs) == [by : {m}, ex : exs \cup {"XCLIError"}] IN
    CASE pc = "lookup"    -> By("get_volume", {"IllegalObjectName"})
      [] pc = "create"    -> By("create_volume", {"IllegalObjectName", "PoolDoesNotExist",
                                 "PermissionDeniedError", "NotEnoughSpaceInPool", "AttributeError"})
      [] pc \in {"findSource", "fmaster", "xlook", "xafter"} -> By("get_object_by_id", {"IllegalObjectID"})
      [] pc = "names"     -> By("copy_to_existing_volume_from_source", {"IllegalObjectID"})
      [] pc \in {"format", "copy", "resize"} ->
            By("copy_to_existing_volume_from_source", {"IllegalObjectName", "PermissionDeniedError"})
      [] pc \in {"slook", "smaster"} -> By("get_snapshot", {"IllegalObjectName"})
      [] pc = "ssource"   -> By("create_snapshot", {"IllegalObjectID", "SnapshotSourcePoolMismatch"})
      [] pc \in {"snap", "cmaster"} -> By("create_snapshot", {"IllegalObjectName", "PermissionDeniedError"})
      [] pc = "find"      -> By(Deleter(t), {"IllegalObjectID"})
      [] pc = "snapshots" -> By(Deleter(t), {})
      [] pc \in {"rmvolume", "rmsnapshot"} -> By(Deleter(t), {"PermissionDeniedError"})
      [] pc = "xfind"     -> By("expand_volume", {"IllegalObjectID"})
      [] pc = "xresize"   -> By("expand_volume", {"NotEnoughSpaceInPool"})

Fault(t) ==
    /\ loc[t].pc # "idle" /\ faults < MaxFaults /\ faults' = faults + 1
    /\ \E err \in Refusals(t) : Raise(t, err.by, err.ex)
    /\ UNCHANGED <<arrayVars, gen3, asked, overlap, torn, calls, crashes>>

\* The controller is restarted: the running calls get no answer.
Crash ==
    /\ crashes < MaxCrashes /\ crashes' = crashes + 1
    /\ \E t \in Threads : loc[t] # Idle
    /\ loc' = [t \in Threads |-> Idle]
    /\ UNCHANGED <<arrayVars, answers, gen3, asked, overlap, torn, calls, faults>>

-----------------------------------------------------------------------------
(***************************************************************************)
(* The orchestrator                                                        *)
(***************************************************************************)

Creates == {"CreateVolume", "CreateSnapshot"}
Deletes == {"DeleteVolume", "DeleteSnapshot"}
OkTo(ops) == {a \in answers : a.call.op \in ops /\ a.status = "OK"}
Deleting  == {c.id : c \in {d \in asked : d.op \in Deletes}}

\* The objects it knows: the volume it started with and those it was told of.
Known == {[id |-> 1, name |-> Source, op |-> "CreateVolume"]} \cup
         {[id |-> a.id, name |-> a.call.name, op |-> a.call.op] : a \in OkTo(Creates)}
Volumes == {k \in Known : k.op = "CreateVolume"}

FirstStep == [CreateVolume |-> "lookup", CreateSnapshot |-> "slook",
              DeleteVolume |-> "find", DeleteSnapshot |-> "find", Expand |-> "xlook"]

\* The volume that one call deletes and the other makes a snapshot of.
Halves(c, d) ==
    IF {c.op, d.op} = {"DeleteVolume", "CreateSnapshot"}
    THEN ({c.id, c.source} \cap {d.id, d.source}) \ {NoId} ELSE {}

\* A new call, or an old one again.  The name of a new volume or snapshot always
\* comes with the same request, and not after its deletion.
Ask(t, c) ==
    /\ loc[t] = Idle
    /\ calls < MaxCalls /\ calls' = calls + 1
    /\ c.op \in Creates => /\ \A d \in asked : d.op = c.op /\ d.name = c.name => d = c
                           /\ \A k \in Known : k.name = c.name => k.id \notin Deleting
    /\ overlap' = (overlap \/ \E o \in Threads : loc[o] # Idle /\ loc[o].call.name = c.name)
    /\ torn' = torn \cup UNION {Halves(c, loc[o].call) : o \in Threads}
    /\ Then(t, [Idle EXCEPT !.call = c, !.id = c.id, !.pc = FirstStep[c.op]])
    /\ asked' = asked \cup {c}
    /\ UNCHANGED <<arrayVars, gen3, faults, crashes>>

Start(t) ==
    \/ \E n \in Names \ {Source}, z \in Sizes :
          Ask(t, [NoCall EXCEPT !.op = "CreateVolume", !.name = n, !.size = z])
    \/ \E n \in Names \ {Source}, z \in Sizes, k \in Known :
          Ask(t, [NoCall EXCEPT !.op = "CreateVolume", !.name = n, !.size = z, !.source = k.id,
                                !.kind = IF k \in Volumes THEN "volume" ELSE "snapshot"])
    \/ \E n \in Names \ {Source}, k \in Volumes :
          Ask(t, [NoCall EXCEPT !.op = "CreateSnapshot", !.name = n, !.source = k.id])
    \/ \E k \in Known :
          Ask(t, [NoCall EXCEPT !.op = IF k \in Volumes THEN "DeleteVolume" ELSE "DeleteSnapshot",
                                !.name = k.name, !.id = k.id])
    \/ \E k \in Volumes, z \in Sizes :
          Ask(t, [NoCall EXCEPT !.op = "Expand", !.name = k.name, !.id = k.id, !.size = z])

Init ==
    /\ object = [i \in Ids |-> IF i = 1 THEN [NoObject EXCEPT !.name = Source, !.blocks = SourceBlocks]
                                       ELSE NoObject]
    /\ nextId = 2
    /\ gen3 \in BOOLEAN
    /\ loc = [t \in Threads |-> Idle]
    /\ answers = {} /\ asked = {} /\ overlap = FALSE /\ torn = {}
    /\ calls = 0 /\ faults = 0 /\ crashes = 0

Command(t) ==
    \/ Lookup(t) \/ Create(t) \/ FindSource(t) \/ FindMaster(t) \/ FindNames(t)
    \/ Format(t) \/ Copy(t) \/ Resize(t)
    \/ SnapshotLookup(t) \/ SnapshotSource(t) \/ Snap(t)
    \/ FindObject(t) \/ ListSnapshots(t) \/ RemoveObject(t)
    \/ ExpandLookup(t) \/ ExpandFind(t) \/ ExpandResize(t) \/ ExpandAfter(t)

Next == (\E t \in Threads : Start(t) \/ Command(t) \/ Fault(t)) \/ Crash

Spec == Init /\ [][Next]_vars

-----------------------------------------------------------------------------
(***************************************************************************)
(* Properties                                                              *)
(***************************************************************************)

\* Names are unique, a snapshot has its volume, a rollback never has more tries
\* than @retry allows, and the handlers answer with the codes of their tables.
TypeOK ==
    /\ \A n \in Names : Cardinality(Called(n)) <= 1
    /\ \A i \in Ids : Exists(i) /\ IsSnapshot(i) => Exists(object[i].master)
    /\ \A t \in Threads : loc[t].tries \in 0..Tries /\ loc[t].rounds \in 0..2
    /\ \A a \in answers : a.status \in {"OK", "NOT_FOUND", "ALREADY_EXISTS", "INVALID_ARGUMENT",
                                 "OUT_OF_RANGE", "FAILED_PRECONDITION", "PERMISSION_DENIED",
                                 "RESOURCE_EXHAUSTED", "INTERNAL"}

\* What a mediator raises, and its interface does not say.
Undeclared == {[by |-> "get_volume", ex |-> "VolumeNameBelongsToSnapshotError"],
               [by |-> "create_volume", ex |-> "NotEnoughSpaceInPool"],
               [by |-> "get_object_by_id", ex |-> "ObjectNotFoundError"],
               [by |-> "get_object_by_id", ex |-> "IllegalObjectID"],
               [by |-> "copy_to_existing_volume_from_source", ex |-> "IllegalObjectName"]}

\* The handlers' except clauses are written for what array_mediator_interface.py
\* declares: apart from the errors named above, and from those of XCLI and Python,
\* which end as INTERNAL, no other error reaches them.
RaisesDeclared ==
    \A a \in answers : \/ a.err \in Undeclared \cup {NoError}
                       \/ a.err.ex \in Raises(a.err.by)
                       \/ a.err.ex \in ForeignErrors /\ a.status = "INTERNAL"

\* A source that is a snapshot may be gone with its volume, and its name be used
\* again, before it is copied by that name.
Misled(call) == call.kind = "snapshot" /\ torn # {}

\* A volume answered as created from a source holds the data of that source, even
\* if the source is deleted or expanded, commands fail, or the controller is
\* restarted in between, as long as calls about one name do not overlap.
CopiedWhenOk ==
    ~overlap => \A a \in OkTo(Creates) :
        a.call.source # NoId /\ Exists(a.id) => object[a.id].data = a.call.source \/ Misled(a.call)

\* A volume that was answered OK is as big as was asked for, to the block: of a
\* size that is no multiple of it, the rest is lost.  The exception is a copy that
\* was cut off before vol_resize, by a restart or by as many failures as a rollback
\* has tries: the repeated call finds a copy of the right source, and looks no further.
AsBigAsAsked ==
    ~overlap /\ crashes = 0 /\ faults < Tries => \A a \in OkTo({"CreateVolume", "Expand"}) :
        Exists(a.id) => object[a.id].blocks >= ToBlocks(a.call.size) \/ Misled(a.call)

\* A CreateVolume that is repeated finds the volume it has made.  It does not if
\* the size was 0 or no multiple of a block (the volume's size is compared with the
\* request's, not with what was asked of the array), if the volume was expanded,
\* if gen3 does not say what it is a copy of, or if the first call was cut off.
RepeatServed ==
    ~overlap /\ faults = 0 /\ crashes = 0 =>
        \A a \in OkTo({"CreateVolume"}), b \in answers :
            b.call = a.call /\ b.status = "ALREADY_EXISTS" =>
                \/ a.call.size = 0 \/ a.call.size % Block # 0
                \/ \E c \in asked : c.op = "Expand" /\ c.id = a.id
                \/ gen3 /\ a.call.source # NoId
                \/ Misled(a.call)

\* The names of an object and of the volume it is a snapshot of.
NamesWith(i) == {object[j].name : j \in {i, object[i].master} \ {NoId}}

\* The listing of snapshots before vol_delete, and the rollbacks: an object
\* disappears only if its own deletion was asked for, or by the rollback of the call
\* that has made it, which was never answered; a snapshot also if its
\* creation was under way when its volume was deleted.  If calls about one name have
\* overlapped, a command may take what has the name by then.
RemovedOnPurpose ==
    [][\A i \in Ids : Exists(i) /\ ~Exists(i)' =>
          \/ i \in Deleting
          \/ object[i].master \in torn
          \/ \E t \in Threads :
                loc[t].call.op = "CreateVolume" /\ loc[t].id = i /\ \A k \in Known : k.id # i
          \/ overlap /\ \E t \in Threads :
                loc[t].call.op \in Deletes \cup {"CreateVolume"} /\ loc[t].call.name \in NamesWith(i)]_vars

\* A deletion that was answered OK has removed the object.
GoneWhenOk == \A a \in OkTo(Deletes) : ~Exists(a.call.id)

\* The rollback: as long as no command fails unexpectedly, the controller is not
\* restarted and calls about one name do not overlap, every object is known to the
\* orchestrator or to the running call that makes it.
NoOrphans ==
    ~overlap /\ faults = 0 /\ crashes = 0 => \A i \in Ids : Exists(i) =>
        \/ i \in {k.id : k \in Known}
        \/ \E t \in Threads : loc[t].call.op \in Creates /\ loc[t].call.name = object[i].name

\* The array agrees with the answers: deleted objects are gone, and what is there
\* was answered or is being made.
ArrayAgrees == TypeOK /\ GoneWhenOk /\ NoOrphans
=============================================================================
