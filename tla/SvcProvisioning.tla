-------------------------- MODULE SvcProvisioning ---------------------------
(***************************************************************************)
(* CreateVolume (plain and from a source), DeleteVolume, CreateSnapshot,   *)
(* DeleteSnapshot and ControllerExpandVolume of the controller server      *)
(* (csi_controller_server.py) against a SAN Volume Controller              *)
(* (array_mediator_svc.py).                                                *)
(*                                                                         *)
(* Each RPC runs in a thread of its own and is a sequence of CLI commands, *)
(* one action each; nothing is locked between them, and the controller     *)
(* keeps no state of its own: what a call finds on the array is all it     *)
(* knows of the calls before it.  A command may fail (CliFault) and the    *)
(* controller may be restarted (Crash) between any two commands.           *)
(***************************************************************************)
EXTENDS SvcArray

CONSTANTS Threads,        \* the handler threads of the gRPC server
          Source,         \* the name of a volume that exists from the start
          Ops,            \* the RPCs the orchestrator makes
          Sizes,          \* the required_bytes it asks for
          MinSize,        \* minimal_volume_size_in_bytes
          MaxSize,        \* maximal_volume_size_in_bytes
          RollbackTries,  \* tries of the @retry decorators
          Overlap,        \* may two calls about one object run at once?
          ReuseNames,     \* may a name be used again once its object is deleted?
          MaxCalls,       \* bound: calls made by the orchestrator
          MaxFaults,      \* bound: CLI commands that fail
          MaxCrashes      \* bound: restarts of the controller

ASSUME ProvisioningAssumption ==
    /\ Source \in Names
    /\ Sizes \subseteq Nat /\ MinSize \in Nat /\ MaxSize \in Nat
    /\ RollbackTries \in Nat \ {0}
    /\ Overlap \in BOOLEAN /\ ReuseNames \in BOOLEAN
    /\ MaxCalls \in Nat /\ MaxFaults \in Nat /\ MaxCrashes \in Nat

VARIABLES loc,            \* each thread's call and local state
          answers,        \* the answers given: [call, status, uid]
          deleting,       \* the ids whose deletion has been asked for
          calls, faults, crashes    \* counters of the three bounds

vars == <<arrayVars, loc, answers, deleting, calls, faults, crashes>>

-----------------------------------------------------------------------------
Creates == {"CreateVolume", "CreateSnapshot"}
Deletes == {"DeleteVolume", "DeleteSnapshot"}

\* A call: its operation, the name and size it asks for, the id it is about,
\* and the id and kind of the source to copy from.
NoCall == [op |-> "none", name |-> Source, size |-> 0, uid |-> NoUid,
           source |-> NoUid, kind |-> "volume"]

\* A thread: pc, its call, the object's name, id and capacity as it last read
\* them, the name of the source to copy, the FC_id it read (a set of at most
\* one), its mapping as a target ("no", "done" or "busy"), the mappings it
\* still has to remove, and, in a rollback, the status it will end with and
\* the tries and rounds that are left.
Idle == [pc |-> "idle", call |-> NoCall, name |-> Source, uid |-> NoUid, cap |-> 0,
         src |-> Source, fc |-> {}, target |-> "no", maps |-> {},
         undo |-> "none", tries |-> 0, rounds |-> 0]

Go(t, l) == loc' = [loc EXCEPT ![t] = l]

\* The call goes on.
Then(t, l) == Go(t, l) /\ UNCHANGED answers

\* The RPC returns.
Reply(t, status, uid) ==
    /\ answers' = answers \cup {[call |-> loc[t].call, status |-> status, uid |-> uid]}
    /\ Go(t, Idle)

\* _convert_size_bytes: the next multiple of the block size.
Convert(size) == IF size % BlockSize > 0 THEN (size - (size % BlockSize)) + BlockSize
                 ELSE size

\* The start of _rollback_create_volume_from_source; the call will end with
\* the given status.
Undo(l, status, rounds) ==
    [l EXCEPT !.pc = "find", !.undo = status, !.tries = RollbackTries, !.rounds = rounds]

\* Mutated form of UndoNext: a failed rollback is tried again for ever.
UndoForever(t, ok, status) ==
    IF ~ok THEN Then(t, [loc[t] EXCEPT !.pc = "find"])
           ELSE Reply(t, loc[t].undo, NoUid)

\* The current delete_volume of a rollback has ended, well or not: the @retry
\* decorator, the second rollback of a source that is gone, the answer.
UndoNext(t, ok, status) ==
    LET l == loc[t] IN
    IF ~ok /\ l.tries > 1
      THEN Then(t, [l EXCEPT !.pc = "find", !.tries = @ - 1])
    ELSE IF l.rounds > 1
      THEN Then(t, Undo(l, IF ok THEN l.undo ELSE status, l.rounds - 1))
    ELSE Reply(t, IF ok THEN l.undo ELSE status, NoUid)

\* An exception leaves the mediator: of the RPC, or of a rollback.
Raise(t, status) ==
    IF loc[t].undo = "none" THEN Reply(t, status, NoUid) ELSE UndoNext(t, FALSE, status)

\* A step that only reads the array.
ReadOnly == UNCHANGED <<vdisk, fcmap, nextUid, deleting, calls, faults, crashes>>

\* A step that runs a command.
Bounds == UNCHANGED <<deleting, calls, faults, crashes>>

\* The source volume of a target's mapping (_get_source_volume_wwn_if_exists).
CopySource(n) == IF Mapped(n) THEN vdisk[fcmap[n].src].uid ELSE NoUid

-----------------------------------------------------------------------------
(***************************************************************************)
(* CreateVolume                                                            *)
(***************************************************************************)

\* The range check and get_volume's lsvdisk.
Lookup(t) ==
    LET l == loc[t] n == l.call.name IN
    /\ l.pc = "lookup"
    /\ IF l.call.size > MaxSize
         THEN Reply(t, "OUT_OF_RANGE", NoUid)
       ELSE IF Exists(n)
         THEN /\ Go(t, [l EXCEPT !.pc = "origin", !.uid = vdisk[n].uid, !.cap = vdisk[n].size])
              /\ UNCHANGED answers
       ELSE /\ Go(t, [l EXCEPT !.pc = "mkvolume",
                               !.cap = IF l.call.size = 0 THEN MinSize ELSE l.call.size])
            /\ UNCHANGED answers
    /\ ReadOnly

\* What becomes of a volume that exists and is taken for a copy of the given
\* source: the size check and _handle_existing_volume_source.
HandleExisting(t, from) ==
    LET l == loc[t] IN
    IF l.call.source = from /\ (l.call.source = NoUid => l.cap = l.call.size)
      THEN Reply(t, "OK", l.uid)
      ELSE Reply(t, "ALREADY_EXISTS", NoUid)

\* get_volume's lsfcmap and the lsvdisk of the mapping's source.
Origin(t) ==
    /\ loc[t].pc = "origin"
    /\ HandleExisting(t, CopySource(loc[t].call.name))
    /\ ReadOnly

\* mkvolume for CreateVolume and, through _create_similar_volume, for
\* CreateSnapshot (which has no handler for VolumeAlreadyExists).
MakeVolume(t) ==
    LET l == loc[t] n == l.call.name IN
    /\ l.pc = "mkvolume"
    /\ IF Exists(n)
         THEN /\ Reply(t, IF l.call.op = "CreateVolume" THEN "ALREADY_EXISTS" ELSE "INTERNAL", NoUid)
              /\ UNCHANGED arrayVars
         ELSE /\ MkVolume(n, Convert(l.cap))
              /\ Go(t, [l EXCEPT !.pc = "created"])
              /\ UNCHANGED answers
    /\ Bounds

\* _create_cli_volume reads the new volume back by its name.
Created(t) ==
    LET l == loc[t] n == l.call.name IN
    /\ l.pc = "created"
    /\ IF ~Exists(n)
         THEN Reply(t, "NOT_FOUND", NoUid)
       ELSE IF l.call.op = "CreateVolume" /\ l.call.source = NoUid
         THEN Reply(t, "OK", vdisk[n].uid)
       ELSE /\ Go(t, [l EXCEPT !.uid = vdisk[n].uid,
                               !.pc = IF l.call.op = "CreateVolume" THEN "findSource" ELSE "mkfcmap"])
            /\ UNCHANGED answers
    /\ ReadOnly

\* Mutated form of FindSource: the new volume is forgotten if the source is gone.
FindSourceForgets(t) ==
    /\ loc[t].pc = "findSource"
    /\ IF NamesOf(loc[t].call.source) = {}
         THEN Reply(t, "NOT_FOUND", NoUid)
         ELSE Then(t, [loc[t] EXCEPT !.pc = "names"])
    /\ ReadOnly

\* get_object_by_id of the source, with the check that a snapshot is one.
FindSource(t) ==
    LET l == loc[t] found == NamesOf(l.call.source)
        isSnapshot(n) == FcIds(n) # {} /\ Mapped(n) /\ fcmap[n].rate0 IN
    /\ l.pc = "findSource"
    /\ Go(t, IF found = {} THEN Undo(l, "NOT_FOUND", 2)
             ELSE IF l.call.kind = "snapshot" /\ \E n \in found : ~isSnapshot(n)
               THEN Undo(l, "INVALID_ARGUMENT", 1)
             ELSE [l EXCEPT !.pc = "names"])
    /\ UNCHANGED answers
    /\ ReadOnly

\* copy_to_existing_volume_from_source: both ids become names again.
ResolveNames(t) ==
    LET l == loc[t] IN
    /\ l.pc = "names"
    /\ IF NamesOf(l.call.source) = {} \/ NamesOf(l.uid) = {}
         THEN Go(t, Undo(l, "NOT_FOUND", 1))
         ELSE \E s \in NamesOf(l.call.source), n \in NamesOf(l.uid) :
                Go(t, [l EXCEPT !.pc = "mkfcmap", !.src = s, !.name = n])
    /\ UNCHANGED answers
    /\ ReadOnly

-----------------------------------------------------------------------------
(***************************************************************************)
(* _create_and_start_fcmap and its two rollbacks                           *)
(***************************************************************************)

\* mkfcmap; a mapping of the same pair that exists already is used.
CreateFcmap(t) ==
    LET l == loc[t] IN
    /\ l.pc = "mkfcmap"
    /\ IF Mappable(l.src, l.name)
         THEN /\ MkFcmap(l.src, l.name, l.call.op = "CreateSnapshot")
              /\ Go(t, [l EXCEPT !.pc = "fcid"])
         ELSE /\ UNCHANGED arrayVars
              /\ Go(t, [l EXCEPT !.pc = IF Mapped(l.name) /\ fcmap[l.name].src = l.src
                                          THEN "fcid" ELSE "unmap"])
    /\ UNCHANGED answers
    /\ Bounds

\* _get_cli_volume of the target, for its FC_id.
ReadFcId(t) ==
    LET l == loc[t] IN
    /\ l.pc = "fcid"
    /\ IF Exists(l.name)
         THEN /\ Go(t, [l EXCEPT !.pc = "startfcmap",
                                 !.fc = FcId(l.name)])
              /\ UNCHANGED answers
       ELSE IF l.call.op = "CreateVolume"
         THEN Then(t, Undo(l, "NOT_FOUND", 1))
       ELSE Reply(t, "NOT_FOUND", NoUid)
    /\ ReadOnly

\* startfcmap, the last command of a copy and of a snapshot.
StartCopy(t) ==
    LET l == loc[t] IN
    /\ l.pc = "startfcmap"
    /\ IF \E m \in l.fc : Mapped(m)
         THEN /\ \E m \in l.fc : Mapped(m) /\ StartFcmap(m)
              /\ Reply(t, "OK", l.uid)
         ELSE /\ Go(t, [l EXCEPT !.pc = "unmap"])
              /\ UNCHANGED <<arrayVars, answers>>
    /\ Bounds

\* After the unstarted mapping is gone, a clone's volume is deleted by the
\* controller's rollback, a snapshot's by the mediator's.
AfterUnmap(l) == IF l.call.op = "CreateVolume" THEN Undo(l, "INTERNAL", 1)
                 ELSE [l EXCEPT !.pc = "rmtarget",
                                !.tries = IF @ = 0 THEN RollbackTries ELSE @]

\* _delete_unstarted_fcmap_if_exists reads the target ...
Unmap(t) ==
    LET l == loc[t] IN
    /\ l.pc = "unmap"
    /\ IF Exists(l.name) /\ FcIds(l.name) # {}
         THEN /\ Go(t, [l EXCEPT !.pc = "rmfcmap",
                                 !.fc = FcId(l.name)])
              /\ UNCHANGED answers
       ELSE IF l.call.op = "CreateSnapshot" /\ ~Exists(l.name)
         THEN Reply(t, "INTERNAL", NoUid)
       ELSE Then(t, AfterUnmap(l))
    /\ ReadOnly

\* ... and removes its mapping without force; a refusal is only logged.
RemoveUnstarted(t) ==
    LET l == loc[t] IN
    /\ l.pc = "rmfcmap"
    /\ IF \E m \in l.fc : Mapped(m)
         THEN \E m \in l.fc : Mapped(m) /\ RmFcmap(m, FALSE)
         ELSE UNCHANGED arrayVars
    /\ Go(t, AfterUnmap(l))
    /\ UNCHANGED answers
    /\ Bounds

\* _rollback_create_snapshot is tried again when its rmvolume fails.
RetryRemoveTarget(t) ==
    LET l == loc[t] IN
    IF l.tries > 1
      THEN Then(t, [l EXCEPT !.pc = "unmap", !.tries = @ - 1])
      ELSE Reply(t, "INTERNAL", NoUid)

\* _delete_target_volume_if_exists.
RemoveTarget(t) ==
    LET l == loc[t] IN
    /\ l.pc = "rmtarget"
    /\ IF Removable(l.name)
         THEN RmVolume(l.name) /\ Reply(t, "INTERNAL", NoUid)
         ELSE UNCHANGED arrayVars /\ RetryRemoveTarget(t)
    /\ Bounds

-----------------------------------------------------------------------------
(***************************************************************************)
(* CreateSnapshot                                                          *)
(***************************************************************************)

\* get_snapshot's lsvdisk.
SnapshotLookup(t) ==
    LET l == loc[t] n == l.call.name IN
    /\ l.pc = "slook"
    /\ Go(t, IF Exists(n) THEN [l EXCEPT !.pc = "sverify", !.uid = vdisk[n].uid,
                                         !.fc = FcIds(n)]
             ELSE [l EXCEPT !.pc = "ssource"])
    /\ UNCHANGED answers
    /\ ReadOnly

\* Is the object that was read a snapshot, by its FC_id and its mapping?
Verified(l) == l.fc # {} /\ Mapped(l.call.name) /\ fcmap[l.call.name].rate0

\* _generate_snapshot_response_with_verification, and the handler's check of
\* the source.
VerifySnapshot(t) ==
    LET l == loc[t] n == l.call.name IN
    /\ l.pc = "sverify"
    /\ IF ~Verified(l)
         THEN Reply(t, "INTERNAL", NoUid)
       ELSE IF CopySource(n) # l.call.source
         THEN Reply(t, "ALREADY_EXISTS", NoUid)
       ELSE Reply(t, "OK", l.uid)
    /\ ReadOnly

\* create_snapshot looks its source up by id, then by name.
SnapshotSource(t) ==
    LET l == loc[t] found == NamesOf(l.call.source) IN
    /\ l.pc = "ssource"
    /\ IF found = {}
         THEN Reply(t, "NOT_FOUND", NoUid)
         ELSE /\ \E s \in found : Go(t, [l EXCEPT !.pc = "mkvolume", !.src = s,
                                                  !.cap = vdisk[s].size])
              /\ UNCHANGED answers
    /\ ReadOnly

-----------------------------------------------------------------------------
(***************************************************************************)
(* delete_volume, delete_snapshot, and the mappings expand_volume removes. *)
(* A rollback runs the same steps on the volume it created.                *)
(***************************************************************************)

\* The object is not there: a deletion is done, anything else fails.
Absent(t) == IF loc[t].call.op \in Deletes
               THEN Reply(t, "OK", loc[t].uid)
               ELSE Raise(t, "NOT_FOUND")

\* _get_cli_volume_by_wwn: from here on the object is known by its name.
FindObject(t) ==
    LET l == loc[t] found == NamesOf(l.uid) IN
    /\ l.pc = "find"
    /\ IF found = {} \/ (l.call.op = "DeleteSnapshot" /\ \A n \in found : FcIds(n) = {})
         THEN Absent(t)
         ELSE /\ \E n \in found : Go(t, [l EXCEPT !.pc = "target", !.name = n,
                                                  !.cap = vdisk[n].size])
              /\ UNCHANGED answers
    /\ ReadOnly

\* _get_fcmap_as_target_if_exists.
ReadTargetMap(t) ==
    LET l == loc[t] IN
    /\ l.pc = "target"
    /\ IF l.call.op = "DeleteSnapshot" /\ ~Mapped(l.name)
         THEN Absent(t)
         ELSE /\ Go(t, [l EXCEPT !.pc = "sources",
                                 !.target = IF ~Mapped(l.name) THEN "no"
                                            ELSE IF Finished(l.name) THEN "done" ELSE "busy"])
              /\ UNCHANGED answers
    /\ ReadOnly

\* What follows when the mappings it has to remove are gone.
AfterMaps(l) ==
    [l EXCEPT !.pc = IF l.maps # {} THEN "rmmaps"
                     ELSE IF l.call.op = "Expand" THEN "expand"
                     ELSE IF l.target # "no" THEN "stop"
                     ELSE "rmvolume"]

\* _get_fcmaps_as_source_if_exist, and the check of _safe_delete_fcmaps, which
\* an expansion also applies to the mapping the volume is the target of.
ReadSourceMaps(t) ==
    LET l == loc[t]
        maps == MapsFrom(l.name)
        expanding == l.call.op = "Expand" IN
    /\ l.pc = "sources"
    /\ IF (\E m \in maps : ~Finished(m)) \/ (expanding /\ l.target = "busy")
         THEN Raise(t, "FAILED_PRECONDITION")
         ELSE /\ Go(t, AfterMaps([l EXCEPT !.maps =
                         maps \cup IF expanding /\ l.target = "done" THEN {l.name} ELSE {}]))
              /\ UNCHANGED answers
    /\ ReadOnly

\* Mutated form of RemoveMap: the mapping is removed by force.
RemoveMapByForce(t) ==
    LET l == loc[t] IN
    /\ l.pc = "rmmaps"
    /\ \E m \in l.maps :
         /\ IF Mapped(m) THEN RmFcmap(m, TRUE) ELSE UNCHANGED arrayVars
         /\ Go(t, AfterMaps([l EXCEPT !.maps = @ \ {m}]))
    /\ UNCHANGED answers
    /\ Bounds

\* _safe_delete_fcmaps: rmfcmap without force; a refusal is only logged.
RemoveMap(t) ==
    LET l == loc[t] IN
    /\ l.pc = "rmmaps"
    /\ \E m \in l.maps :
         /\ IF Mapped(m) THEN RmFcmap(m, FALSE) ELSE UNCHANGED arrayVars
         /\ Go(t, AfterMaps([l EXCEPT !.maps = @ \ {m}]))
    /\ UNCHANGED answers
    /\ Bounds

\* _stop_and_delete_fcmap: stopfcmap ...
StopTargetMap(t) ==
    LET l == loc[t] IN
    /\ l.pc = "stop"
    /\ IF Mapped(l.name) THEN StopFcmap(l.name) ELSE UNCHANGED arrayVars
    /\ Go(t, [l EXCEPT !.pc = "rmtargetmap"])
    /\ UNCHANGED answers
    /\ Bounds

\* ... and rmfcmap -force; the failure of either is only logged.
RemoveTargetMap(t) ==
    LET l == loc[t] IN
    /\ l.pc = "rmtargetmap"
    /\ IF Mapped(l.name) THEN RmFcmap(l.name, TRUE) ELSE UNCHANGED arrayVars
    /\ Go(t, [l EXCEPT !.pc = "rmvolume"])
    /\ UNCHANGED answers
    /\ Bounds

\* Mutated form of RemoveVolume: every error counts as "already deleted".
RemoveVolumeRefused(t) ==
    LET l == loc[t] IN
    /\ l.pc = "rmvolume"
    /\ IF Removable(l.name) THEN RmVolume(l.name) ELSE UNCHANGED arrayVars
    /\ IF l.undo = "none" THEN Reply(t, "OK", l.uid) ELSE UndoNext(t, TRUE, "OK")
    /\ Bounds

\* _delete_volume_by_name: rmvolume, by the name that was read before.
RemoveVolume(t) ==
    LET l == loc[t] IN
    /\ l.pc = "rmvolume"
    /\ IF Removable(l.name)
         THEN /\ RmVolume(l.name)
              /\ IF l.undo = "none" THEN Reply(t, "OK", l.uid) ELSE UndoNext(t, TRUE, "OK")
         ELSE /\ UNCHANGED arrayVars
              /\ IF Exists(l.name) THEN Raise(t, "INTERNAL") ELSE Absent(t)
    /\ Bounds

-----------------------------------------------------------------------------
(***************************************************************************)
(* ControllerExpandVolume                                                  *)
(***************************************************************************)

\* get_object_by_id before the expansion, and the two early returns.
ExpandLookup(t) ==
    LET l == loc[t] found == NamesOf(l.uid) IN
    /\ l.pc = "xlook"
    /\ IF found = {}
         THEN Reply(t, "NOT_FOUND", NoUid)
       ELSE IF \E n \in found : vdisk[n].size >= l.call.size
         THEN Reply(t, "OK", l.uid)
       ELSE IF l.call.size > MaxSize
         THEN Reply(t, "OUT_OF_RANGE", NoUid)
       ELSE Then(t, [l EXCEPT !.pc = "find"])
    /\ ReadOnly

\* expandvdisksize by the difference to the capacity that was read before; the
\* array refuses it for a volume with mappings, and refuses to shrink.
ExpandVolume(t) ==
    LET l == loc[t] final == Convert(l.call.size) IN
    /\ l.pc = "expand"
    /\ IF Removable(l.name) /\ final > l.cap
         THEN /\ ExpandVdisk(l.name, final - l.cap)
              /\ Go(t, [l EXCEPT !.pc = "xafter"])
              /\ UNCHANGED answers
         ELSE /\ UNCHANGED arrayVars
              /\ Reply(t, IF Exists(l.name) THEN "INTERNAL" ELSE "NOT_FOUND", NoUid)
    /\ Bounds

\* get_object_by_id after it.
ExpandAfter(t) ==
    /\ loc[t].pc = "xafter"
    /\ IF NamesOf(loc[t].uid) = {} THEN Reply(t, "NOT_FOUND", NoUid) ELSE Reply(t, "OK", loc[t].uid)
    /\ ReadOnly

-----------------------------------------------------------------------------
(***************************************************************************)
(* Failures                                                                *)
(***************************************************************************)

\* The next command of t, which is at one of the pcs, fails with an error that
\* the mediator has no case for.
FaultAt(t, pcs) ==
    /\ loc[t].pc \in pcs
    /\ faults < MaxFaults
    /\ faults' = faults + 1
    /\ UNCHANGED <<arrayVars, deleting, calls, crashes>>

\* Most errors end the RPC, or the current try of a rollback.
FaultRaised(t) ==
    /\ FaultAt(t, {"lookup", "origin", "created", "sverify", "ssource", "find", "target",
                   "sources", "rmvolume", "xlook", "expand", "xafter"})
    /\ Raise(t, "INTERNAL")

\* Errors of a copy that the controller rolls back; those of mkfcmap and
\* startfcmap (and, for a snapshot, of mkvolume) the mediator rolls back first.
FaultUndone(t) ==
    LET l == loc[t] clone == l.call.op = "CreateVolume" IN
    /\ FaultAt(t, {"findSource", "names", "fcid", "mkvolume", "mkfcmap", "startfcmap"})
    /\ IF l.pc \in {"mkfcmap", "startfcmap"} \/ (l.pc = "mkvolume" /\ ~clone)
         THEN Then(t, [l EXCEPT !.pc = "unmap"])
       ELSE IF l.pc = "mkvolume" \/ ~clone
         THEN Reply(t, "INTERNAL", NoUid)
       ELSE Then(t, Undo(l, "INTERNAL", 1))

\* _get_cli_volume_if_exists takes any error for "it does not exist": of the
\* object itself, or of the source that its mapping names.
FaultAsAbsent(t) ==
    LET l == loc[t] IN
    /\ FaultAt(t, {"slook", "unmap", "origin", "sverify"})
    /\ \/ l.pc = "slook" /\ Then(t, [l EXCEPT !.pc = "ssource"])
       \/ l.pc = "unmap" /\ l.call.op = "CreateSnapshot" /\ Reply(t, "INTERNAL", NoUid)
       \/ l.pc = "unmap" /\ l.call.op = "CreateVolume" /\ Then(t, AfterUnmap(l))
       \/ l.pc = "origin" /\ Mapped(l.call.name) /\ HandleExisting(t, NoUid)
       \/ l.pc = "sverify" /\ Verified(l) /\ Reply(t, "ALREADY_EXISTS", NoUid)

\* Failures to stop or to remove a mapping are only logged, and the snapshot's
\* rollback is tried again.
FaultIgnored(t) ==
    LET l == loc[t] IN
    /\ FaultAt(t, {"rmfcmap", "rmmaps", "stop", "rmtargetmap", "rmtarget"})
    /\ \/ l.pc = "rmfcmap" /\ Then(t, AfterUnmap(l))
       \/ l.pc = "rmmaps" /\ \E m \in l.maps : Then(t, AfterMaps([l EXCEPT !.maps = @ \ {m}]))
       \/ l.pc = "stop" /\ Then(t, [l EXCEPT !.pc = "rmtargetmap"])
       \/ l.pc = "rmtargetmap" /\ Then(t, [l EXCEPT !.pc = "rmvolume"])
       \/ l.pc = "rmtarget" /\ RetryRemoveTarget(t)

\* The controller is restarted: every running call is lost without an answer.
Crash ==
    /\ crashes < MaxCrashes
    /\ \E t \in Threads : loc[t] # Idle
    /\ loc' = [t \in Threads |-> Idle]
    /\ crashes' = crashes + 1
    /\ UNCHANGED <<arrayVars, answers, deleting, calls, faults>>

-----------------------------------------------------------------------------
(***************************************************************************)
(* The orchestrator                                                        *)
(***************************************************************************)

\* The objects it knows: the volume it started with and those it was told of.
Known == {[uid |-> 1, name |-> Source, op |-> "CreateVolume"]} \cup
         {[uid |-> a.uid, name |-> a.call.name, op |-> a.call.op] :
             a \in {b \in answers : b.call.op \in Creates /\ b.status = "OK"}}

Volumes == {k \in Known : k.op = "CreateVolume"}

FirstStep == [CreateVolume |-> "lookup", CreateSnapshot |-> "slook",
              DeleteVolume |-> "find", DeleteSnapshot |-> "find", Expand |-> "xlook"]

\* A new call, or an old one again.
Ask(t, c) ==
    /\ loc[t] = Idle
    /\ c.op \in Ops
    /\ calls < MaxCalls /\ calls' = calls + 1
    /\ Overlap \/ \A o \in Threads : loc[o] # Idle => loc[o].call.name # c.name
    /\ ReuseNames \/ c.op \notin Creates
         \/ \A k \in Known : k.name = c.name => k.uid \notin deleting
    /\ Then(t, [Idle EXCEPT !.call = c, !.name = c.name, !.uid = c.uid, !.pc = FirstStep[c.op]])
    /\ deleting' = IF c.op \in Deletes THEN deleting \cup {c.uid} ELSE deleting
    /\ UNCHANGED <<arrayVars, faults, crashes>>

\* A volume, plain or from a source; a snapshot of a volume; a deletion of
\* either; an expansion.
Start(t) ==
    \/ \E n \in Names \ {Source}, z \in Sizes :
          Ask(t, [NoCall EXCEPT !.op = "CreateVolume", !.name = n, !.size = z])
    \/ \E n \in Names \ {Source}, z \in Sizes, k \in Known :
          Ask(t, [NoCall EXCEPT !.op = "CreateVolume", !.name = n, !.size = z, !.source = k.uid,
                                !.kind = IF k \in Volumes THEN "volume" ELSE "snapshot"])
    \/ \E n \in Names \ {Source}, k \in Volumes :
          Ask(t, [NoCall EXCEPT !.op = "CreateSnapshot", !.name = n, !.source = k.uid])
    \/ \E k \in Known :
          Ask(t, [NoCall EXCEPT !.op = IF k \in Volumes THEN "DeleteVolume" ELSE "DeleteSnapshot",
                                !.name = k.name, !.uid = k.uid])
    \/ \E k \in Volumes, z \in Sizes :
          Ask(t, [NoCall EXCEPT !.op = "Expand", !.name = k.name, !.uid = k.uid, !.size = z])

\* The array finishes a background copy.
BackgroundCopy ==
    /\ \E m \in Names : CopyDone(m)
    /\ UNCHANGED <<loc, answers>> /\ Bounds

-----------------------------------------------------------------------------
Init ==
    /\ vdisk = [n \in Names |-> IF n = Source
                                  THEN [uid |-> 1, size |-> BlockSize, copyOf |-> NoUid]
                                  ELSE NoDisk]
    /\ fcmap = [n \in Names |-> NoMap]
    /\ nextUid = 2
    /\ loc = [t \in Threads |-> Idle]
    /\ answers = {} /\ deleting = {}
    /\ calls = 0 /\ faults = 0 /\ crashes = 0

\* The next command of a thread that runs a call.
Command(t) ==
    \/ Lookup(t) \/ Origin(t) \/ MakeVolume(t) \/ Created(t) \/ FindSource(t) \/ ResolveNames(t)
    \/ CreateFcmap(t) \/ ReadFcId(t) \/ StartCopy(t)
    \/ Unmap(t) \/ RemoveUnstarted(t) \/ RemoveTarget(t)
    \/ SnapshotLookup(t) \/ VerifySnapshot(t) \/ SnapshotSource(t)
    \/ FindObject(t) \/ ReadTargetMap(t) \/ ReadSourceMaps(t) \/ RemoveMap(t)
    \/ StopTargetMap(t) \/ RemoveTargetMap(t) \/ RemoveVolume(t)
    \/ ExpandLookup(t) \/ ExpandVolume(t) \/ ExpandAfter(t)

CliFault(t) == FaultRaised(t) \/ FaultUndone(t) \/ FaultAsAbsent(t) \/ FaultIgnored(t)

Next == \/ \E t \in Threads : Start(t) \/ Command(t) \/ CliFault(t)
        \/ Crash
        \/ BackgroundCopy

Spec == Init /\ [][Next]_vars

\* A thread that runs a call is scheduled, and its commands return.
FairSpec == Spec /\ \A t \in Threads : WF_vars(Command(t))

-----------------------------------------------------------------------------
(***************************************************************************)
(* Properties                                                              *)
(***************************************************************************)

Steps == {"idle", "lookup", "origin", "mkvolume", "created", "findSource", "names", "mkfcmap",
          "fcid", "startfcmap", "unmap", "rmfcmap", "rmtarget", "slook", "sverify", "ssource",
          "find", "target", "sources", "rmmaps", "stop", "rmtargetmap", "rmvolume",
          "xlook", "expand", "xafter"}

Statuses == {"OK", "NOT_FOUND", "ALREADY_EXISTS", "INVALID_ARGUMENT", "OUT_OF_RANGE",
             "FAILED_PRECONDITION", "INTERNAL"}

\* The array is consistent (no mapping without its two volumes), a thread has
\* never more tries left than the retry decorators allow, and every answer is
\* one of the status codes the handlers set.
TypeOK ==
    /\ ArrayTypeOK
    /\ \A t \in Threads : /\ loc[t].pc \in Steps
                          /\ loc[t].tries \in 0..RollbackTries
                          /\ loc[t].maps \subseteq Names
    /\ \A a \in answers : a.status \in Statuses
    /\ deleting \subseteq 1..nextUid

OkTo(ops) == {a \in answers : a.call.op \in ops /\ a.status = "OK"}

\* The object of an OK answer holds the data of the source it was to be created
\* from, until its own deletion is asked for.
HoldsSource(a) ==
    \A n \in Names : vdisk[n].uid = a.uid /\ a.uid \notin deleting => vdisk[n].copyOf = a.call.source

\* CreateSnapshot: a snapshot that was answered OK has been taken.
SnapshotTaken == \A a \in OkTo({"CreateSnapshot"}) : HoldsSource(a)

\* CreateVolume with a source: a volume that was answered OK has been filled.
CloneFilled == \A a \in OkTo({"CreateVolume"}) : a.call.source # NoUid => HoldsSource(a)

\* What was answered as created from a source holds that source's data from then
\* on, whatever is done to the source and to its other copies.
CopiedWhenOk == SnapshotTaken /\ CloneFilled

\* An object that was answered as created stays until its deletion is asked
\* for: no rollback, and no deletion of another object, takes it away.
AnsweredStays ==
    \A a \in OkTo(Creates) : a.uid \in deleting \/ NamesOf(a.uid) # {}

\* Every object on the array is known to the orchestrator or is being made or
\* rolled back by a running call: a failed creation leaves nothing behind.
NoOrphans ==
    \A n \in Names : Exists(n) =>
        \/ vdisk[n].uid \in {k.uid : k \in Known}
        \/ \E t \in Threads : loc[t].call.op \in Creates /\ loc[t].call.name = n

\* A call that takes back what it has made: delete_volume of the controller's
\* rollback, or the last step of the mediator's for a snapshot.
Undoing(t) == loc[t].undo # "none" \/ loc[t].pc = "rmtarget"

\* ... and which read the object of name n back after its mkvolume as its own.
RollsBack(t, n) == Undoing(t) /\ loc[t].uid = vdisk[n].uid

\* A CreateSnapshot whose mkvolume failed: its rollback removes what has the name.
Unmade(t, n) == /\ loc[t].pc = "rmtarget" /\ loc[t].call.name = n
                /\ loc[t].uid = NoUid /\ faults > 0

\* A deletion or a rollback, by the name n, whose own object another call has
\* removed since.
Overtaken(t, n) == /\ loc[t].call.op \in Deletes \/ Undoing(t)
                   /\ loc[t].call.name = n
                   /\ loc[t].uid # NoUid /\ NamesOf(loc[t].uid) = {}

\* No step removes a volume, or the data it was a copy of, but
\*  - one of a deletion of the volume's own id that was asked for;
\*  - one of the rollback of the call that read the volume back as its own;
\*  - one by the volume's name, of a deletion or a rollback whose own object another
\*    call has removed since;
\*  - one of the rollback of a CreateSnapshot whose mkvolume failed, and which made
\*    nothing: it takes away whatever has the name, an answered volume too.
\* The first two are on purpose; the others need overlapping calls or a failed
\* command.
RemovedOnPurpose ==
    [][\A n \in Names :
          Exists(n) /\ (\/ vdisk'[n].uid # vdisk[n].uid
                        \/ vdisk[n].copyOf # NoUid /\ vdisk'[n].copyOf = NoUid)
              => \/ vdisk[n].uid \in deleting
                 \/ \E t \in Threads : RollsBack(t, n) \/ Overtaken(t, n) \/ Unmade(t, n)]_vars

\* A deletion of a volume that was answered OK has removed it.
VolumeGone == \A a \in OkTo({"DeleteVolume"}) : NamesOf(a.call.uid) = {}

\* A deletion of a snapshot that was answered OK has removed it, unless another
\* one failed or was cut short between rmfcmap and rmvolume: without its FC_id
\* the volume is no snapshot any more to the repeated call.
SnapshotGone ==
    crashes = 0 => \A a \in OkTo({"DeleteSnapshot"}) :
        \/ NamesOf(a.call.uid) = {}
        \/ \E b \in answers : b.call.op \in Deletes /\ b.call.uid = a.call.uid /\ b.status # "OK"

\* A volume is never larger than the largest size that was asked for, rounded
\* up to blocks: an expansion does not overshoot.
NeverOversized ==
    \A n \in Names : Exists(n) =>
        \E z \in Sizes \cup {MinSize, BlockSize} : vdisk[n].size <= Convert(z)

\* Every call comes to its end, the ones that roll back and retry included.
CallsEnd == \A t \in Threads : loc[t].pc # "idle" ~> loc[t].pc = "idle"

\* The array agrees with the answers when calls about an object do not overlap:
\* what was answered as created is there, what is there was answered or is being
\* made, a snapshot answered as deleted is gone, and no volume is oversized.
ArrayAgrees == TypeOK /\ AnsweredStays /\ NoOrphans /\ SnapshotGone /\ NeverOversized
=============================================================================
