-------------------------- MODULE Ds8kProvisioning --------------------------
(***************************************************************************)
(* CreateVolume (plain and from a source), DeleteVolume, CreateSnapshot,   *)
(* DeleteSnapshot and ControllerExpandVolume of the controller server      *)
(* against a DS8K (array_mediator_ds8k.py).  The handlers are those of     *)
(* SvcProvisioning; the mediator differs: objects are found by id, names   *)
(* are not unique, a FlashCopy is created and started by one request, and  *)
(* several errors are turned into None or dropped.                         *)
(*                                                                         *)
(* Each RPC is a thread, each REST request that matters to the outcome a   *)
(* step (a read by id and the list of the volume's relationships are one). *)
(* A snapshot comes without a pool, so its source's pool is used.          *)
(***************************************************************************)
EXTENDS Ds8kArray

CONSTANTS Threads,        \* handler threads
          Source,         \* the name of a volume that exists from the start
          SourceSize,     \* and its size
          Ops,            \* the RPCs the orchestrator makes
          Sizes,          \* the required_bytes it asks for
          MinSize,        \* minimal_volume_size_in_bytes
          MaxSize,        \* maximal_volume_size_in_bytes
          Tries,          \* tries of the @retry decorators
          MaxCalls,       \* bound: calls
          MaxFaults,      \* bound: requests that fail
          MaxCrashes      \* bound: restarts of the controller

ASSUME ProvisioningAssumption ==
    /\ Source \in Names /\ SourceSize \in Nat
    /\ Sizes \subseteq Nat /\ MinSize \in Nat /\ MaxSize \in Nat
    /\ Tries \in Nat \ {0}
    /\ MaxCalls \in Nat /\ MaxFaults \in Nat /\ MaxCrashes \in Nat
    /\ MaxVolumes > MaxCalls

VARIABLES loc,            \* each thread's call and local state
          answers,        \* the answers given: [call, status, id]
          deleting,       \* the ids whose deletion has been asked for
          overlap,        \* have two calls about one object been running at once?
          refused,        \* the ids of which the array refused an extension
          calls, faults, crashes

bounds == <<deleting, overlap, refused, calls, faults, crashes>>
vars   == <<arrayVars, loc, answers, bounds>>

-----------------------------------------------------------------------------
NoCall == [op |-> "none", name |-> Source, size |-> 0, id |-> NoId,
           source |-> NoId, kind |-> "volume"]

\* A thread: its call, the object's id, the size of the volume to make or of the
\* source, the relationships to check and to remove, is the object a target, and,
\* in a rollback, the status to end with and the tries and rounds that are left.
Idle == [pc |-> "idle", call |-> NoCall, id |-> NoId, size |-> 0, checks |-> {}, rels |-> {},
         target |-> FALSE, undo |-> "none", tries |-> 0, rounds |-> 0]

Go(t, l)   == loc' = [loc EXCEPT ![t] = l]
Then(t, l) == Go(t, l) /\ UNCHANGED answers
To(t, pc)  == Then(t, [loc[t] EXCEPT !.pc = pc])

Reply(t, status, id) ==
    /\ answers' = answers \cup {[call |-> loc[t].call, status |-> status, id |-> id]}
    /\ Go(t, Idle)

Deletes == {"DeleteVolume", "DeleteSnapshot"}
Creates == {"CreateVolume", "CreateSnapshot"}

\* _rollback_create_volume_from_source: delete_volume, tried again by @retry.
Undo(l, status, rounds) ==
    [l EXCEPT !.pc = "find", !.undo = status, !.tries = Tries, !.rounds = rounds]

\* The delete_volume of a rollback has ended, well or not.
UndoNext(t, ok, status) ==
    LET l == loc[t] end == IF ok THEN l.undo ELSE status IN
    IF ~ok /\ l.tries > 1 THEN Then(t, [l EXCEPT !.pc = "find", !.tries = @ - 1])
    ELSE IF l.rounds > 1  THEN Then(t, Undo(l, end, l.rounds - 1))
    ELSE Reply(t, end, NoId)

\* An exception leaves the mediator: of the RPC, or of a rollback.
Raise(t, status) ==
    IF loc[t].undo = "none" THEN Reply(t, status, NoId) ELSE UndoNext(t, FALSE, status)

\* An exception while a volume is filled: a clone is rolled back by the
\* controller, a snapshot is not.
RaiseInCopy(t, status) ==
    IF loc[t].call.op = "CreateVolume" THEN Then(t, Undo(loc[t], status, 1))
                                       ELSE Reply(t, status, NoId)

\* ObjectNotFoundError and SnapshotAlreadyExists of _create_flashcopy: the
\* mediator deletes the volume of a snapshot.
RaiseAndRemove(t, status) ==
    IF loc[t].call.op = "CreateVolume"
      THEN Then(t, Undo(loc[t], IF status = "NOT_FOUND" THEN status ELSE "INTERNAL", 1))
    ELSE Then(t, [loc[t] EXCEPT !.pc = "rmtarget", !.undo = status, !.tries = Tries])

ReadOnly == UNCHANGED <<arrayVars, bounds>>

-----------------------------------------------------------------------------
(***************************************************************************)
(* CreateVolume                                                            *)
(***************************************************************************)

\* The range check and get_volume's search of the pool.
Lookup(t) ==
    LET l == loc[t] found == Named(l.call.name) IN
    /\ l.pc = "lookup"
    /\ \/ l.call.size > MaxSize /\ Reply(t, "OUT_OF_RANGE", NoId)
       \/ /\ l.call.size <= MaxSize /\ found = {}
          /\ Then(t, [l EXCEPT !.pc = "recheck",
                               !.size = IF l.call.size = 0 THEN MinSize ELSE l.call.size])
       \/ /\ l.call.size <= MaxSize
          /\ \E i \in found : Then(t, [l EXCEPT !.pc = "origin", !.id = i, !.size = volume[i].size])
    /\ ReadOnly

\* The volume's relationships, the size check and _handle_existing_volume_source.
Origin(t) ==
    LET l == loc[t] IN
    /\ l.pc = "origin"
    /\ IF (l.call.source = NoId /\ l.size # l.call.size) \/ CopySource(l.id) # l.call.source
         THEN Reply(t, "ALREADY_EXISTS", NoId)
         ELSE Reply(t, "OK", l.id)
    /\ ReadOnly

\* _create_api_volume looks for the name again, for volumes and snapshots ...
Recheck(t) ==
    LET l == loc[t] IN
    /\ l.pc = "recheck"
    /\ IF Named(l.call.name) = {} THEN To(t, "create")
       ELSE Reply(t, IF l.call.op = "CreateVolume" THEN "ALREADY_EXISTS" ELSE "INTERNAL", NoId)
    /\ ReadOnly

\* ... creates the volume ...
Create(t) ==
    /\ loc[t].pc = "create"
    /\ CreateVolume(loc[t].call.name, loc[t].size)
    /\ Then(t, [loc[t] EXCEPT !.pc = "readback", !.id = nextId])
    /\ UNCHANGED bounds

\* ... and reads it back by its id.
ReadBack(t) ==
    LET l == loc[t] IN
    /\ l.pc = "readback"
    /\ \/ /\ ~Exists(l.id)
          /\ Reply(t, IF l.call.op = "CreateVolume" THEN "INVALID_ARGUMENT" ELSE "INTERNAL", NoId)
       \/ Exists(l.id) /\ l.call.op = "CreateVolume" /\ l.call.source = NoId /\ Reply(t, "OK", l.id)
       \/ Exists(l.id) /\ l.call.op = "CreateVolume" /\ l.call.source # NoId /\ To(t, "findSource")
       \/ Exists(l.id) /\ l.call.op = "CreateSnapshot" /\ To(t, "flash")
    /\ ReadOnly

\* get_object_by_id of the source; a volume smaller than it is extended first.
FindSource(t) ==
    LET l == loc[t] s == l.call.source IN
    /\ l.pc = "findSource"
    /\ Then(t, IF ~Exists(s) THEN Undo(l, "NOT_FOUND", 2)
               ELSE IF l.call.kind = "snapshot" /\ ~IsSnapshot(s) THEN Undo(l, "INVALID_ARGUMENT", 1)
               ELSE [l EXCEPT !.pc = IF l.size < volume[s].size THEN "grow" ELSE "flash",
                              !.size = volume[s].size])
    /\ ReadOnly

\* copy_to_existing_volume_from_source: _extend_volume, which drops the error of
\* an extension that is refused.
Grow(t) ==
    LET l == loc[t] IN
    /\ l.pc = "grow"
    /\ \/ ~Exists(l.id) /\ RaiseInCopy(t, "NOT_FOUND") /\ UNCHANGED arrayVars
       \/ /\ Free(l.id) /\ volume[l.id].size < l.size
          /\ ExtendVolume(l.id, l.size) /\ To(t, "flash")
       \/ /\ Exists(l.id) /\ (~Free(l.id) \/ volume[l.id].size >= l.size)
          /\ To(t, "flash") /\ UNCHANGED arrayVars
    /\ UNCHANGED bounds

-----------------------------------------------------------------------------
(***************************************************************************)
(* _create_flashcopy, for clones and snapshots                             *)
(***************************************************************************)

\* create_flashcopy is refused if a volume is gone, the target is a target
\* already, or it is smaller than the source.
Flash(t) ==
    LET l == loc[t] s == l.call.source both == Exists(s) /\ Exists(l.id) IN
    /\ l.pc = "flash"
    /\ \/ /\ ~both \/ IsCopy(l.id)
          /\ RaiseAndRemove(t, IF both THEN "ALREADY_EXISTS" ELSE "NOT_FOUND") /\ UNCHANGED arrayVars
       \/ /\ both /\ ~IsCopy(l.id) /\ volume[l.id].size < volume[s].size
          /\ RaiseInCopy(t, "INTERNAL") /\ UNCHANGED arrayVars
       \/ /\ both /\ ~IsCopy(l.id) /\ volume[l.id].size >= volume[s].size
          /\ CreateFlashcopy(s, l.id, l.call.op = "CreateSnapshot")
          /\ To(t, "state")
    /\ UNCHANGED bounds

\* get_flashcopy_state: a relationship that is not valid is deleted again.
ReadState(t) ==
    LET l == loc[t] IN
    /\ l.pc = "state"
    /\ \/ ~IsCopy(l.id) /\ RaiseInCopy(t, "INTERNAL")
       \/ IsCopy(l.id) /\ flashcopy[l.id].state = "invalid" /\ To(t, "withdraw")
       \/ IsCopy(l.id) /\ flashcopy[l.id].state # "invalid" /\ To(t, "final")
    /\ ReadOnly

Withdraw(t) ==
    /\ loc[t].pc = "withdraw"
    /\ IF IsCopy(loc[t].id) THEN DeleteFlashcopy(loc[t].id) ELSE UNCHANGED arrayVars
    /\ RaiseInCopy(t, "INTERNAL")
    /\ UNCHANGED bounds

\* The target is read once more, and the RPC succeeds.
Final(t) ==
    /\ loc[t].pc = "final"
    /\ IF Exists(loc[t].id) THEN Reply(t, "OK", loc[t].id) ELSE RaiseAndRemove(t, "NOT_FOUND")
    /\ ReadOnly

\* _delete_target_volume_if_exist is tried again until it is gone.
RetryRemoveTarget(t) ==
    IF loc[t].tries > 1 THEN Then(t, [loc[t] EXCEPT !.tries = @ - 1])
                        ELSE Reply(t, "INTERNAL", NoId)

RemoveTarget(t) ==
    LET l == loc[t] IN
    /\ l.pc = "rmtarget"
    /\ \/ Free(l.id) /\ DeleteVolume(l.id) /\ Reply(t, l.undo, NoId)
       \/ /\ ~Free(l.id) /\ UNCHANGED arrayVars
          /\ IF Exists(l.id) THEN RetryRemoveTarget(t) ELSE Reply(t, l.undo, NoId)
    /\ UNCHANGED bounds

-----------------------------------------------------------------------------
(***************************************************************************)
(* CreateSnapshot                                                          *)
(***************************************************************************)

\* get_snapshot: the source, for its pool, and the search of that pool.
SnapshotLookup(t) ==
    LET l == loc[t] found == Named(l.call.name) IN
    /\ l.pc = "slook"
    /\ \/ ~Exists(l.call.source) /\ Reply(t, "NOT_FOUND", NoId)
       \/ Exists(l.call.source) /\ found = {} /\ To(t, "ssource")
       \/ /\ Exists(l.call.source)
          /\ \E i \in found : Then(t, [l EXCEPT !.pc = "sverify", !.id = i])
    /\ ReadOnly

\* is_snapshot of what was found, and the handler's check of the source.
VerifySnapshot(t) ==
    LET l == loc[t] IN
    /\ l.pc = "sverify"
    /\ \/ ~IsSnapshot(l.id) /\ Reply(t, "INTERNAL", NoId)
       \/ IsSnapshot(l.id) /\ CopySource(l.id) # l.call.source /\ Reply(t, "ALREADY_EXISTS", NoId)
       \/ IsSnapshot(l.id) /\ CopySource(l.id) = l.call.source /\ Reply(t, "OK", l.id)
    /\ ReadOnly

\* create_snapshot reads the source again; the new volume gets its size.
SnapshotSource(t) ==
    LET l == loc[t] s == l.call.source IN
    /\ l.pc = "ssource"
    /\ IF Exists(s) THEN Then(t, [l EXCEPT !.pc = "recheck", !.size = volume[s].size])
                    ELSE Reply(t, "NOT_FOUND", NoId)
    /\ ReadOnly

-----------------------------------------------------------------------------
(***************************************************************************)
(* delete_volume, delete_snapshot, expand_volume; a rollback runs the      *)
(* deletion of the volume it created.                                      *)
(***************************************************************************)

\* The object is not there: a deletion is done, anything else fails.
Absent(t) == IF loc[t].call.op \in Deletes THEN Reply(t, "OK", loc[t].id) ELSE Raise(t, "NOT_FOUND")

\* What follows when the checks, and then the removals, before it are done.
Follow(l) ==
    [l EXCEPT !.pc = IF l.checks # {} THEN "ensure"
                     ELSE IF l.rels # {} THEN "rmrels"
                     ELSE IF l.call.op = "Expand" THEN "extend"
                     ELSE IF l.target THEN "rmtargetrel"
                     ELSE "rmvolume"]

\* _get_api_volume_by_id, with the relationships to check: those of a volume's
\* copies, and for an expansion its own too.
FindObject(t) ==
    LET l == loc[t]
        rels == IF l.call.op = "Expand" THEN FlashcopiesOf(l.id) ELSE CopiesFrom(l.id) IN
    /\ l.pc = "find"
    /\ IF ~Exists(l.id) \/ (l.call.op = "DeleteSnapshot" /\ ~IsSnapshot(l.id))
         THEN Absent(t)
         ELSE Then(t, Follow([l EXCEPT !.checks = rels, !.rels = rels, !.target = IsCopy(l.id)]))
    /\ ReadOnly

\* Mutated form of Ensure: out_of_sync_tracks is not looked at.
EnsureUnsynced(t) ==
    LET l == loc[t] IN
    /\ l.pc = "ensure"
    /\ \E r \in l.checks :
          IF IsCopy(r) /\ ~flashcopy[r].nocopy THEN Then(t, Follow([l EXCEPT !.checks = @ \ {r}]))
                                              ELSE Raise(t, "FAILED_PRECONDITION")
    /\ ReadOnly

\* _ensure_flashcopy_safe_to_delete, one relationship after the other.
Ensure(t) ==
    LET l == loc[t] IN
    /\ l.pc = "ensure"
    /\ \E r \in l.checks :
         \/ ~IsCopy(r) /\ Raise(t, "INTERNAL")
         \/ /\ IsCopy(r) /\ (flashcopy[r].nocopy \/ flashcopy[r].state # "done")
            /\ Raise(t, "FAILED_PRECONDITION")
         \/ /\ IsCopy(r) /\ ~flashcopy[r].nocopy /\ flashcopy[r].state = "done"
            /\ Then(t, Follow([l EXCEPT !.checks = @ \ {r}]))
    /\ ReadOnly

\* _delete_flashcopy of each of them.
RemoveRelations(t) ==
    LET l == loc[t] IN
    /\ l.pc = "rmrels"
    /\ \E r \in l.rels :
         \/ ~IsCopy(r) /\ Raise(t, "INTERNAL") /\ UNCHANGED arrayVars
         \/ IsCopy(r) /\ DeleteFlashcopy(r) /\ Then(t, Follow([l EXCEPT !.rels = @ \ {r}]))
    /\ UNCHANGED bounds

\* The relationship the object is the target of is deleted unchecked.
RemoveOwnRelation(t) ==
    LET l == loc[t] IN
    /\ l.pc = "rmtargetrel"
    /\ \/ ~IsCopy(l.id) /\ Raise(t, "INTERNAL") /\ UNCHANGED arrayVars
       \/ IsCopy(l.id) /\ DeleteFlashcopy(l.id) /\ To(t, "rmvolume")
    /\ UNCHANGED bounds

\* Mutated form of RemoveVolume: the error of a refused deletion is dropped.
RemoveVolumeDropped(t) ==
    LET l == loc[t] IN
    /\ l.pc = "rmvolume"
    /\ IF Free(l.id) THEN DeleteVolume(l.id) ELSE UNCHANGED arrayVars
    /\ IF l.undo = "none" THEN Reply(t, "OK", l.id) ELSE UndoNext(t, TRUE, "OK")
    /\ UNCHANGED bounds

\* _delete_volume.
RemoveVolume(t) ==
    LET l == loc[t] IN
    /\ l.pc = "rmvolume"
    /\ \/ /\ Free(l.id) /\ DeleteVolume(l.id)
          /\ IF l.undo = "none" THEN Reply(t, "OK", l.id) ELSE UndoNext(t, TRUE, "OK")
       \/ ~Exists(l.id) /\ Absent(t) /\ UNCHANGED arrayVars
       \/ Exists(l.id) /\ ~Free(l.id) /\ Raise(t, "INTERNAL") /\ UNCHANGED arrayVars
    /\ UNCHANGED bounds

\* ControllerExpandVolume: the volume before, and the two early returns.
ExpandLookup(t) ==
    LET l == loc[t] IN
    /\ l.pc = "xlook"
    /\ \/ ~Exists(l.id) /\ Reply(t, "NOT_FOUND", NoId)
       \/ Exists(l.id) /\ volume[l.id].size >= l.call.size /\ Reply(t, "OK", l.id)
       \/ /\ Exists(l.id) /\ volume[l.id].size < l.call.size
          /\ IF l.call.size > MaxSize THEN Reply(t, "OUT_OF_RANGE", NoId) ELSE To(t, "find")
    /\ ReadOnly

\* _extend_volume drops the error of an extension that is refused.
Extend(t) ==
    LET l == loc[t] IN
    /\ l.pc = "extend"
    /\ \/ ~Exists(l.id) /\ Reply(t, "NOT_FOUND", NoId) /\ UNCHANGED <<arrayVars, refused>>
       \/ /\ Free(l.id) /\ volume[l.id].size < l.call.size
          /\ ExtendVolume(l.id, l.call.size) /\ To(t, "xafter") /\ UNCHANGED refused
       \/ /\ Exists(l.id) /\ (~Free(l.id) \/ volume[l.id].size >= l.call.size)
          /\ To(t, "xafter") /\ refused' = refused \cup {l.id} /\ UNCHANGED arrayVars
    /\ UNCHANGED <<deleting, overlap, calls, faults, crashes>>

\* The volume after it.
ExpandAfter(t) ==
    /\ loc[t].pc = "xafter"
    /\ IF Exists(loc[t].id) THEN Reply(t, "OK", loc[t].id) ELSE Reply(t, "NOT_FOUND", NoId)
    /\ ReadOnly

-----------------------------------------------------------------------------
(***************************************************************************)
(* Failures                                                                *)
(***************************************************************************)

\* The next request of t, which is at one of the pcs, fails with an error that
\* the mediator has no case for.
FaultAt(t, pcs) ==
    /\ loc[t].pc \in pcs
    /\ faults < MaxFaults /\ faults' = faults + 1
    /\ UNCHANGED <<deleting, overlap, refused, calls, crashes>>

\* Most errors end the RPC, or the current try of a rollback.
FaultRaised(t) ==
    /\ FaultAt(t, {"lookup", "origin", "recheck", "create", "readback", "slook", "sverify",
                   "ssource", "find", "ensure", "rmrels", "rmtargetrel", "rmvolume", "xlook",
                   "xafter"})
    /\ Raise(t, "INTERNAL") /\ UNCHANGED arrayVars

\* Errors while a volume is filled.
FaultInCopy(t) ==
    /\ FaultAt(t, {"findSource", "grow", "flash", "state", "withdraw", "final"})
    /\ RaiseInCopy(t, "INTERNAL") /\ UNCHANGED arrayVars

\* _get_api_volume_by_id turns a client or server error into None: the source
\* or the volume is "not found"; a clone that was filled is not looked at.
FaultAsNone(t) ==
    LET l == loc[t] IN
    /\ FaultAt(t, {"findSource", "final", "ssource", "xlook", "xafter"})
    /\ \/ l.pc = "findSource" /\ Then(t, Undo(l, "NOT_FOUND", 2))
       \/ /\ l.pc = "final"
          /\ IF l.call.op = "CreateVolume" THEN Reply(t, "OK", l.id) ELSE Reply(t, "INTERNAL", NoId)
       \/ l.pc \in {"ssource", "xlook", "xafter"} /\ Reply(t, "NOT_FOUND", NoId)
    /\ UNCHANGED arrayVars

\* _extend_volume drops every error but two.
FaultDropped(t) ==
    /\ FaultAt(t, {"grow", "extend"})
    /\ To(t, IF loc[t].pc = "grow" THEN "flash" ELSE "xafter")
    /\ UNCHANGED arrayVars

\* The deletion of a snapshot's volume is tried again.
FaultRetried(t) == FaultAt(t, {"rmtarget"}) /\ RetryRemoveTarget(t) /\ UNCHANGED arrayVars

\* A new relationship is not valid.
FaultInvalid(t) == FaultAt(t, {"state"}) /\ CopyFails(loc[t].id) /\ UNCHANGED <<loc, answers>>

\* The controller is restarted: the running calls get no answer.
Crash ==
    /\ crashes < MaxCrashes /\ crashes' = crashes + 1
    /\ \E t \in Threads : loc[t] # Idle
    /\ loc' = [t \in Threads |-> Idle]
    /\ UNCHANGED <<arrayVars, answers, deleting, overlap, refused, calls, faults>>
-----------------------------------------------------------------------------
(***************************************************************************)
(* The orchestrator                                                        *)
(***************************************************************************)

\* The objects it knows: the volume it started with and those it was told of.
Known == {[id |-> 1, name |-> Source, op |-> "CreateVolume"]} \cup
         {[id |-> a.id, name |-> a.call.name, op |-> a.call.op] :
             a \in {b \in answers : b.call.op \in Creates /\ b.status = "OK"}}

Volumes == {k \in Known : k.op = "CreateVolume"}

FirstStep == [CreateVolume |-> "lookup", CreateSnapshot |-> "slook",
              DeleteVolume |-> "find", DeleteSnapshot |-> "find", Expand |-> "xlook"]

\* A new call, or an old one again; the name of a deleted object is not used
\* for another.
Ask(t, c) ==
    /\ loc[t] = Idle
    /\ c.op \in Ops
    /\ calls < MaxCalls /\ calls' = calls + 1
    /\ c.op \in Creates => \A k \in Known : k.name = c.name => k.id \notin deleting
    /\ overlap' = (overlap \/ \E o \in Threads : loc[o] # Idle /\ loc[o].call.name = c.name)
    /\ Then(t, [Idle EXCEPT !.call = c, !.id = c.id, !.pc = FirstStep[c.op]])
    /\ deleting' = IF c.op \in Deletes THEN deleting \cup {c.id} ELSE deleting
    /\ UNCHANGED <<arrayVars, refused, faults, crashes>>

\* A volume, plain or from a source; a snapshot of a volume; a deletion of
\* either; an expansion.
Start(t) ==
    \/ \E n \in Names \ {Source}, z \in Sizes :
          Ask(t, [NoCall EXCEPT !.op = "CreateVolume", !.name = n, !.size = z])
    \/ \E n \in Names \ {Source}, z \in Sizes, k \in Known :
          Ask(t, [NoCall EXCEPT !.op = "CreateVolume", !.name = n, !.size = z, !.source = k.id,
                                !.kind = IF k \in Volumes THEN "volume" ELSE "snapshot"])
    \/ \E n \in Names \ {Source}, k \in Volumes :
          Ask(t, [NoCall EXCEPT !.op = "CreateSnapshot", !.name = n, !.source = k.id])
    \/ \E k \in Known :
          Ask(t, [NoCall EXCEPT !.op = IF k \in Volumes THEN "DeleteVolume" ELSE "DeleteSnapshot",
                                !.name = k.name, !.id = k.id])
    \/ \E k \in Volumes, z \in Sizes :
          Ask(t, [NoCall EXCEPT !.op = "Expand", !.name = k.name, !.id = k.id, !.size = z])

\* The array finishes a background copy.
BackgroundCopy == (\E i \in Ids : CopyDone(i)) /\ UNCHANGED <<loc, answers, bounds>>

-----------------------------------------------------------------------------
Init ==
    /\ volume = [i \in Ids |-> IF i = 1 THEN [name |-> Source, size |-> SourceSize, copyOf |-> NoId]
                                       ELSE NoVolume]
    /\ flashcopy = [i \in Ids |-> NoCopy]
    /\ nextId = 2
    /\ loc = [t \in Threads |-> Idle]
    /\ answers = {} /\ deleting = {}
    /\ overlap = FALSE /\ refused = {}
    /\ calls = 0 /\ faults = 0 /\ crashes = 0

Request(t) ==
    \/ Lookup(t) \/ Origin(t) \/ Recheck(t) \/ Create(t) \/ ReadBack(t)
    \/ FindSource(t) \/ Grow(t) \/ Flash(t) \/ ReadState(t) \/ Withdraw(t) \/ Final(t)
    \/ RemoveTarget(t) \/ SnapshotLookup(t) \/ VerifySnapshot(t) \/ SnapshotSource(t)
    \/ FindObject(t) \/ Ensure(t) \/ RemoveRelations(t) \/ RemoveOwnRelation(t) \/ RemoveVolume(t)
    \/ ExpandLookup(t) \/ Extend(t) \/ ExpandAfter(t)

Fault(t) == \/ FaultRaised(t) \/ FaultInCopy(t) \/ FaultAsNone(t) \/ FaultDropped(t)
            \/ FaultRetried(t) \/ FaultInvalid(t)

Next == \/ \E t \in Threads : Start(t) \/ Request(t) \/ Fault(t)
        \/ Crash
        \/ BackgroundCopy

Spec == Init /\ [][Next]_vars

-----------------------------------------------------------------------------
(***************************************************************************)
(* Properties                                                              *)
(***************************************************************************)

Statuses == {"OK", "NOT_FOUND", "ALREADY_EXISTS", "INVALID_ARGUMENT", "OUT_OF_RANGE",
             "FAILED_PRECONDITION", "INTERNAL"}

\* The array is consistent (no relationship without its two volumes), a thread
\* never has more tries left than @retry allows, and the handlers answer with
\* the status codes they set.
TypeOK ==
    /\ ArrayTypeOK
    /\ \A t \in Threads : loc[t].tries \in 0..Tries /\ loc[t].checks \subseteq loc[t].rels
    /\ \A a \in answers : a.status \in Statuses
    /\ deleting \subseteq 1..nextId

OkTo(ops) == {a \in answers : a.call.op \in ops /\ a.status = "OK"}

\* create_flashcopy and get_flashcopy_state: what was answered as created from
\* a source holds the data of that source from then on, whatever is done to the
\* source and to its other copies, whichever request fails or wherever the
\* controller is restarted, as long as calls about one object have not overlapped.
\* Two failures are too many: a relationship that is not valid, and a restart
\* before it is withdrawn, and the repeated call takes it for good.
CopiedWhenOk ==
    ~overlap /\ faults + crashes <= 1 => \A a \in OkTo(Creates) :
        a.call.source # NoId /\ Exists(a.id) /\ a.id \notin deleting
            => volume[a.id].copyOf = a.call.source

\* _delete_object and the rollbacks: whatever overlaps, fails or is restarted, a
\* volume disappears, or loses the data it is a copy of, only when its own
\* deletion was asked for or the call that makes it has not been answered yet.
RemovedOnPurpose ==
    [][\A i \in Ids :
          Exists(i) /\ (~Exists(i)' \/ volume'[i].copyOf # volume[i].copyOf)
              => i \in deleting \/ \E t \in Threads : loc[t].call.op \in Creates /\ loc[t].id = i]_vars

\* delete_volume: a volume whose deletion was answered OK is gone, and so is
\* every relationship it took part in.
VolumeGone ==
    \A a \in OkTo({"DeleteVolume"}) : ~Exists(a.call.id) /\ FlashcopiesOf(a.call.id) = {}

\* The rollbacks: as long as no request fails unexpectedly and calls about one
\* object have not overlapped, every volume is known to the orchestrator or to the
\* running call that is making it.  The exception is _create_snapshot, which
\* keeps the volume when the array refuses the relationship, as it does when the
\* source was expanded in between.
NoOrphans ==
    ~overlap /\ faults = 0 /\ crashes = 0 =>
        \A i \in Ids : Exists(i) =>
            \/ i \in {k.id : k \in Known}
            \/ \E t \in Threads : loc[t].call.op \in Creates /\ loc[t].call.name = volume[i].name
            \/ \E a \in answers : /\ a.call.op = "CreateSnapshot" /\ a.status = "INTERNAL"
                                 /\ a.call.name = volume[i].name

\* ControllerExpandVolume: a volume whose expansion was answered OK has at least
\* the size that was asked for, unless the extension failed: _extend_volume logs
\* that the array refused it, or could not be asked, and returns.
ExpandedWhenOk ==
    faults = 0 =>
        \A a \in OkTo({"Expand"}) :
            Exists(a.id) /\ a.id \notin refused => volume[a.id].size >= a.call.size

\* The array agrees with the answers: deleted volumes are gone, failed clones have
\* left nothing, expanded volumes have their size.
ArrayAgrees == TypeOK /\ VolumeGone /\ NoOrphans /\ ExpandedWhenOk
=============================================================================
