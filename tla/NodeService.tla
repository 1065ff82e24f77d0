----------------------------- MODULE NodeService -----------------------------
(***************************************************************************)
(* NodeStageVolume, NodeUnstageVolume, NodePublishVolume,                  *)
(* NodeUnpublishVolume and NodeExpandVolume of the node plugin (node.go)   *)
(* for one volume on one node.  Volumes do not share state: the lock, the  *)
(* multipath device, the staging path and the targets are keyed by volume, *)
(* so one volume is the general case.                                      *)
(*                                                                         *)
(* A call is a goroutine; after it has the volume's lock                   *)
(* (VolumeIdLocksMap, sync_lock.go) every command it runs on the node is a *)
(* step.  The commands and what they do to the kernel's state are          *)
(* external.  A command may fail, and the plugin may be restarted between  *)
(* any two of them.                                                        *)
(***************************************************************************)
EXTENDS Naturals, FiniteSets, Sequences, SequencesExt

CONSTANTS Threads,      \* goroutines
          Targets,      \* target paths, one per pod
          Paths,        \* the scsi devices (sdX) through which the LUN is seen
          Blocks,       \* is the volume raw block?  TRUE, FALSE or either
          FsTypes,      \* fs_type in the stage requests; "" asks for any
          Formats,      \* what the volume may be formatted with at the start
          Overlaps,     \* may a call be sent while one it depends on runs?  As Blocks
          MaxSize,      \* bound: size the volume grows to on the array
          MaxCalls,     \* bound: calls
          MaxFaults,    \* bound: commands that fail, or whose effect comes too late
          MaxRestarts   \* bound: restarts of the plugin

ASSUME NodeAssumption ==
    /\ Blocks \subseteq BOOLEAN /\ Overlaps \subseteq BOOLEAN
    /\ MaxSize \in Nat \ {0}
    /\ MaxCalls \in Nat /\ MaxFaults \in Nat /\ MaxRestarts \in Nat

VARIABLES block,        \* do the requests ask for a raw block volume?
          overlap,      \* does the orchestrator let calls overlap?
          lock,         \* does the locks map hold the volume's id?
          sd,           \* the size each scsi device reports, 0 if it is absent
          mpath,        \* the size of the multipath device, 0 if there is none
          format,       \* the file system on the volume, "" if none
          fsSize,       \* its size
          staging,      \* is the device mounted on the staging path?
          present,      \* the target paths that exist
          mounts,       \* what is mounted on each target, the latest on top
          size,         \* the volume's size on the array
          loc,          \* the goroutines
          promise,      \* what the orchestrator was last told or asked for
          calls, faults, restarts

osVars  == <<block, overlap, sd, mpath, format, fsSize, staging, present, mounts, size>>
bounds  == <<calls, faults, restarts>>
vars    == <<lock, osVars, loc, promise, bounds>>

\* A target is mounted with the volume, or with the bare staging directory of
\* the node's own disk.
Mounts == {"volume", "bare"}

\* The file systems the plugin makes and grows itself.
Growable == {"ext4", "xfs"}

Idle == [pc |-> "idle", op |-> "none", target |-> "none", fs |-> "", found |-> "",
         devs |-> {}, want |-> 0]

NoPromise == [staged |-> FALSE, unstaged |-> TRUE, missed |-> FALSE, published |-> {},
              asked |-> {}, released |-> {}, expanded |-> 0]

Go(t, l) == loc' = [loc EXCEPT ![t] = l]

\* A step to the next command.
To(t, pc) == Go(t, [loc[t] EXCEPT !.pc = pc]) /\ UNCHANGED <<lock, promise>>

\* The call returns: the deferred RemoveVolumeLock runs.
Fail(t) == Go(t, Idle) /\ lock' = FALSE /\ UNCHANGED promise

\* What the orchestrator may rely on after an OK answer.
Told(l) ==
    CASE l.op = "stage"     -> [promise EXCEPT !.staged = TRUE]
      [] l.op = "unstage"   -> [promise EXCEPT !.unstaged = TRUE, !.missed = FALSE]
      [] l.op = "publish"   -> [promise EXCEPT !.published = IF l.target \in promise.released
                                                               THEN @ ELSE @ \cup {l.target}]
      [] l.op = "unpublish" -> [promise EXCEPT !.asked = @ \ {l.target}]
      [] l.op = "expand"    -> [promise EXCEPT !.expanded = IF l.want > @ THEN l.want ELSE @]

Succeed(t) == Go(t, Idle) /\ lock' = FALSE /\ promise' = Told(loc[t])

OsUnchanged == UNCHANGED <<osVars, bounds>>

\* A command that changes only the given variable leaves the rest.
Frame(v) == /\ v = "sd"      \/ UNCHANGED sd
            /\ v = "mpath"   \/ UNCHANGED mpath
            /\ v = "format"  \/ UNCHANGED <<format, fsSize>>
            /\ v = "staging" \/ UNCHANGED staging
            /\ v = "present" \/ UNCHANGED present
            /\ v = "mounts"  \/ UNCHANGED mounts
            /\ UNCHANGED <<block, overlap, size, bounds>>

-----------------------------------------------------------------------------
(***************************************************************************)
(* The lock and the device                                                 *)
(***************************************************************************)

\* Where each call starts; a stage has the host of every path to scan.
FirstStep == [stage |-> "rescan", unstage |-> "unmount", publish |-> "target",
              unpublish |-> "check", expand |-> "mpath"]

Begin(l) == [l EXCEPT !.pc = FirstStep[l.op], !.devs = IF l.op = "stage" THEN Paths ELSE {}]

\* Mutated form of Acquire: LoadOrStore's answer is not looked at.
AcquireAlways(t) ==
    /\ loc[t].pc = "lock"
    /\ lock' = TRUE
    /\ Go(t, Begin(loc[t]))
    /\ UNCHANGED promise
    /\ OsUnchanged

\* AddVolumeLock: a volume that is being processed is ABORTED at once.
Acquire(t) ==
    /\ loc[t].pc = "lock"
    /\ IF lock THEN Go(t, Idle) /\ UNCHANGED lock
       ELSE lock' = TRUE /\ Go(t, Begin(loc[t]))
    /\ UNCHANGED promise
    /\ OsUnchanged

\* RescanDevices: one host after the other, the LUN appears on its path.
Rescan(t) ==
    LET l == loc[t] IN
    /\ l.pc = "rescan"
    /\ \/ l.devs = {} /\ To(t, "mpath") /\ UNCHANGED sd
       \/ \E p \in l.devs :
            /\ sd' = [sd EXCEPT ![p] = IF @ = 0 THEN size ELSE @]
            /\ Go(t, [l EXCEPT !.devs = @ \ {p}])
            /\ UNCHANGED <<lock, promise>>
    /\ Frame("sd")

\* What a call does once it has the multipath device.
AfterMpath(l) == CASE l.op = "stage"   -> IF block THEN "done" ELSE "format"
                   [] l.op = "publish" -> "mount"
                   [] l.op \in {"unstage", "expand"} -> "slaves"

\* Mutated form of GetMpathDevice: no ReloadMultipath before giving up.
GetMpathNoReload(t) ==
    LET l == loc[t] IN
    /\ l.pc = "mpath"
    /\ IF mpath # 0
         THEN To(t, AfterMpath(l))
       ELSE IF l.op = "unstage" THEN Succeed(t) ELSE Fail(t)
    /\ OsUnchanged

\* ReloadMultipath makes a device of the scsi devices that are left, of the size
\* of one of them.
Reloaded == {sd[p] : p \in Paths} \ {0}

\* GetMpathDevice: the device mapper's device of the volume, or the one a reload
\* makes, when it is there within the five seconds of WaitForDmToExist and answers
\* sg_inq (else MpathMissed).  An unstage that finds none is done.
GetMpathDevice(t) ==
    LET l == loc[t] IN
    /\ l.pc = "mpath"
    /\ \/ /\ mpath # 0
          /\ To(t, AfterMpath(l)) /\ UNCHANGED mpath
       \/ /\ mpath = 0
          /\ mpath' \in Reloaded
          /\ To(t, AfterMpath(l))
       \/ /\ mpath = 0 /\ Reloaded = {}
          /\ IF l.op = "unstage" THEN Succeed(t) ELSE Fail(t)
          /\ UNCHANGED mpath
    /\ Frame("mpath")

\* The lookup comes to nothing although devices are left: the time WaitForDmToExist
\* gives multipathd passes (its loop assigns the error to a variable of its own, so
\* GetDmsPath goes on with no device), or sg_inq does not show the volume's id.  Both
\* are the MultipathDeviceNotFoundForVolumeError of a volume that has no device, and
\* an unstage is answered OK; a device that was reloaded may appear later.
MpathMissed(t) ==
    /\ loc[t].pc = "mpath" /\ Reloaded # {} /\ faults < MaxFaults
    /\ faults' = faults + 1
    /\ mpath' \in IF mpath = 0 THEN {0} \cup Reloaded ELSE {mpath}
    /\ Go(t, Idle) /\ lock' = FALSE
    /\ promise' = IF loc[t].op = "unstage"
                    THEN [promise EXCEPT !.unstaged = TRUE, !.missed = TRUE] ELSE promise
    /\ UNCHANGED <<block, overlap, sd, format, fsSize, staging, present, mounts, size,
                   calls, restarts>>

-----------------------------------------------------------------------------
(***************************************************************************)
(* NodeStageVolume                                                         *)
(***************************************************************************)

\* A raw block volume is staged now.
StageBlock(t) ==
    /\ loc[t].pc = "done"
    /\ Succeed(t)
    /\ OsUnchanged

\* GetDiskFormat and resolveFsTypeForMount: ALREADY_EXISTS for another type.
ResolveFs(t) ==
    LET l == loc[t] IN
    /\ l.pc = "format"
    /\ IF l.fs # "" /\ format # "" /\ l.fs # format
         THEN Fail(t)
         ELSE /\ Go(t, [l EXCEPT !.pc = "staged", !.found = format,
                                 !.fs = IF l.fs # "" THEN l.fs
                                        ELSE IF format = "" THEN "ext4" ELSE format])
              /\ UNCHANGED <<lock, promise>>
    /\ OsUnchanged

\* isTargetMounted of the staging path: the idempotent case.
CheckStaged(t) ==
    /\ loc[t].pc = "staged"
    /\ IF staging THEN Succeed(t) ELSE To(t, IF loc[t].found = "" THEN "mkfs" ELSE "mountfs")
    /\ OsUnchanged

\* A new file system of the size the device has.
MakeFs(fs) == format' = fs /\ fsSize' = mpath

\* FormatDevice: mkfs; a failure and a type it does not know are only logged.
FormatDevice(t) ==
    /\ loc[t].pc = "mkfs"
    /\ IF loc[t].fs \in Growable THEN MakeFs(loc[t].fs) ELSE UNCHANGED <<format, fsSize>>
    /\ To(t, "mountfs")
    /\ Frame("format")

\* The mounter's FormatAndMount, which formats what is still unformatted.
FormatAndMount(t) ==
    /\ loc[t].pc = "mountfs"
    /\ IF format = "" THEN MakeFs(loc[t].fs) ELSE UNCHANGED <<format, fsSize>>
    /\ staging' = TRUE
    /\ Succeed(t)
    /\ UNCHANGED <<block, overlap, sd, mpath, present, mounts, size, bounds>>

-----------------------------------------------------------------------------
(***************************************************************************)
(* NodeUnstageVolume                                                       *)
(***************************************************************************)

\* IsNotMountPoint and Unmount of the staging path.
UnmountStaging(t) ==
    /\ loc[t].pc = "unmount"
    /\ staging' = FALSE
    /\ To(t, "mpath")
    /\ Frame("staging")

\* GetSysDevicesFromMpath.
ReadSlaves(t) ==
    LET l == loc[t] IN
    /\ l.pc = "slaves"
    /\ Go(t, [l EXCEPT !.devs = {p \in Paths : sd[p] # 0},
                       !.pc = IF l.op = "unstage" THEN "flush" ELSE "grow"])
    /\ UNCHANGED <<lock, promise>>
    /\ OsUnchanged

\* FlushMultipathDevice: multipath -f refuses a device that is mounted.
Flush(t) ==
    /\ loc[t].pc = "flush"
    /\ IF staging \/ \E x \in Targets : "volume" \in ToSet(mounts[x])
         THEN Fail(t) /\ UNCHANGED mpath
         ELSE mpath' = 0 /\ To(t, "delete")
    /\ Frame("mpath")

\* RemovePhysicalDevice: one device after the other.
DeletePath(t) ==
    LET l == loc[t] IN
    /\ l.pc = "delete"
    /\ \/ /\ l.devs = {} /\ Succeed(t) /\ UNCHANGED sd
       \/ \E p \in l.devs :
            /\ sd' = [sd EXCEPT ![p] = 0]
            /\ Go(t, [l EXCEPT !.devs = @ \ {p}])
            /\ UNCHANGED <<lock, promise>>
    /\ Frame("sd")

-----------------------------------------------------------------------------
(***************************************************************************)
(* NodePublishVolume and NodeUnpublishVolume                               *)
(***************************************************************************)

AfterTarget == IF block THEN "mpath" ELSE "mount"

Mounted(x) == mounts[x] # <<>>

\* Mutated form of CheckTarget: a target that exists is taken for mounted.
CheckTargetExists(t) ==
    LET x == loc[t].target IN
    /\ loc[t].pc = "target"
    /\ IF x \in present THEN Succeed(t) ELSE To(t, "mkdir")
    /\ OsUnchanged

\* IsPathExists and isTargetMounted: a mounted target is the idempotent case.
CheckTarget(t) ==
    LET x == loc[t].target IN
    /\ loc[t].pc = "target"
    /\ \/ x \in present /\ Mounted(x) /\ Succeed(t)
       \/ x \in present /\ ~Mounted(x) /\ To(t, AfterTarget)
       \/ x \notin present /\ To(t, "mkdir")
    /\ OsUnchanged

\* MakeDir or MakeFile, which accept a path that is there.
MakeTarget(t) ==
    /\ loc[t].pc = "mkdir"
    /\ present' = present \cup {loc[t].target}
    /\ To(t, AfterTarget)
    /\ Frame("present")

\* publishFileSystemVolume binds the staging path, whatever is there;
\* publishRawBlockVolume binds the device.
Mount(t) ==
    /\ loc[t].pc = "mount"
    /\ mounts' = [mounts EXCEPT ![loc[t].target] =
                     Append(@, IF block \/ staging THEN "volume" ELSE "bare")]
    /\ Succeed(t)
    /\ Frame("mounts")

\* Unpublish: a target that does not exist is done.
CheckMounted(t) ==
    LET x == loc[t].target IN
    /\ loc[t].pc = "check"
    /\ \/ x \notin present /\ Succeed(t)
       \/ x \in present /\ To(t, IF Mounted(x) THEN "umount" ELSE "rmdir")
    /\ OsUnchanged

\* Unmount of the target: the mount on top.
Unmount(t) ==
    /\ loc[t].pc = "umount"
    /\ mounts' = [mounts EXCEPT ![loc[t].target] = IF @ = <<>> THEN @ ELSE Front(@)]
    /\ To(t, "rmdir")
    /\ Frame("mounts")

\* RemoveFileOrDirectory: os.RemoveAll, contents included; a mount point itself
\* cannot be removed.
RemoveTarget(t) ==
    LET x == loc[t].target IN
    /\ loc[t].pc = "rmdir"
    /\ IF Mounted(x) THEN Fail(t) /\ UNCHANGED present
                     ELSE Succeed(t) /\ present' = present \ {x}
    /\ Frame("present")

-----------------------------------------------------------------------------
(***************************************************************************)
(* NodeExpandVolume                                                        *)
(***************************************************************************)

\* RescanPhysicalDevices: one device after the other.
RescanPath(t) ==
    LET l == loc[t] IN
    /\ l.pc = "grow"
    /\ \/ l.devs = {} /\ To(t, "resize") /\ UNCHANGED sd
       \/ \E p \in l.devs :
            /\ sd' = [sd EXCEPT ![p] = size]
            /\ Go(t, [l EXCEPT !.devs = @ \ {p}])
            /\ UNCHANGED <<lock, promise>>
    /\ Frame("sd")

\* Mutated form of ExpandMpathDevice: the map is not resized.
ExpandMpathSkipped(t) ==
    /\ loc[t].pc = "resize"
    /\ To(t, "growfs")
    /\ OsUnchanged

\* ExpandMpathDevice: multipathd resize map.
ExpandMpathDevice(t) ==
    /\ loc[t].pc = "resize"
    /\ \E p \in {q \in Paths : sd[q] # 0} : mpath' = sd[p]
    /\ To(t, "growfs")
    /\ Frame("mpath")

\* GetDiskFormat and ExpandFilesystem: what is not formatted, or with a type the
\* plugin does not grow, is skipped; the tools refuse what is not mounted.
ExpandFilesystem(t) ==
    /\ loc[t].pc = "growfs"
    /\ fsSize' = IF format \in Growable /\ staging THEN mpath ELSE fsSize
    /\ IF format \in Growable => staging THEN Succeed(t) ELSE Fail(t)
    /\ UNCHANGED <<block, overlap, sd, mpath, format, staging, present, mounts, size, bounds>>

-----------------------------------------------------------------------------
(***************************************************************************)
(* Failures and the orchestrator                                           *)
(***************************************************************************)

\* GetHostsIdByArrayIdentifier finds no host for one of the array's ports: the
\* scan leaves its path out, if it has another.
HostNotFound(t) ==
    LET l == loc[t] IN
    /\ l.pc = "rescan" /\ l.devs = Paths
    /\ \E p \in Paths : Paths # {p} /\ Go(t, [l EXCEPT !.devs = @ \ {p}])
    /\ UNCHANGED <<lock, promise>>

\* The call of goroutine t after a command failed: most failures end it (MpathMissed
\* has the lookup that fails without an error of its own).
\*  - FormatDevice only logs it;
\*  - IsPathExists takes any error for "it does not exist";
\*  - the error of a raw block mount is assigned to a variable of an inner
\*    block, and the call returns OK.
AfterFailure(t) ==
    LET l == loc[t] IN
    \/ HostNotFound(t)
    \/ l.pc = "mkfs" /\ To(t, "mountfs")
    \/ l.pc = "target" /\ To(t, "mkdir")
    \/ l.pc = "check" /\ Succeed(t)
    \/ l.pc = "mount" /\ block /\ Succeed(t)
    \/ l.pc # "mkfs" /\ ~(l.pc = "mount" /\ block) /\ Fail(t)

\* A command fails and changes nothing.
CommandFails(t) ==
    /\ loc[t].pc \notin {"idle", "lock", "done"} /\ faults < MaxFaults
    /\ faults' = faults + 1
    /\ AfterFailure(t)
    /\ UNCHANGED <<osVars, calls, restarts>>

\* The plugin is restarted; the locks map was in its memory.
Restart ==
    /\ restarts < MaxRestarts
    /\ \E t \in Threads : loc[t] # Idle
    /\ loc' = [t \in Threads |-> Idle]
    /\ lock' = FALSE
    /\ restarts' = restarts + 1
    /\ UNCHANGED <<osVars, promise, calls, faults>>

\* The volume is expanded on the array (ControllerExpandVolume).
Grow == /\ size < MaxSize
        /\ size' = size + 1
        /\ UNCHANGED <<block, overlap, lock, sd, mpath, format, fsSize, staging, present, mounts, loc, promise, bounds>>

Running(ops) == {t \in Threads : loc[t].op \in ops}

\* A call arrives.  The orchestrator publishes what it was told is staged, does
\* not use a target again after it asked for its release, and unstages when all
\* targets are released.  Without overlap it also waits for the calls that the
\* new one depends on.
Send(t, l) ==
    /\ loc[t] = Idle /\ calls < MaxCalls
    /\ calls' = calls + 1
    /\ Go(t, l)
    /\ UNCHANGED <<lock, osVars, faults, restarts>>

SendStage(t) ==
    /\ overlap \/ Running({"stage", "unstage"}) = {}
    /\ \E fs \in FsTypes : Send(t, [Idle EXCEPT !.pc = "lock", !.op = "stage", !.fs = fs])
    /\ promise' = [promise EXCEPT !.unstaged = FALSE]

SendUnstage(t) ==
    /\ promise.asked = {}
    /\ overlap \/ Threads = {o \in Threads : loc[o] = Idle}
    /\ Send(t, [Idle EXCEPT !.pc = "lock", !.op = "unstage"])
    /\ promise' = [promise EXCEPT !.staged = FALSE]

SendPublish(t) ==
    /\ promise.staged
    /\ \E x \in Targets \ promise.released :
         /\ overlap \/ (Running({"unstage"}) = {} /\ \A o \in Threads : loc[o].target # x)
         /\ Send(t, [Idle EXCEPT !.pc = "lock", !.op = "publish", !.target = x])
         /\ promise' = [promise EXCEPT !.asked = @ \cup {x}]

SendUnpublish(t) ==
    \E x \in promise.asked :
        /\ overlap \/ \A o \in Threads : loc[o].target # x
        /\ Send(t, [Idle EXCEPT !.pc = "lock", !.op = "unpublish", !.target = x])
        /\ promise' = [promise EXCEPT !.published = @ \ {x}, !.released = @ \cup {x}]

SendExpand(t) ==
    /\ promise.staged
    /\ overlap \/ Running({"unstage", "expand"}) = {}
    /\ Send(t, [Idle EXCEPT !.pc = "lock", !.op = "expand", !.want = size])
    /\ UNCHANGED promise

-----------------------------------------------------------------------------
Init ==
    /\ block \in Blocks /\ overlap \in Overlaps /\ lock = FALSE
    /\ sd = [p \in Paths |-> 0] /\ mpath = 0
    /\ format \in (IF block THEN {""} ELSE Formats) /\ fsSize = IF format = "" THEN 0 ELSE 1
    /\ staging = FALSE /\ present = {} /\ mounts = [x \in Targets |-> <<>>]
    /\ size = 1
    /\ loc = [t \in Threads |-> Idle]
    /\ promise = NoPromise
    /\ calls = 0 /\ faults = 0 /\ restarts = 0

Command(t) ==
    \/ Acquire(t) \/ Rescan(t) \/ GetMpathDevice(t)
    \/ StageBlock(t) \/ ResolveFs(t) \/ CheckStaged(t) \/ FormatDevice(t) \/ FormatAndMount(t)
    \/ UnmountStaging(t) \/ ReadSlaves(t) \/ Flush(t) \/ DeletePath(t)
    \/ CheckTarget(t) \/ MakeTarget(t) \/ Mount(t)
    \/ CheckMounted(t) \/ Unmount(t) \/ RemoveTarget(t)
    \/ RescanPath(t) \/ ExpandMpathDevice(t) \/ ExpandFilesystem(t)

Arrive(t) == SendStage(t) \/ SendUnstage(t) \/ SendPublish(t) \/ SendUnpublish(t) \/ SendExpand(t)

Next == (\E t \in Threads : Arrive(t) \/ Command(t) \/ CommandFails(t) \/ MpathMissed(t))
        \/ Restart \/ Grow

Spec == Init /\ [][Next]_vars

-----------------------------------------------------------------------------
(***************************************************************************)
(* Properties                                                              *)
(***************************************************************************)

Steps == {"idle", "lock", "rescan", "mpath", "done", "format", "staged", "mkfs", "mountfs",
          "unmount", "slaves", "flush", "delete", "target", "mkdir", "mount", "check", "umount",
          "rmdir", "grow", "resize", "growfs"}

\* The types.
TypeOK ==
    /\ block \in Blocks /\ overlap \in Overlaps /\ lock \in BOOLEAN
    /\ sd \in [Paths -> 0..MaxSize] /\ mpath \in 0..MaxSize /\ size \in 1..MaxSize
    /\ fsSize \in 0..MaxSize /\ staging \in BOOLEAN
    /\ present \subseteq Targets
    /\ \A x \in Targets : mounts[x] \in Seq(Mounts) /\ (Mounted(x) => x \in present)
    /\ \A t \in Threads : loc[t].pc \in Steps /\ loc[t].devs \subseteq Paths
    /\ mpath # 0 => \E p \in Paths : sd[p] # 0

\* The volume's id is in the locks map exactly while one call is past
\* AddVolumeLock: no early return, error, ABORTED call or restart leaves it there
\* or takes it out under the call that put it there.
LockHeldByOne ==
    Cardinality({t \in Threads : loc[t].pc \notin {"idle", "lock"}}) = IF lock THEN 1 ELSE 0

\* os.RemoveAll never runs on a target that something is mounted on: it would
\* delete the files of the volume ("Unmount finished", says the line before it).
\* A stat that fails can hide a mount, so the claim is about runs without one.
NeverRemovesMounted ==
    faults = 0 => \A t \in Threads : loc[t].pc = "rmdir" => ~Mounted(loc[t].target)

\* A call that runs mkfs does so on a volume that has no file system: the format
\* it read before is not stale, whichever calls ran or were cut short meanwhile.
NeverReformats == \A t \in Threads : loc[t].pc = "mkfs" => format = ""

\* After an OK unstage the node has no device of the volume left, so that the
\* volume can be unmapped: neither the multipath device nor one of its paths,
\* whichever steps of the calls before it failed or were cut short.  Two cases are
\* left out: a stage that overlaps the unstage brings them back, and an unstage whose
\* lookup of the multipath device came to nothing (promise.missed) is answered OK
\* with every device still there.
UnstagedClean ==
    ~overlap /\ promise.unstaged /\ ~promise.missed => mpath = 0 /\ \A p \in Paths : sd[p] = 0

\* The targets that were answered as published show the volume.
PublishedStays ==
    \A x \in promise.published : Mounted(x) /\ Last(mounts[x]) = "volume"

\* A target that was answered as published shows the volume until its release is
\* asked for, whichever commands failed on the way, if the orchestrator waits for
\* the calls that a new one depends on.  For a raw block volume only if no command
\* failed: the file that a bind mount failed on is taken for the volume.
MountedStays == ~overlap /\ (block => faults = 0) => PublishedStays

\* After an OK expansion the device, and the file system on it if it is one that
\* the plugin grows, have at least the size the volume had on the array when the
\* call arrived.
ExpandedWhenOk ==
    /\ mpath # 0 => mpath >= promise.expanded
    /\ format \in Growable => fsSize >= promise.expanded

\* What the per-volume lock of sync_lock.go is for: one call at a time works on the
\* volume, no file system is made over another, no mounted target is removed.
LockProtects == TypeOK /\ LockHeldByOne /\ NeverReformats /\ NeverRemovesMounted
=============================================================================
