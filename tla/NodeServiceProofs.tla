-------------------------- MODULE NodeServiceProofs --------------------------
(***************************************************************************)
(* The safety of NodeService for any number of goroutines, targets, paths, *)
(* calls, failures and restarts.                                           *)
(***************************************************************************)
EXTENDS NodeService, FiniteSetTheorems, TLAPS

StepsOf == [none      |-> {"idle"},
            stage     |-> {"lock", "rescan", "mpath", "done", "format", "staged", "mkfs", "mountfs"},
            unstage   |-> {"lock", "unmount", "mpath", "slaves", "flush", "delete"},
            publish   |-> {"lock", "target", "mkdir", "mpath", "mount"},
            unpublish |-> {"lock", "check", "umount", "rmdir"},
            expand    |-> {"lock", "mpath", "slaves", "grow", "resize", "growfs"}]
Ops == {"none", "stage", "unstage", "publish", "unpublish", "expand"}

\* What the volume may be formatted with.
Fs == Formats \cup FsTypes \cup {"", "ext4"}

\* A goroutine: its step is one of its call's, and a call on a target names one.
Locs == {l \in [pc : Steps, op : Ops, target : Targets \cup {"none"}, fs : Fs, found : Fs,
                devs : SUBSET Paths, want : Nat] :
           /\ l.pc \in StepsOf[l.op]
           /\ l.op \in {"publish", "unpublish"} => l.target \in Targets
           /\ l.pc = "idle" => l = Idle}

Promises == [staged : BOOLEAN, unstaged : BOOLEAN, missed : BOOLEAN,
             published : SUBSET Targets, asked : SUBSET Targets,
             released : SUBSET Targets, expanded : Nat]

\* The node's state, with what each part of it has to do with the others.
NodeTyped ==
    /\ block \in Blocks /\ block \in BOOLEAN /\ overlap \in Overlaps /\ overlap \in BOOLEAN
    /\ sd \in [Paths -> 0..MaxSize] /\ mpath \in 0..MaxSize /\ size \in 1..MaxSize
    /\ format \in Fs /\ fsSize \in 0..MaxSize /\ staging \in BOOLEAN
    /\ present \subseteq Targets /\ mounts \in [Targets -> Seq(Mounts)]
    /\ promise \in Promises
    /\ faults \in Nat
    /\ mpath # 0 => \E p \in Paths : sd[p] # 0
    /\ \A x \in Targets : Mounted(x) => x \in present
    /\ faults = 0 => \A x \in Targets : Len(mounts[x]) <= 1

\* The sizes keep up with what was promised.
Grown ==
    /\ promise.expanded <= size
    /\ \A p \in Paths : sd[p] # 0 => sd[p] >= promise.expanded
    /\ ExpandedWhenOk

\* Is a goroutine past AddVolumeLock?
Holds(l) == l.pc \notin {"idle", "lock"}

\* The lock is held by one goroutine or by none.
Held ==
    /\ loc \in [Threads -> Locs]
    /\ lock \in BOOLEAN
    /\ lock <=> \E t \in Threads : Holds(loc[t])
    /\ \A t, u \in Threads : Holds(loc[t]) /\ Holds(loc[u]) => t = u

\* What the holder of the lock knows of the node: what its earlier commands read
\* or made is still so.
Knows(l) ==
    /\ l.want <= size
    /\ l.pc = "delete" => mpath = 0
    /\ l.pc \in {"flush", "delete"} => \A p \in Paths : sd[p] # 0 => p \in l.devs
    /\ l.pc = "grow" => \A p \in Paths : sd[p] # 0 /\ p \notin l.devs => sd[p] >= l.want
    /\ l.pc \in {"resize", "growfs"} => \A p \in Paths : sd[p] # 0 => sd[p] >= l.want
    /\ l.pc = "growfs" => mpath # 0 /\ mpath >= l.want
    /\ l.pc \in {"done", "format", "staged", "mkfs", "mountfs"} => mpath # 0
    /\ l.pc = "done" => block
    /\ l.pc = "staged" => l.found = format
    /\ l.pc = "mkfs" => format = ""
    /\ l.op = "publish" /\ l.pc \in {"mpath", "mount"} => l.target \in present
    /\ faults = 0 /\ l.op = "publish" /\ l.pc \in {"mkdir", "mpath", "mount"} => ~Mounted(l.target)
    /\ faults = 0 /\ l.pc = "rmdir" => ~Mounted(l.target)

Known == \A t \in Threads : Knows(loc[t])

\* What the orchestrator asked for and was told fits the calls that run.  If it
\* waits for the calls that a new one depends on, an unstage runs alone.
Asking ==
    /\ promise.published \subseteq promise.asked \ promise.released
    /\ \A t \in Threads :
         /\ loc[t].op = "unpublish" => loc[t].target \in promise.released
         /\ loc[t].op = "publish" => loc[t].target \in promise.asked \cup promise.released
    /\ ~overlap /\ promise.unstaged =>
         ~promise.staged /\ promise.asked = {} /\ \A t \in Threads : loc[t].op \in {"none", "unstage"}
    /\ ~overlap => \A t, u \in Threads : loc[t].op = "unstage" =>
         ~promise.staged /\ promise.asked = {} /\ (u = t \/ loc[u].op = "none")

\* What is told as staged is mounted on the staging path while calls rely on it.
StagedStays ==
    ~overlap /\ ~block => /\ promise.staged => staging
                          /\ \A t \in Threads : loc[t].op = "publish" => staging

\* Nothing but the volume is mounted on a target, and what is told as published is.
Shown ==
    ~overlap => /\ \A x \in Targets : \A i \in 1..Len(mounts[x]) : mounts[x][i] = "volume"
                /\ (block => faults = 0) => \A x \in promise.published : Mounted(x)

\* The inductive invariant.
IInv == NodeTyped /\ Grown /\ Held /\ Known /\ Asking /\ UnstagedClean /\ StagedStays /\ Shown

-----------------------------------------------------------------------------
(***************************************************************************)
(* What every step of a call does to the goroutines and to the promises.   *)
(***************************************************************************)

\* The goroutine that does nothing.
LEMMA IdleIs == Idle \in Locs /\ Idle.pc = "idle" /\ Idle.op = "none" /\ Idle.want = 0 /\ ~Holds(Idle)
  BY DEF Idle, Locs, Steps, Ops, Fs, StepsOf, Holds

\* The answer changes what it is about.
LEMMA ToldIs ==
  ASSUME promise \in Promises, NEW l \in Locs, l.op # "none"
  PROVE  /\ Told(l) \in Promises
         /\ Told(l).staged = (promise.staged \/ l.op = "stage")
         /\ Told(l).unstaged = (promise.unstaged \/ l.op = "unstage")
         /\ Told(l).missed = IF l.op = "unstage" THEN FALSE ELSE promise.missed
         /\ Told(l).published = IF l.op = "publish" /\ l.target \notin promise.released
                                  THEN promise.published \cup {l.target} ELSE promise.published
         /\ Told(l).asked = IF l.op = "unpublish" THEN promise.asked \ {l.target} ELSE promise.asked
         /\ Told(l).released = promise.released
         /\ Told(l).expanded = IF l.op = "expand" /\ l.want > promise.expanded
                                 THEN l.want ELSE promise.expanded
  <1>1. l.op \in Ops /\ l.want \in Nat /\ (l.op \in {"publish", "unpublish"} => l.target \in Targets)
    BY DEF Locs
  <1>2. CASE l.op = "stage"
    BY <1>2 DEF Told, Promises
  <1>3. CASE l.op = "unstage"
    BY <1>3 DEF Told, Promises
  <1>4. CASE l.op = "publish"
    BY <1>1, <1>4 DEF Told, Promises
  <1>5. CASE l.op = "unpublish"
    BY <1>5 DEF Told, Promises
  <1>6. CASE l.op = "expand"
    BY <1>1, <1>6 DEF Told, Promises
  <1> QED
    BY <1>1, <1>2, <1>3, <1>4, <1>5, <1>6 DEF Ops

\* The holder of the lock goes on with record l; nobody else holds it.
LEMMA Moves ==
  ASSUME IInv, NEW t \in Threads, Holds(loc[t]), NEW l \in Locs, Holds(l), Go(t, l), lock' = lock,
         Knows(l)', size' = size
  PROVE  Held' /\ Known' /\ \A u \in Threads : loc'[u] = IF u = t THEN l ELSE loc[u]
  <1>1. \A u \in Threads : loc'[u] = IF u = t THEN l ELSE loc[u]
    BY DEF IInv, Held, Go
  <1>2. Held'
    BY <1>1 DEF IInv, Held, Go
  <1>3. ASSUME NEW u \in Threads, u # t PROVE Knows(loc[u])'
    <2>1. ~Holds(loc[u]) /\ loc'[u] = loc[u] /\ loc[u] \in Locs
      BY <1>1, <1>3 DEF IInv, Held
    <2>2. loc[u].pc \in {"idle", "lock"} /\ loc[u].want <= size
      BY <2>1 DEF Holds, IInv, Known, Knows
    <2> QED
      BY <2>1, <2>2 DEF Knows
  <1>4. Knows(loc[t])'
    BY <1>1, ZenonT(30) DEF Knows
  <1> QED
    BY <1>1, <1>2, <1>3, <1>4 DEF Known

\* The holder of the lock returns.
LEMMA Returns ==
  ASSUME IInv, NEW t \in Threads, Holds(loc[t]), Go(t, Idle), lock' = FALSE, size' = size
  PROVE  Held' /\ Known' /\ \A u \in Threads : loc'[u] = IF u = t THEN Idle ELSE loc[u]
  <1>1. \A u \in Threads : loc'[u] = IF u = t THEN Idle ELSE loc[u]
    BY DEF IInv, Held, Go
  <1>2. Held'
    BY <1>1, IdleIs DEF IInv, Held, Go
  <1>3. ASSUME NEW u \in Threads PROVE Knows(loc[u])'
    <2>1. loc'[u].pc \in {"idle", "lock"} /\ loc'[u].want <= size
      <3>1. CASE u = t
        BY <1>1, <3>1, IdleIs DEF IInv, NodeTyped
      <3>2. CASE u # t
        <4>1. ~Holds(loc[u]) /\ loc'[u] = loc[u]
          BY <1>1, <3>2 DEF IInv, Held
        <4> QED
          BY <4>1 DEF Holds, IInv, Known, Knows
      <3> QED
        BY <3>1, <3>2
    <2> QED
      BY <2>1 DEF Knows
  <1> QED
    BY <1>1, <1>2, <1>3 DEF Known

\* A call that goes on, as the same call, asks for and promises nothing new.
LEMMA MovesAsking ==
  ASSUME IInv, NEW t \in Threads, NEW l, l.op = loc[t].op, l.target = loc[t].target,
         \A u \in Threads : loc'[u] = IF u = t THEN l ELSE loc[u],
         UNCHANGED <<promise, overlap>>
  PROVE  Asking' /\ \A u \in Threads : loc'[u].op = loc[u].op
  BY DEF IInv, Asking

\* A call that fails leaves the promises as they are.
LEMMA FailsAsking ==
  ASSUME IInv, NEW t \in Threads,
         \A u \in Threads : loc'[u] = IF u = t THEN Idle ELSE loc[u],
         UNCHANGED <<promise, overlap>>
  PROVE  Asking'
  BY IdleIs DEF IInv, Asking

\* A call that succeeds makes its own promise.
LEMMA SucceedsAsking ==
  ASSUME IInv, NEW t \in Threads, loc[t].op # "none",
         \A u \in Threads : loc'[u] = IF u = t THEN Idle ELSE loc[u],
         promise' = Told(loc[t]), UNCHANGED overlap
  PROVE  Asking'
  <1> DEFINE l == loc[t]
  <1>1. l \in Locs /\ promise \in Promises
    BY DEF IInv, Held, NodeTyped
  <1>2. /\ promise'.staged = (promise.staged \/ l.op = "stage")
        /\ promise'.unstaged = (promise.unstaged \/ l.op = "unstage")
        /\ promise'.missed = IF l.op = "unstage" THEN FALSE ELSE promise.missed
        /\ promise'.published = IF l.op = "publish" /\ l.target \notin promise.released
                                  THEN promise.published \cup {l.target} ELSE promise.published
        /\ promise'.asked = IF l.op = "unpublish" THEN promise.asked \ {l.target} ELSE promise.asked
        /\ promise'.released = promise.released
    BY <1>1, ToldIs
  <1>3. \A u \in Threads : loc'[u].op = IF u = t THEN "none" ELSE loc[u].op
    BY IdleIs
  <1>4. promise'.published \subseteq promise'.asked \ promise'.released
    BY <1>2 DEF IInv, Asking
  <1>5. \A u \in Threads :
          /\ loc'[u].op = "unpublish" => loc'[u].target \in promise'.released
          /\ loc'[u].op = "publish" => loc'[u].target \in promise'.asked \cup promise'.released
    BY <1>2, <1>3 DEF IInv, Asking
  <1>6. ~overlap /\ promise'.unstaged =>
          /\ ~promise'.staged /\ promise'.asked = {}
          /\ \A u \in Threads : loc'[u].op \in {"none", "unstage"}
    BY <1>2, <1>3 DEF IInv, Asking
  <1>7. ~overlap => \A v, u \in Threads : loc'[v].op = "unstage" =>
          ~promise'.staged /\ promise'.asked = {} /\ (u = v \/ loc'[u].op = "none")
    BY <1>2, <1>3 DEF IInv, Asking
  <1> QED
    BY <1>4, <1>5, <1>6, <1>7 DEF Asking

\* The holder goes on: what is left to show is about the node.
LEMMA GoesOn ==
  ASSUME IInv, NEW t \in Threads, Holds(loc[t]), NEW l \in Locs, Holds(l),
         l.op = loc[t].op, l.target = loc[t].target, Go(t, l),
         UNCHANGED <<lock, promise, size, overlap, block>>,
         Knows(l)', NodeTyped', Grown', UnstagedClean', Shown',
         staging' = staging \/ loc[t].op = "unstage"
  PROVE  IInv'
  <1>1. Held' /\ Known' /\ \A u \in Threads : loc'[u] = IF u = t THEN l ELSE loc[u]
    BY Moves
  <1>2. Asking' /\ \A u \in Threads : loc'[u].op = loc[u].op
    BY <1>1, MovesAsking
  <1>3. StagedStays'
    BY <1>2 DEF IInv, StagedStays, Asking
  <1> QED
    BY <1>1, <1>2, <1>3 DEF IInv

\* The holder returns an error.
LEMMA FailStep ==
  ASSUME IInv, NEW t \in Threads, Holds(loc[t]), Fail(t),
         UNCHANGED <<size, overlap, block, staging>>,
         NodeTyped', Grown', UnstagedClean', Shown'
  PROVE  IInv'
  <1>1. Held' /\ Known' /\ \A u \in Threads : loc'[u] = IF u = t THEN Idle ELSE loc[u]
    BY Returns DEF Fail
  <1>2. Asking'
    BY <1>1, FailsAsking DEF Fail
  <1>3. StagedStays'
    BY <1>1, IdleIs DEF IInv, StagedStays, Fail
  <1> QED
    BY <1>1, <1>2, <1>3 DEF IInv

\* The holder returns OK.
LEMMA SucceedStep ==
  ASSUME IInv, NEW t \in Threads, Holds(loc[t]), Succeed(t),
         UNCHANGED <<size, overlap, block>>,
         staging' = staging \/ staging', loc[t].op = "stage" /\ ~block => staging',
         NodeTyped', Grown', UnstagedClean', Shown'
  PROVE  IInv'
  <1>1. Held' /\ Known' /\ \A u \in Threads : loc'[u] = IF u = t THEN Idle ELSE loc[u]
    BY Returns DEF Succeed
  <1>2. loc[t] \in Locs /\ loc[t].op # "none" /\ promise \in Promises
    BY DEF IInv, Held, NodeTyped, Holds, Locs, StepsOf
  <1>3. Asking'
    BY <1>1, <1>2, SucceedsAsking DEF Succeed
  <1>4. promise'.staged = (promise.staged \/ loc[t].op = "stage")
    BY <1>2, ToldIs DEF Succeed
  <1>5. StagedStays'
    BY <1>1, <1>4, IdleIs DEF IInv, StagedStays
  <1> QED
    BY <1>1, <1>3, <1>5 DEF IInv

\* The node and the promises stay as they are.
LEMMA NodeKept ==
  ASSUME IInv, UNCHANGED <<osVars, promise>>, faults' = faults \/ faults' = faults + 1
  PROVE  NodeTyped' /\ Grown' /\ UnstagedClean' /\ Shown'
  <1>1. \A x : Mounted(x)' = Mounted(x)
    BY DEF osVars, Mounted
  <1>2. NodeTyped'
    BY <1>1 DEF IInv, NodeTyped, osVars
  <1>3. Grown' /\ UnstagedClean'
    BY DEF IInv, Grown, UnstagedClean, ExpandedWhenOk, osVars
  <1>4. (block => faults' = 0) => (block => faults = 0)
    BY DEF IInv, NodeTyped
  <1>5. Shown'
    BY <1>1, <1>4 DEF IInv, Shown, osVars
  <1> QED
    BY <1>2, <1>3, <1>5

\* A call that changed nothing answers OK: what it promises was so.
LEMMA NodeTold ==
  ASSUME IInv, NEW t \in Threads, loc[t].op # "none", promise' = Told(loc[t]),
         UNCHANGED osVars, faults' = faults \/ faults' = faults + 1,
         loc[t].op # "expand",
         loc[t].op = "unstage" => mpath = 0 /\ \A p \in Paths : sd[p] = 0,
         loc[t].op = "publish" => Mounted(loc[t].target) \/ (block /\ faults' # 0)
  PROVE  NodeTyped' /\ Grown' /\ UnstagedClean' /\ Shown'
  <1> DEFINE l == loc[t]
  <1>1. l \in Locs /\ promise \in Promises
    BY DEF IInv, Held, NodeTyped
  <1>2. /\ promise' \in Promises
        /\ promise'.unstaged = (promise.unstaged \/ l.op = "unstage")
        /\ promise'.missed = IF l.op = "unstage" THEN FALSE ELSE promise.missed
        /\ promise'.published = IF l.op = "publish" /\ l.target \notin promise.released
                                  THEN promise.published \cup {l.target} ELSE promise.published
        /\ promise'.expanded = promise.expanded
    BY <1>1, ToldIs
  <1>3. \A x : Mounted(x)' = Mounted(x)
    BY DEF osVars, Mounted
  <1>4. NodeTyped'
    BY <1>2, <1>3 DEF IInv, NodeTyped, osVars
  <1>5. Grown' /\ UnstagedClean'
    BY <1>2 DEF IInv, Grown, UnstagedClean, ExpandedWhenOk, osVars
  <1>6. (block => faults' = 0) => (block => faults = 0)
    BY DEF IInv, NodeTyped
  <1>7. Shown'
    BY <1>2, <1>3, <1>6 DEF IInv, Shown, osVars
  <1> QED
    BY <1>4, <1>5, <1>7

\* The record of a goroutine, and the step it may go to.
LEMMA LocIs ==
  ASSUME IInv, NEW t \in Threads
  PROVE  /\ loc[t] \in Locs /\ loc[t].op \in Ops /\ loc[t].pc \in StepsOf[loc[t].op]
         /\ loc[t].devs \in SUBSET Paths /\ loc[t].want \in Nat /\ loc[t].fs \in Fs
         /\ loc[t].op \in {"publish", "unpublish"} => loc[t].target \in Targets
         /\ Knows(loc[t])
  BY DEF IInv, Held, Locs, Known

\* A goroutine that goes to step s with the devices ds still to do.
Step(l, s, ds) == [l EXCEPT !.pc = s, !.devs = ds]

\* It is the same call.
LEMMA Stepped ==
  ASSUME NEW l \in Locs, NEW s \in StepsOf[l.op], s \notin {"idle", "lock"}, NEW ds \in SUBSET Paths,
         NEW m, m = Step(l, s, ds)
  PROVE  /\ m \in Locs /\ Holds(m) /\ m.pc = s /\ m.devs = ds
         /\ m.op = l.op /\ m.target = l.target /\ m.fs = l.fs /\ m.found = l.found /\ m.want = l.want
  <1>1. l.op \in Ops /\ s \in Steps
    BY DEF Locs, Ops, StepsOf, Steps
  <1>2. /\ m \in [pc : Steps, op : Ops, target : Targets \cup {"none"}, fs : Fs, found : Fs,
                  devs : SUBSET Paths, want : Nat]
        /\ m.pc = s /\ m.devs = ds /\ m.op = l.op /\ m.target = l.target /\ m.fs = l.fs
        /\ m.found = l.found /\ m.want = l.want
    BY <1>1 DEF Locs, Step
  <1> QED
    BY <1>2 DEF Locs, Holds

\* A step to the next command.
LEMMA ToIs ==
  ASSUME IInv, NEW t \in Threads, NEW s \in StepsOf[loc[t].op], s \notin {"idle", "lock"}, To(t, s)
  PROVE  /\ UNCHANGED <<lock, promise>>
         /\ \E m \in Locs : /\ Go(t, m) /\ Holds(m) /\ m.pc = s /\ m.devs = loc[t].devs
                            /\ m.op = loc[t].op /\ m.target = loc[t].target /\ m.fs = loc[t].fs
                            /\ m.found = loc[t].found /\ m.want = loc[t].want
  <1>1. loc[t] \in Locs /\ loc[t].devs \in SUBSET Paths
    BY LocIs
  <1>2. [loc[t] EXCEPT !.pc = s] = Step(loc[t], s, loc[t].devs)
    BY <1>1 DEF Locs, Step
  <1>3. PICK m : m = Step(loc[t], s, loc[t].devs)
    OBVIOUS
  <1>4. /\ m \in Locs /\ Holds(m) /\ m.pc = s /\ m.devs = loc[t].devs
        /\ m.op = loc[t].op /\ m.target = loc[t].target /\ m.fs = loc[t].fs
        /\ m.found = loc[t].found /\ m.want = loc[t].want
    BY <1>1, <1>3, Stepped
  <1>5. Go(t, m) /\ UNCHANGED <<lock, promise>>
    BY <1>2, <1>3 DEF To
  <1> QED
    BY <1>4, <1>5

-----------------------------------------------------------------------------
(***************************************************************************)
(* Every action preserves the inductive invariant.                         *)
(***************************************************************************)

\* A command that only reads, and goes on to one whose start it has checked.
LEMMA ReadStep ==
  ASSUME IInv, NEW t \in Threads, Holds(loc[t]), NEW s \in StepsOf[loc[t].op], s \notin {"idle", "lock"},
         To(t, s), UNCHANGED osVars, faults' = faults \/ faults' = faults + 1,
         s \notin {"flush", "delete", "grow", "resize", "growfs", "staged"},
         s \in {"done", "format", "mkfs", "mountfs"} => mpath # 0,
         s = "done" => block,
         s = "mkfs" => format = "",
         loc[t].op = "publish" /\ s \in {"mpath", "mount"} => loc[t].target \in present,
         faults' = 0 /\ loc[t].op = "publish" /\ s \in {"mkdir", "mpath", "mount"} => ~Mounted(loc[t].target),
         faults' = 0 /\ s = "rmdir" => ~Mounted(loc[t].target)
  PROVE  IInv'
  <1>1. PICK m \in Locs : /\ Go(t, m) /\ Holds(m) /\ m.pc = s /\ m.op = loc[t].op
                          /\ m.target = loc[t].target /\ m.want = loc[t].want
    BY ToIs, ZenonT(30)
  <1>2. UNCHANGED <<lock, promise>>
    BY ToIs
  <1>3. Knows(loc[t])
    BY LocIs
  <1>4. Mounted(m.target)' = Mounted(loc[t].target)
    BY <1>1 DEF osVars, Mounted
  <1>5. Knows(m)'
    BY <1>1, <1>3, <1>4 DEF Knows, osVars
  <1> QED
    BY <1>1, <1>2, <1>5, GoesOn, NodeKept DEF osVars

\* Acquire: an ABORTED call changes nothing, the one that gets the lock is alone.
LEMMA AcquireIInv == ASSUME IInv, NEW t \in Threads, Acquire(t) PROVE IInv'
  <1>1. loc[t].pc = "lock" /\ loc[t] \in Locs /\ UNCHANGED osVars /\ faults' = faults /\ UNCHANGED promise
    BY LocIs DEF Acquire, OsUnchanged, bounds
  <1>2. NodeTyped' /\ Grown' /\ UnstagedClean' /\ Shown'
    BY <1>1, NodeKept
  <1>3. Knows(loc[t]) /\ ~Holds(loc[t]) /\ loc[t].op \in Ops \ {"none"}
    BY <1>1, LocIs DEF Holds, StepsOf, Ops
  <1>4. CASE lock
    <2>1. \A u \in Threads : loc'[u] = IF u = t THEN Idle ELSE loc[u]
      BY <1>4 DEF Acquire, Go, IInv, Held
    <2>2. Held'
      BY <1>3, <1>4, <2>1, IdleIs DEF Acquire, Go, IInv, Held
    <2>3. Known'
      <3>1. ASSUME NEW u \in Threads, u # t PROVE Knows(loc[u])'
        <4>1. Knows(loc[u]) /\ loc'[u] = loc[u]
          BY <2>1, <3>1 DEF IInv, Known
        <4> QED
          BY <1>1, <4>1, ZenonT(30) DEF Knows, Mounted, osVars
      <3>2. Knows(loc[t])'
        <4>1. loc'[t].pc = "idle" /\ loc'[t].want = 0 /\ loc'[t].op = "none" /\ size \in Nat
          BY <2>1, IdleIs DEF IInv, NodeTyped
        <4> QED
          BY <1>1, <4>1 DEF Knows, osVars
      <3> QED
        BY <3>1, <3>2 DEF Known
    <2>4. Asking'
      BY <1>1, <2>1, FailsAsking DEF osVars
    <2>5. StagedStays'
      BY <1>1, <2>1, IdleIs DEF IInv, StagedStays, osVars
    <2> QED
      BY <1>2, <2>2, <2>3, <2>4, <2>5 DEF IInv
  <1>5. CASE ~lock
    <2> DEFINE ds == IF loc[t].op = "stage" THEN Paths ELSE {}
               s  == FirstStep[loc[t].op]
    <2>1. PICK m : m = Step(loc[t], s, ds)
      OBVIOUS
    <2>2. s \in StepsOf[loc[t].op] /\ s \in {"rescan", "unmount", "target", "check", "mpath"}
          /\ (loc[t].op = "publish" => s = "target")
      BY <1>3 DEF FirstStep, StepsOf, Ops
    <2>3. /\ m \in Locs /\ Holds(m) /\ m.pc = s
          /\ m.op = loc[t].op /\ m.target = loc[t].target /\ m.want = loc[t].want
      <3>1. ds \in SUBSET Paths /\ s \notin {"idle", "lock"}
        BY <2>2
      <3> HIDE DEF ds, s
      <3> QED
        BY <1>1, <2>1, <2>2, <3>1, Stepped
    <2>4. lock' = TRUE /\ Go(t, m)
      BY <1>5, <2>1 DEF Acquire, Begin, Step
    <2> HIDE DEF s
    <2>5. \A u \in Threads : loc'[u] = IF u = t THEN m ELSE loc[u]
      BY <2>4 DEF Go, IInv, Held
    <2>6. Held'
      BY <1>5, <2>3, <2>4, <2>5 DEF IInv, Held, Go
    <2>7. Knows(m)'
      BY <1>1, <1>3, <2>2, <2>3 DEF Knows, osVars
    <2>8. ASSUME NEW u \in Threads, u # t PROVE Knows(loc[u])'
      <3>1. Knows(loc[u]) /\ loc'[u] = loc[u]
        BY <2>5, <2>8 DEF IInv, Known
      <3> QED
        BY <1>1, <3>1, ZenonT(30) DEF Knows, Mounted, osVars
    <2>9. Known'
      BY <2>5, <2>7, <2>8 DEF Known, Knows
    <2>10. Asking' /\ \A u \in Threads : loc'[u].op = loc[u].op
      BY <1>1, <2>3, <2>5, MovesAsking DEF osVars
    <2>11. StagedStays'
      BY <1>1, <2>10 DEF IInv, StagedStays, osVars
    <2> QED
      BY <1>2, <2>6, <2>9, <2>10, <2>11 DEF IInv
  <1> QED
    BY <1>4, <1>5

\* A command on one scsi device: its size becomes v, and it is one less to do.
LEMMA DeviceStep ==
  ASSUME IInv, NEW t \in Threads, loc[t].pc \in {"rescan", "delete", "grow"},
         NEW p \in loc[t].devs, NEW v \in 0..MaxSize, sd' = [sd EXCEPT ![p] = v], Frame("sd"),
         Go(t, [loc[t] EXCEPT !.devs = @ \ {p}]), UNCHANGED <<lock, promise>>,
         v # 0 => v >= promise.expanded,
         mpath # 0 => v # 0,
         ~overlap /\ promise.unstaged => v = 0,
         loc[t].pc = "grow" => v >= loc[t].want,
         loc[t].pc = "delete" => v = 0
  PROVE  IInv'
  <1>1. /\ loc[t] \in Locs /\ loc[t].pc \in StepsOf[loc[t].op] /\ Knows(loc[t])
        /\ loc[t].devs \in SUBSET Paths /\ p \in Paths /\ loc[t].want \in Nat
    BY LocIs
  <1>2. PICK m : m = Step(loc[t], loc[t].pc, loc[t].devs \ {p})
    OBVIOUS
  <1>3. /\ m \in Locs /\ Holds(m) /\ m.pc = loc[t].pc /\ m.devs = loc[t].devs \ {p}
        /\ m.op = loc[t].op /\ m.target = loc[t].target /\ m.want = loc[t].want
    <2>1. loc[t].devs \ {p} \in SUBSET Paths /\ loc[t].pc \notin {"idle", "lock"}
      BY <1>1
    <2> QED
      BY <1>1, <1>2, <2>1, Stepped
  <1>4. Go(t, m)
    <2>1. [loc[t] EXCEPT !.devs = @ \ {p}] = Step(loc[t], loc[t].pc, loc[t].devs \ {p})
      BY <1>1 DEF Step, Locs
    <2> QED
      BY <1>2, <2>1
  <1>5. UNCHANGED <<mpath, format, fsSize, staging, present, mounts, block, overlap, size, faults>>
    BY DEF Frame, bounds
  <1>6. \A q \in Paths : sd'[q] = IF q = p THEN v ELSE sd[q]
    BY DEF IInv, NodeTyped
  <1>7. \A x : Mounted(x)' = Mounted(x)
    BY <1>5 DEF Mounted
  <1>8. NodeTyped'
    BY <1>1, <1>5, <1>6, <1>7 DEF IInv, NodeTyped
  <1>9. Grown' /\ UnstagedClean'
    BY <1>5, <1>6 DEF IInv, Grown, UnstagedClean, ExpandedWhenOk
  <1>10. Shown'
    BY <1>5, <1>7 DEF IInv, Shown
  <1>11. Knows(m)'
    BY <1>1, <1>3, <1>5, <1>6 DEF Knows
  <1> QED
    BY <1>3, <1>4, <1>5, <1>8, <1>9, <1>10, <1>11, GoesOn DEF Holds

\* RescanDevices.
LEMMA RescanIInv == ASSUME IInv, NEW t \in Threads, Rescan(t) PROVE IInv'
  <1>1. /\ loc[t].pc = "rescan" /\ loc[t].op = "stage" /\ Holds(loc[t]) /\ loc[t].op \in Ops
        /\ {"rescan", "mpath"} \subseteq StepsOf[loc[t].op]
    <2>1. loc[t].pc = "rescan"
      BY DEF Rescan
    <2>2. loc[t].op = "stage"
      BY <2>1, LocIs DEF Ops, StepsOf
    <2> QED
      BY <2>1, <2>2 DEF Holds, Ops, StepsOf
  <1>2. CASE To(t, "mpath") /\ UNCHANGED sd
    <2>1. UNCHANGED osVars /\ faults' = faults
      BY <1>2 DEF Rescan, Frame, osVars, bounds
    <2> QED
      BY <1>1, <1>2, <2>1, ReadStep
  <1>3. CASE \E p \in loc[t].devs : /\ sd' = [sd EXCEPT ![p] = IF @ = 0 THEN size ELSE @]
                                    /\ Go(t, [loc[t] EXCEPT !.devs = @ \ {p}])
                                    /\ UNCHANGED <<lock, promise>>
    <2>1. PICK p \in loc[t].devs : /\ sd' = [sd EXCEPT ![p] = IF @ = 0 THEN size ELSE @]
                                   /\ Go(t, [loc[t] EXCEPT !.devs = @ \ {p}])
                                   /\ UNCHANGED <<lock, promise>>
      BY <1>3
    <2>2. PICK v : v = IF sd[p] = 0 THEN size ELSE sd[p]
      OBVIOUS
    <2>3. p \in Paths /\ v \in 1..MaxSize /\ v # 0 /\ v \in 0..MaxSize
      BY <2>2, LocIs DEF IInv, NodeTyped
    <2>4. v >= promise.expanded
      BY <2>2, <2>3 DEF IInv, Grown
    <2>5. ~(~overlap /\ promise.unstaged)
      BY <1>1 DEF IInv, Asking
    <2>6. sd' = [sd EXCEPT ![p] = v] /\ Frame("sd")
      BY <2>1, <2>2 DEF Rescan
    <2> QED
      BY <1>1, <2>1, <2>3, <2>4, <2>5, <2>6, DeviceStep
  <1> QED
    BY <1>2, <1>3 DEF Rescan

\* RemovePhysicalDevice.
LEMMA DeletePathIInv == ASSUME IInv, NEW t \in Threads, DeletePath(t) PROVE IInv'
  <1>1. /\ loc[t].pc = "delete" /\ loc[t].op = "unstage" /\ Holds(loc[t]) /\ mpath = 0
        /\ \A p \in Paths : sd[p] # 0 => p \in loc[t].devs
    <2>1. loc[t].pc = "delete"
      BY DEF DeletePath
    <2>2. loc[t].op = "unstage"
      BY <2>1, LocIs DEF Ops, StepsOf
    <2>3. Knows(loc[t])
      BY LocIs
    <2> QED
      BY <2>1, <2>2, <2>3 DEF Holds, Knows
  <1>2. CASE loc[t].devs = {} /\ Succeed(t) /\ UNCHANGED sd
    <2>1. UNCHANGED osVars /\ faults' = faults
      BY <1>2 DEF DeletePath, Frame, osVars, bounds
    <2>2. NodeTyped' /\ Grown' /\ UnstagedClean' /\ Shown'
      BY <1>1, <1>2, <2>1, NodeTold DEF Succeed
    <2> QED
      BY <1>1, <1>2, <2>1, <2>2, SucceedStep DEF osVars
  <1>3. CASE \E p \in loc[t].devs : /\ sd' = [sd EXCEPT ![p] = 0]
                                    /\ Go(t, [loc[t] EXCEPT !.devs = @ \ {p}])
                                    /\ UNCHANGED <<lock, promise>>
    <2>1. 0 \in 0..MaxSize /\ Frame("sd")
      BY NodeAssumption DEF DeletePath
    <2> QED
      BY <1>1, <1>3, <2>1, DeviceStep
  <1> QED
    BY <1>2, <1>3 DEF DeletePath

\* RescanPhysicalDevices.
LEMMA RescanPathIInv == ASSUME IInv, NEW t \in Threads, RescanPath(t) PROVE IInv'
  <1>1. /\ loc[t].pc = "grow" /\ loc[t].op = "expand" /\ Holds(loc[t]) /\ Knows(loc[t])
        /\ "resize" \in StepsOf[loc[t].op] /\ loc[t].want \in Nat
    <2>1. loc[t].pc = "grow"
      BY DEF RescanPath
    <2>2. loc[t].op = "expand"
      BY <2>1, LocIs DEF Ops, StepsOf
    <2> QED
      BY <2>1, <2>2, LocIs DEF Holds, StepsOf
  <1>2. CASE loc[t].devs = {} /\ To(t, "resize") /\ UNCHANGED sd
    <2>1. UNCHANGED osVars /\ faults' = faults
      BY <1>2 DEF RescanPath, Frame, osVars, bounds
    <2>2. PICK m \in Locs : /\ Go(t, m) /\ Holds(m) /\ m.pc = "resize" /\ m.op = loc[t].op
                            /\ m.target = loc[t].target /\ m.want = loc[t].want
      BY <1>1, <1>2, ToIs
    <2>3. UNCHANGED <<lock, promise>>
      BY <1>1, <1>2, ToIs
    <2>4. Knows(m)'
      BY <1>1, <1>2, <2>1, <2>2 DEF Knows, osVars
    <2> QED
      BY <1>1, <2>1, <2>2, <2>3, <2>4, GoesOn, NodeKept DEF osVars
  <1>3. CASE \E p \in loc[t].devs : /\ sd' = [sd EXCEPT ![p] = size]
                                    /\ Go(t, [loc[t] EXCEPT !.devs = @ \ {p}])
                                    /\ UNCHANGED <<lock, promise>>
    <2>1. size \in 0..MaxSize /\ size # 0 /\ Frame("sd") /\ size >= promise.expanded /\ size >= loc[t].want
      BY <1>1 DEF RescanPath, IInv, NodeTyped, Grown, Knows
    <2>2. ~(~overlap /\ promise.unstaged)
      BY <1>1 DEF IInv, Asking
    <2> QED
      BY <1>1, <1>3, <2>1, <2>2, DeviceStep
  <1> QED
    BY <1>2, <1>3 DEF RescanPath

\* A command that makes or resizes the multipath device, from one of its paths.
LEMMA MpathStep ==
  ASSUME IInv, NEW t \in Threads, Holds(loc[t]), NEW s \in StepsOf[loc[t].op],
         s \in {"done", "format", "mount", "slaves", "growfs"}, To(t, s), Frame("mpath"),
         NEW p \in Paths, sd[p] # 0, mpath' = sd[p],
         s = "done" => block,
         loc[t].op = "publish" => loc[t].pc = "mpath" /\ s = "mount",
         s = "growfs" => loc[t].pc = "resize"
  PROVE  IInv'
  <1>1. s \notin {"idle", "lock"}
    OBVIOUS
  <1>2. PICK m \in Locs : /\ Go(t, m) /\ Holds(m) /\ m.pc = s /\ m.op = loc[t].op
                          /\ m.target = loc[t].target /\ m.want = loc[t].want
    BY <1>1, ToIs
  <1>3. UNCHANGED <<lock, promise>>
    BY <1>1, ToIs
  <1>4. UNCHANGED <<sd, format, fsSize, staging, present, mounts, block, overlap, size, faults>>
    BY DEF Frame, bounds
  <1>5. \A x : Mounted(x)' = Mounted(x)
    BY <1>4 DEF Mounted
  <1>6. mpath' # 0 /\ mpath' >= promise.expanded
        /\ ~(~overlap /\ promise.unstaged /\ ~promise.missed)
    BY DEF IInv, Grown, UnstagedClean
  <1>7. NodeTyped'
    BY <1>3, <1>4, <1>5 DEF IInv, NodeTyped
  <1>8. Grown' /\ UnstagedClean'
    BY <1>3, <1>4, <1>6 DEF IInv, Grown, UnstagedClean, ExpandedWhenOk
  <1>9. Shown'
    BY <1>3, <1>4, <1>5 DEF IInv, Shown
  <1>10. Knows(loc[t])
    BY LocIs
  <1>11. Knows(m)'
    BY <1>2, <1>4, <1>5, <1>6, <1>10 DEF Knows
  <1> QED
    BY <1>2, <1>3, <1>4, <1>7, <1>8, <1>9, <1>11, GoesOn

\* GetMpathDevice.
LEMMA GetMpathDeviceIInv == ASSUME IInv, NEW t \in Threads, GetMpathDevice(t) PROVE IInv'
  <1> DEFINE l == loc[t]
             s == AfterMpath(l)
  <1>1. l.pc = "mpath" /\ Holds(l) /\ l.op \in {"stage", "unstage", "publish", "expand"} /\ Knows(l)
    <2>1. l.pc = "mpath"
      BY DEF GetMpathDevice
    <2> QED
      BY <2>1, LocIs DEF Ops, StepsOf, Holds
  <1>2. /\ s \in StepsOf[l.op] /\ s \in {"done", "format", "mount", "slaves"}
        /\ s = "done" => block
        /\ l.op = "publish" => s = "mount"
    BY <1>1 DEF AfterMpath, StepsOf
  <1> HIDE DEF s
  <1>3. CASE mpath # 0 /\ To(t, s) /\ UNCHANGED mpath
    <2>1. UNCHANGED osVars /\ faults' = faults
      BY <1>3 DEF GetMpathDevice, Frame, osVars, bounds
    <2>2. l.op = "publish" => l.target \in present /\ (faults = 0 => ~Mounted(l.target))
      BY <1>1 DEF Knows
    <2> QED
      BY <1>1, <1>2, <1>3, <2>1, <2>2, ReadStep
  <1>4. CASE mpath' \in Reloaded /\ To(t, s)
    <2>1. PICK p \in Paths : sd[p] # 0 /\ mpath' = sd[p]
      BY <1>4 DEF Reloaded
    <2>2. Frame("mpath")
      BY DEF GetMpathDevice
    <2> QED
      BY <1>1, <1>2, <1>4, <2>1, <2>2, MpathStep
  <1>5. CASE /\ mpath = 0 /\ Reloaded = {} /\ UNCHANGED mpath
             /\ IF l.op = "unstage" THEN Succeed(t) ELSE Fail(t)
    <2>1. UNCHANGED osVars /\ faults' = faults
      BY <1>5 DEF GetMpathDevice, Frame, osVars, bounds
    <2>2. \A p \in Paths : sd[p] = 0
      BY <1>5 DEF Reloaded
    <2>3. CASE l.op = "unstage"
      <3>1. NodeTyped' /\ Grown' /\ UnstagedClean' /\ Shown'
        BY <1>5, <2>1, <2>2, <2>3, NodeTold DEF Succeed
      <3> QED
        BY <1>1, <1>5, <2>1, <2>3, <3>1, SucceedStep DEF osVars
    <2>4. CASE l.op # "unstage"
      BY <1>1, <1>5, <2>1, <2>4, FailStep, NodeKept DEF osVars, Fail
    <2> QED
      BY <2>3, <2>4
  <1> QED
    BY <1>3, <1>4, <1>5 DEF GetMpathDevice, s

\* A lookup that comes to nothing.
LEMMA MpathMissedIInv == ASSUME IInv, NEW t \in Threads, MpathMissed(t) PROVE IInv'
  <1> DEFINE l == loc[t]
  <1>1. l.pc = "mpath" /\ Holds(l) /\ Go(t, Idle) /\ lock' = FALSE /\ faults' = faults + 1
    BY DEF MpathMissed, Holds
  <1>2. /\ UNCHANGED <<block, overlap, sd, format, fsSize, staging, present, mounts, size>>
        /\ \A x : Mounted(x)' = Mounted(x)
    BY DEF MpathMissed, Mounted
  <1>3. /\ promise \in Promises /\ faults \in Nat /\ mpath \in 0..MaxSize
        /\ sd \in [Paths -> 0..MaxSize]
    BY DEF IInv, NodeTyped
  <1>4. PICK p \in Paths : sd[p] # 0
    BY DEF MpathMissed, Reloaded
  <1>5. mpath' = mpath \/ mpath' = 0 \/ \E q \in Paths : sd[q] # 0 /\ mpath' = sd[q]
    BY DEF MpathMissed, Reloaded
  <1>6. mpath' \in 0..MaxSize /\ (mpath' # 0 => mpath' >= promise.expanded)
    BY <1>3, <1>5, NodeAssumption DEF IInv, Grown, ExpandedWhenOk
  <1>7. /\ promise' \in Promises
        /\ promise'.staged = promise.staged /\ promise'.published = promise.published
        /\ promise'.asked = promise.asked /\ promise'.released = promise.released
        /\ promise'.expanded = promise.expanded
        /\ promise'.unstaged = (promise.unstaged \/ l.op = "unstage")
        /\ promise'.missed = (promise.missed \/ l.op = "unstage")
    BY <1>3 DEF MpathMissed, Promises
  <1>8. Held' /\ Known' /\ \A u \in Threads : loc'[u] = IF u = t THEN Idle ELSE loc[u]
    BY <1>1, <1>2, Returns
  <1>9. \A u \in Threads : loc'[u].op = IF u = t THEN "none" ELSE loc[u].op
    BY <1>8, IdleIs
  <1>10. NodeTyped'
    BY <1>1, <1>2, <1>3, <1>4, <1>6, <1>7 DEF IInv, NodeTyped
  <1>11. Grown'
    BY <1>2, <1>6, <1>7 DEF IInv, Grown, ExpandedWhenOk
  <1>12. UnstagedClean'
    BY <1>2, <1>3, <1>4, <1>7 DEF IInv, UnstagedClean
  <1>13. Shown'
    BY <1>1, <1>2, <1>3, <1>7 DEF IInv, Shown
  <1>14. StagedStays'
    BY <1>2, <1>7, <1>9 DEF IInv, StagedStays
  <1>15. Asking'
    <2>1. \A u \in Threads : loc'[u].op # "none" => u # t /\ loc'[u] = loc[u]
      BY <1>8, <1>9
    <2>2. \A u \in Threads :
            /\ loc'[u].op = "unpublish" => loc'[u].target \in promise'.released
            /\ loc'[u].op = "publish" => loc'[u].target \in promise'.asked \cup promise'.released
      BY <1>7, <2>1 DEF IInv, Asking
    <2>3. ~overlap /\ promise'.unstaged =>
            /\ ~promise'.staged /\ promise'.asked = {}
            /\ \A u \in Threads : loc'[u].op \in {"none", "unstage"}
      BY <1>7, <1>9 DEF IInv, Asking
    <2>4. ~overlap => \A v, u \in Threads : loc'[v].op = "unstage" =>
            ~promise'.staged /\ promise'.asked = {} /\ (u = v \/ loc'[u].op = "none")
      BY <1>7, <1>9 DEF IInv, Asking
    <2> QED
      BY <1>2, <1>7, <2>2, <2>3, <2>4 DEF IInv, Asking
  <1> QED
    BY <1>8, <1>10, <1>11, <1>12, <1>13, <1>14, <1>15 DEF IInv

\* ExpandMpathDevice.
LEMMA ExpandMpathDeviceIInv == ASSUME IInv, NEW t \in Threads, ExpandMpathDevice(t) PROVE IInv'
  <1>1. loc[t].pc = "resize" /\ loc[t].op = "expand" /\ Holds(loc[t]) /\ "growfs" \in StepsOf[loc[t].op]
    <2>1. loc[t].pc = "resize"
      BY DEF ExpandMpathDevice
    <2>2. loc[t].op = "expand"
      BY <2>1, LocIs DEF Ops, StepsOf
    <2> QED
      BY <2>1, <2>2 DEF Holds, StepsOf
  <1> QED
    BY <1>1, MpathStep DEF ExpandMpathDevice

\* A raw block volume is staged.
LEMMA StageBlockIInv == ASSUME IInv, NEW t \in Threads, StageBlock(t) PROVE IInv'
  <1>1. loc[t].pc = "done" /\ loc[t].op = "stage" /\ Holds(loc[t]) /\ block
    <2>1. loc[t].pc = "done"
      BY DEF StageBlock
    <2>2. loc[t].op = "stage" /\ Knows(loc[t])
      BY <2>1, LocIs DEF Ops, StepsOf
    <2> QED
      BY <2>1, <2>2 DEF Holds, Knows
  <1>2. UNCHANGED osVars /\ faults' = faults /\ Succeed(t)
    BY DEF StageBlock, OsUnchanged, bounds
  <1>3. NodeTyped' /\ Grown' /\ UnstagedClean' /\ Shown'
    BY <1>1, <1>2, NodeTold DEF Succeed
  <1> QED
    BY <1>1, <1>2, <1>3, SucceedStep DEF osVars

\* GetDiskFormat and resolveFsTypeForMount.
LEMMA ResolveFsIInv == ASSUME IInv, NEW t \in Threads, ResolveFs(t) PROVE IInv'
  <1> DEFINE l == loc[t]
             f == IF l.fs # "" THEN l.fs ELSE IF format = "" THEN "ext4" ELSE format
  <1>1. l.pc = "format" /\ l.op = "stage" /\ Holds(l) /\ l \in Locs /\ Knows(l)
    <2>1. l.pc = "format"
      BY DEF ResolveFs
    <2> QED
      BY <2>1, LocIs DEF Ops, StepsOf, Holds
  <1>2. UNCHANGED osVars /\ faults' = faults
    BY DEF ResolveFs, OsUnchanged, bounds
  <1>3. CASE Fail(t)
    BY <1>1, <1>2, <1>3, FailStep, NodeKept DEF osVars, Fail
  <1>4. CASE Go(t, [l EXCEPT !.pc = "staged", !.found = format, !.fs = f]) /\ UNCHANGED <<lock, promise>>
    <2>1. PICK m : m = [l EXCEPT !.pc = "staged", !.found = format, !.fs = f]
      OBVIOUS
    <2>2. format \in Fs /\ f \in Fs
      BY LocIs DEF IInv, NodeTyped, Fs
    <2> HIDE DEF f
    <2>3. /\ m \in [pc : Steps, op : Ops, target : Targets \cup {"none"}, fs : Fs, found : Fs,
                    devs : SUBSET Paths, want : Nat]
          /\ m.pc = "staged" /\ m.op = l.op /\ m.target = l.target /\ m.want = l.want /\ m.found = format
      BY <1>1, <2>1, <2>2 DEF Locs, Steps
    <2>4. m \in Locs /\ Holds(m)
      BY <1>1, <2>3 DEF Locs, StepsOf, Holds
    <2>5. Knows(m)'
      BY <1>1, <1>2, <2>3 DEF Knows, osVars
    <2>6. Go(t, m)
      BY <1>4, <2>1
    <2> QED
      BY <1>1, <1>2, <1>4, <2>3, <2>4, <2>5, <2>6, GoesOn, NodeKept DEF osVars
  <1> QED
    BY <1>3, <1>4 DEF ResolveFs

\* isTargetMounted of the staging path.
LEMMA CheckStagedIInv == ASSUME IInv, NEW t \in Threads, CheckStaged(t) PROVE IInv'
  <1>1. /\ loc[t].pc = "staged" /\ loc[t].op = "stage" /\ Holds(loc[t]) /\ mpath # 0
        /\ loc[t].found = format /\ {"mkfs", "mountfs"} \subseteq StepsOf[loc[t].op]
    <2>1. loc[t].pc = "staged"
      BY DEF CheckStaged
    <2>2. loc[t].op = "stage" /\ Knows(loc[t])
      BY <2>1, LocIs DEF Ops, StepsOf
    <2> QED
      BY <2>1, <2>2 DEF Holds, Knows, StepsOf
  <1>2. UNCHANGED osVars /\ faults' = faults
    BY DEF CheckStaged, OsUnchanged, bounds
  <1>3. CASE staging
    <2>1. Succeed(t)
      BY <1>3 DEF CheckStaged
    <2>2. NodeTyped' /\ Grown' /\ UnstagedClean' /\ Shown'
      BY <1>1, <1>2, <2>1, NodeTold DEF Succeed
    <2> QED
      BY <1>1, <1>2, <1>3, <2>1, <2>2, SucceedStep DEF osVars
  <1>4. CASE ~staging
    BY <1>1, <1>2, <1>4, ReadStep DEF CheckStaged
  <1> QED
    BY <1>3, <1>4

\* The file system is made, if at all, on a device that has the promised size.
LEMMA MadeFs ==
  ASSUME IInv, mpath # 0, NEW fs \in Fs,
         MakeFs(fs) \/ UNCHANGED <<format, fsSize>>,
         UNCHANGED <<block, overlap, sd, mpath, present, mounts, size, faults>>,
         staging' \in BOOLEAN, promise' \in Promises,
         promise'.expanded = promise.expanded, promise'.unstaged = promise.unstaged,
         promise'.missed = promise.missed,
         promise'.published = promise.published
  PROVE  NodeTyped' /\ Grown' /\ UnstagedClean' /\ Shown'
  <1>1. \A x : Mounted(x)' = Mounted(x)
    BY DEF Mounted
  <1>2. NodeTyped'
    BY <1>1 DEF IInv, NodeTyped, MakeFs
  <1>3. Grown' /\ UnstagedClean'
    BY DEF IInv, NodeTyped, Grown, UnstagedClean, ExpandedWhenOk, MakeFs
  <1>4. Shown'
    BY <1>1 DEF IInv, Shown
  <1> QED
    BY <1>2, <1>3, <1>4

\* FormatDevice.
LEMMA FormatDeviceIInv == ASSUME IInv, NEW t \in Threads, FormatDevice(t) PROVE IInv'
  <1>1. /\ loc[t].pc = "mkfs" /\ loc[t].op = "stage" /\ Holds(loc[t]) /\ mpath # 0 /\ Knows(loc[t])
        /\ "mountfs" \in StepsOf[loc[t].op] /\ loc[t].fs \in Fs
    <2>1. loc[t].pc = "mkfs"
      BY DEF FormatDevice
    <2>2. loc[t].op = "stage"
      BY <2>1, LocIs DEF Ops, StepsOf
    <2>3. Knows(loc[t])
      BY LocIs
    <2>4. loc[t].fs \in Fs
      BY LocIs
    <2>5. mpath # 0
      BY <2>1, <2>3 DEF Knows
    <2> QED
      BY <2>1, <2>2, <2>3, <2>4, <2>5 DEF Holds, StepsOf
  <1>2. /\ UNCHANGED <<block, overlap, sd, mpath, staging, present, mounts, size, faults>>
        /\ MakeFs(loc[t].fs) \/ UNCHANGED <<format, fsSize>>
        /\ To(t, "mountfs")
    BY DEF FormatDevice, Frame, bounds
  <1>3. PICK m \in Locs : /\ Go(t, m) /\ Holds(m) /\ m.pc = "mountfs" /\ m.op = loc[t].op
                          /\ m.target = loc[t].target /\ m.want = loc[t].want
    BY <1>1, <1>2, ToIs
  <1>4. UNCHANGED <<lock, promise>>
    BY <1>1, <1>2, ToIs
  <1>5. NodeTyped' /\ Grown' /\ UnstagedClean' /\ Shown'
    BY <1>1, <1>2, <1>4, MadeFs DEF IInv, NodeTyped
  <1>6. Knows(m)'
    BY <1>1, <1>2, <1>3 DEF Knows
  <1> QED
    BY <1>1, <1>2, <1>3, <1>4, <1>5, <1>6, GoesOn

\* FormatAndMount.
LEMMA FormatAndMountIInv == ASSUME IInv, NEW t \in Threads, FormatAndMount(t) PROVE IInv'
  <1>1. /\ loc[t].pc = "mountfs" /\ loc[t].op = "stage" /\ Holds(loc[t]) /\ mpath # 0
        /\ loc[t] \in Locs /\ loc[t].fs \in Fs
    <2>1. loc[t].pc = "mountfs"
      BY DEF FormatAndMount
    <2>2. loc[t].op = "stage"
      BY <2>1, LocIs DEF Ops, StepsOf
    <2>3. Knows(loc[t]) /\ loc[t].fs \in Fs /\ loc[t] \in Locs
      BY LocIs
    <2> QED
      BY <2>1, <2>2, <2>3 DEF Holds, Knows
  <1>2. /\ UNCHANGED <<block, overlap, sd, mpath, present, mounts, size, faults>>
        /\ MakeFs(loc[t].fs) \/ UNCHANGED <<format, fsSize>>
        /\ Succeed(t) /\ staging' = TRUE
    BY DEF FormatAndMount, bounds
  <1>3. /\ promise' \in Promises /\ promise'.expanded = promise.expanded
        /\ promise'.unstaged = promise.unstaged /\ promise'.published = promise.published
        /\ promise'.missed = promise.missed
    BY <1>1, <1>2, ToldIs DEF Succeed, IInv, NodeTyped, Promises
  <1>4. NodeTyped' /\ Grown' /\ UnstagedClean' /\ Shown'
    BY <1>1, <1>2, <1>3, MadeFs
  <1> QED
    BY <1>1, <1>2, <1>4, SucceedStep

\* Unmount of the staging path: nobody was told that it is staged.
LEMMA UnmountStagingIInv == ASSUME IInv, NEW t \in Threads, UnmountStaging(t) PROVE IInv'
  <1>1. /\ loc[t].pc = "unmount" /\ loc[t].op = "unstage" /\ Holds(loc[t]) /\ Knows(loc[t])
        /\ "mpath" \in StepsOf[loc[t].op]
    <2>1. loc[t].pc = "unmount"
      BY DEF UnmountStaging
    <2>2. loc[t].op = "unstage" /\ Knows(loc[t])
      BY <2>1, LocIs DEF Ops, StepsOf
    <2> QED
      BY <2>1, <2>2 DEF Holds, StepsOf
  <1>2. /\ UNCHANGED <<block, overlap, sd, mpath, format, fsSize, present, mounts, size, faults>>
        /\ staging' = FALSE /\ To(t, "mpath")
    BY DEF UnmountStaging, Frame, bounds
  <1>3. PICK m \in Locs : /\ Go(t, m) /\ Holds(m) /\ m.pc = "mpath" /\ m.op = loc[t].op
                          /\ m.target = loc[t].target /\ m.want = loc[t].want
    BY <1>1, <1>2, ToIs
  <1>4. UNCHANGED <<lock, promise>>
    BY <1>1, <1>2, ToIs
  <1>5. \A x : Mounted(x)' = Mounted(x)
    BY <1>2 DEF Mounted
  <1>6. NodeTyped' /\ Grown' /\ UnstagedClean' /\ Shown'
    BY <1>2, <1>4, <1>5 DEF IInv, NodeTyped, Grown, UnstagedClean, ExpandedWhenOk, Shown
  <1>7. Knows(m)'
    BY <1>1, <1>2, <1>3 DEF Knows
  <1> QED
    BY <1>1, <1>2, <1>3, <1>4, <1>6, <1>7, GoesOn

\* GetSysDevicesFromMpath: all devices that are there.
LEMMA ReadSlavesIInv == ASSUME IInv, NEW t \in Threads, ReadSlaves(t) PROVE IInv'
  <1> DEFINE ds == {p \in Paths : sd[p] # 0}
             s  == IF loc[t].op = "unstage" THEN "flush" ELSE "grow"
  <1>1. /\ loc[t].pc = "slaves" /\ Holds(loc[t]) /\ Knows(loc[t]) /\ loc[t] \in Locs
        /\ s \in StepsOf[loc[t].op] /\ s \in {"flush", "grow"} /\ loc[t].op \in {"unstage", "expand"}
    <2>1. loc[t].pc = "slaves"
      BY DEF ReadSlaves
    <2>2. loc[t].op \in {"unstage", "expand"} /\ Knows(loc[t]) /\ loc[t] \in Locs
      BY <2>1, LocIs DEF Ops, StepsOf
    <2> QED
      BY <2>1, <2>2 DEF Holds, StepsOf
  <1>2. UNCHANGED osVars /\ faults' = faults /\ UNCHANGED <<lock, promise>>
    BY DEF ReadSlaves, OsUnchanged, bounds
  <1>3. PICK m : m = Step(loc[t], s, ds)
    OBVIOUS
  <1>4. Go(t, m)
    BY <1>1, <1>3 DEF ReadSlaves, Step, Locs
  <1>5. ds \in SUBSET Paths /\ \A p \in Paths : sd[p] # 0 => p \in ds
    OBVIOUS
  <1> HIDE DEF ds, s
  <1>6. /\ m \in Locs /\ Holds(m) /\ m.pc = s /\ m.devs = ds
        /\ m.op = loc[t].op /\ m.target = loc[t].target /\ m.want = loc[t].want
    BY <1>1, <1>3, <1>5, Stepped
  <1>7. Knows(m)'
    BY <1>1, <1>2, <1>5, <1>6 DEF Knows, osVars
  <1> QED
    BY <1>1, <1>2, <1>4, <1>6, <1>7, GoesOn, NodeKept DEF osVars

\* FlushMultipathDevice.
LEMMA FlushIInv == ASSUME IInv, NEW t \in Threads, Flush(t) PROVE IInv'
  <1>1. /\ loc[t].pc = "flush" /\ loc[t].op = "unstage" /\ Holds(loc[t]) /\ Knows(loc[t])
        /\ "delete" \in StepsOf[loc[t].op]
    <2>1. loc[t].pc = "flush"
      BY DEF Flush
    <2>2. loc[t].op = "unstage" /\ Knows(loc[t])
      BY <2>1, LocIs DEF Ops, StepsOf
    <2> QED
      BY <2>1, <2>2 DEF Holds, StepsOf
  <1>2. CASE Fail(t) /\ UNCHANGED mpath
    <2>1. UNCHANGED osVars /\ faults' = faults
      BY <1>2 DEF Flush, Frame, osVars, bounds
    <2> QED
      BY <1>1, <1>2, <2>1, FailStep, NodeKept DEF osVars, Fail
  <1>3. CASE mpath' = 0 /\ To(t, "delete")
    <2>1. UNCHANGED <<block, overlap, sd, format, fsSize, staging, present, mounts, size, faults>>
      BY DEF Flush, Frame, bounds
    <2>2. PICK m \in Locs : /\ Go(t, m) /\ Holds(m) /\ m.pc = "delete" /\ m.op = loc[t].op
                            /\ m.target = loc[t].target /\ m.want = loc[t].want /\ m.devs = loc[t].devs
      BY <1>1, <1>3, ToIs
    <2>3. UNCHANGED <<lock, promise>>
      BY <1>1, <1>3, ToIs
    <2>4. \A x : Mounted(x)' = Mounted(x)
      BY <2>1 DEF Mounted
    <2>5. NodeTyped' /\ Grown' /\ UnstagedClean' /\ Shown'
      BY <1>3, <2>1, <2>3, <2>4, NodeAssumption
         DEF IInv, NodeTyped, Grown, UnstagedClean, ExpandedWhenOk, Shown
    <2>6. Knows(m)'
      BY <1>1, <1>3, <2>1, <2>2 DEF Knows
    <2> QED
      BY <1>1, <2>1, <2>2, <2>3, <2>5, <2>6, GoesOn
  <1> QED
    BY <1>2, <1>3 DEF Flush

\* The calls on a target: what their goroutine is.
LEMMA TargetCall ==
  ASSUME IInv, NEW t \in Threads
  PROVE  /\ loc[t].pc \in {"target", "mkdir", "mount"} =>
              loc[t].op = "publish" /\ loc[t].target \in Targets /\ {"mkdir", "mpath", "mount"} \subseteq StepsOf[loc[t].op]
         /\ loc[t].pc \in {"check", "umount", "rmdir"} =>
              loc[t].op = "unpublish" /\ loc[t].target \in Targets /\ {"umount", "rmdir"} \subseteq StepsOf[loc[t].op]
  <1>1. /\ loc[t].pc \in {"target", "mkdir", "mount"} => loc[t].op = "publish"
        /\ loc[t].pc \in {"check", "umount", "rmdir"} => loc[t].op = "unpublish"
    BY LocIs DEF Ops, StepsOf
  <1>2. loc[t].op \in {"publish", "unpublish"} => loc[t].target \in Targets
    BY LocIs
  <1> QED
    BY <1>1, <1>2 DEF StepsOf

\* IsPathExists and isTargetMounted.
LEMMA CheckTargetIInv == ASSUME IInv, NEW t \in Threads, CheckTarget(t) PROVE IInv'
  <1> DEFINE x == loc[t].target
  <1>1. /\ loc[t].pc = "target" /\ loc[t].op = "publish" /\ Holds(loc[t]) /\ x \in Targets
        /\ {"mkdir", "mpath", "mount"} \subseteq StepsOf[loc[t].op]
    BY TargetCall DEF CheckTarget, Holds
  <1>2. UNCHANGED osVars /\ faults' = faults
    BY DEF CheckTarget, OsUnchanged, bounds
  <1>3. CASE x \in present /\ Mounted(x) /\ Succeed(t)
    <2>1. NodeTyped' /\ Grown' /\ UnstagedClean' /\ Shown'
      BY <1>1, <1>2, <1>3, NodeTold DEF Succeed
    <2> QED
      BY <1>1, <1>2, <1>3, <2>1, SucceedStep DEF osVars
  <1>4. CASE x \in present /\ ~Mounted(x) /\ To(t, AfterTarget)
    <2>1. AfterTarget \in {"mpath", "mount"}
      BY DEF AfterTarget
    <2> QED
      BY <1>1, <1>2, <1>4, <2>1, ReadStep
  <1>5. CASE x \notin present /\ To(t, "mkdir")
    <2>1. ~Mounted(x)
      BY <1>1, <1>5 DEF IInv, NodeTyped
    <2> QED
      BY <1>1, <1>2, <1>5, <2>1, ReadStep
  <1> QED
    BY <1>3, <1>4, <1>5 DEF CheckTarget

\* MakeDir or MakeFile.
LEMMA MakeTargetIInv == ASSUME IInv, NEW t \in Threads, MakeTarget(t) PROVE IInv'
  <1>1. /\ loc[t].pc = "mkdir" /\ loc[t].op = "publish" /\ Holds(loc[t]) /\ loc[t].target \in Targets
        /\ AfterTarget \in StepsOf[loc[t].op] /\ AfterTarget \in {"mpath", "mount"}
    BY TargetCall DEF MakeTarget, Holds, AfterTarget
  <1>2. /\ UNCHANGED <<block, overlap, sd, mpath, format, fsSize, staging, mounts, size, faults>>
        /\ present' = present \cup {loc[t].target} /\ To(t, AfterTarget)
    BY DEF MakeTarget, Frame, bounds
  <1>3. PICK m \in Locs : /\ Go(t, m) /\ Holds(m) /\ m.pc = AfterTarget /\ m.op = loc[t].op
                          /\ m.target = loc[t].target /\ m.want = loc[t].want
    BY <1>1, <1>2, ToIs
  <1>4. UNCHANGED <<lock, promise>>
    BY <1>1, <1>2, ToIs
  <1>5. \A x : Mounted(x)' = Mounted(x)
    BY <1>2 DEF Mounted
  <1>6. NodeTyped' /\ Grown' /\ UnstagedClean' /\ Shown'
    BY <1>1, <1>2, <1>4, <1>5 DEF IInv, NodeTyped, Grown, UnstagedClean, ExpandedWhenOk, Shown
  <1>7. Knows(loc[t])
    BY LocIs
  <1>8. Knows(m)'
    BY <1>1, <1>2, <1>3, <1>5, <1>7 DEF Knows
  <1> QED
    BY <1>1, <1>2, <1>3, <1>4, <1>6, <1>8, GoesOn

\* A target is mounted: it shows the volume, as what was staged is still staged.
LEMMA MountIInv == ASSUME IInv, NEW t \in Threads, Mount(t) PROVE IInv'
  <1> DEFINE x == loc[t].target
             w == IF block \/ staging THEN "volume" ELSE "bare"
  <1>1. /\ loc[t].pc = "mount" /\ loc[t].op = "publish" /\ Holds(loc[t]) /\ x \in Targets
        /\ loc[t] \in Locs /\ Knows(loc[t])
    BY TargetCall, LocIs DEF Mount, Holds
  <1>2. /\ UNCHANGED <<block, overlap, sd, mpath, format, fsSize, staging, present, size, faults>>
        /\ mounts' = [mounts EXCEPT ![x] = Append(mounts[x], w)] /\ Succeed(t)
    BY DEF Mount, Frame, bounds
  <1>3. /\ promise' \in Promises /\ promise'.expanded = promise.expanded
        /\ promise'.unstaged = promise.unstaged
        /\ promise'.missed = promise.missed
        /\ promise'.published \subseteq promise.published \cup {x}
    <2>1. promise \in Promises /\ promise' = Told(loc[t]) /\ loc[t].op # "none"
      BY <1>1, <1>2 DEF IInv, NodeTyped, Succeed
    <2>2. /\ promise' \in Promises
          /\ promise'.unstaged = (promise.unstaged \/ loc[t].op = "unstage")
          /\ promise'.missed = IF loc[t].op = "unstage" THEN FALSE ELSE promise.missed
          /\ promise'.published = IF loc[t].op = "publish" /\ x \notin promise.released
                                    THEN promise.published \cup {x} ELSE promise.published
          /\ promise'.expanded = IF loc[t].op = "expand" /\ loc[t].want > promise.expanded
                                   THEN loc[t].want ELSE promise.expanded
      BY <1>1, <2>1, ToldIs
    <2>3. promise.unstaged \in BOOLEAN
      BY <2>1 DEF Promises
    <2> QED
      BY <1>1, <2>2, <2>3
  <1>4. w \in Mounts /\ (~overlap => w = "volume")
    BY <1>1 DEF IInv, StagedStays, Mounts
  <1> HIDE DEF w
  <1>5. /\ mounts[x] \in Seq(Mounts) /\ Append(mounts[x], w) \in Seq(Mounts)
        /\ Len(Append(mounts[x], w)) = Len(mounts[x]) + 1 /\ Append(mounts[x], w) # <<>>
        /\ \A i \in 1..Len(mounts[x]) : Append(mounts[x], w)[i] = mounts[x][i]
        /\ Append(mounts[x], w)[Len(mounts[x]) + 1] = w
        /\ Len(mounts[x]) \in Nat
    BY <1>1, <1>4, SMTT(30) DEF IInv, NodeTyped
  <1>6. \A y \in Targets : mounts'[y] = IF y = x THEN Append(mounts[x], w) ELSE mounts[y]
    BY <1>2 DEF IInv, NodeTyped
  <1>7. \A y \in Targets : Mounted(y)' = (y = x \/ Mounted(y))
    BY <1>5, <1>6 DEF Mounted
  <1>8. x \in present /\ (faults = 0 => mounts[x] = <<>>)
    BY <1>1 DEF Knows, Mounted
  <1>9. NodeTyped'
    <2>1. mounts' \in [Targets -> Seq(Mounts)]
      BY <1>2, <1>5 DEF IInv, NodeTyped
    <2>2. faults = 0 => \A y \in Targets : Len(mounts'[y]) <= 1
      <3>1. mounts[x] = <<>> => Len(mounts[x]) = 0
        OBVIOUS
      <3>2. faults = 0 => Len(Append(mounts[x], w)) <= 1
        BY <1>5, <1>8, <3>1
      <3>3. faults = 0 => \A y \in Targets : Len(mounts[y]) <= 1
        BY DEF IInv, NodeTyped
      <3> QED
        BY <1>6, <3>2, <3>3
    <2> QED
      BY <1>2, <1>3, <1>7, <1>8, <2>1, <2>2 DEF IInv, NodeTyped
  <1>10. Grown' /\ UnstagedClean'
    BY <1>2, <1>3 DEF IInv, Grown, UnstagedClean, ExpandedWhenOk
  <1>11. Shown'
    <2>1. ~overlap => \A y \in Targets : \A i \in 1..Len(mounts'[y]) : mounts'[y][i] = "volume"
      <3> SUFFICES ASSUME ~overlap, NEW y \in Targets, NEW i \in 1..Len(mounts'[y])
                   PROVE  mounts'[y][i] = "volume"
        OBVIOUS
      <3>1. CASE y # x
        BY <3>1, <1>6 DEF IInv, Shown
      <3>2. CASE y = x
        <4>1. mounts'[y] = Append(mounts[x], w)
          BY <3>2, <1>6
        <4>2. i \in 1..(Len(mounts[x]) + 1)
          BY <4>1, <1>5
        <4>3. i \in 1..Len(mounts[x]) \/ i = Len(mounts[x]) + 1
          BY <4>2, <1>5
        <4>4. \A j \in 1..Len(mounts[x]) : mounts[x][j] = "volume"
          BY <1>1 DEF IInv, Shown
        <4> QED
          BY <4>1, <4>3, <4>4, <1>4, <1>5
      <3> QED
        BY <3>1, <3>2
    <2>2. ~overlap /\ (block => faults = 0) => \A y \in promise'.published : Mounted(y)'
      BY <1>1, <1>3, <1>7 DEF IInv, Shown, NodeTyped, Promises
    <2> QED
      BY <1>2, <2>1, <2>2 DEF Shown
  <1> QED
    BY <1>1, <1>2, <1>9, <1>10, <1>11, SucceedStep

\* Unpublish of a target that does not exist, or whose mount is looked at.
LEMMA CheckMountedIInv == ASSUME IInv, NEW t \in Threads, CheckMounted(t) PROVE IInv'
  <1> DEFINE x == loc[t].target
  <1>1. /\ loc[t].pc = "check" /\ loc[t].op = "unpublish" /\ Holds(loc[t]) /\ x \in Targets
        /\ {"umount", "rmdir"} \subseteq StepsOf[loc[t].op]
    BY TargetCall DEF CheckMounted, Holds
  <1>2. UNCHANGED osVars /\ faults' = faults
    BY DEF CheckMounted, OsUnchanged, bounds
  <1>3. CASE Succeed(t)
    <2>1. NodeTyped' /\ Grown' /\ UnstagedClean' /\ Shown'
      BY <1>1, <1>2, <1>3, NodeTold DEF Succeed
    <2> QED
      BY <1>1, <1>2, <1>3, <2>1, SucceedStep DEF osVars
  <1>4. CASE Mounted(x) /\ To(t, "umount")
    BY <1>1, <1>2, <1>4, ReadStep
  <1>5. CASE ~Mounted(x) /\ To(t, "rmdir")
    BY <1>1, <1>2, <1>5, ReadStep
  <1> QED
    BY <1>3, <1>4, <1>5 DEF CheckMounted

\* The mount on top of a target is taken away: its release was asked for.
LEMMA UnmountIInv == ASSUME IInv, NEW t \in Threads, Unmount(t) PROVE IInv'
  <1> DEFINE x == loc[t].target
             r == IF mounts[x] = <<>> THEN mounts[x] ELSE Front(mounts[x])
  <1>1. /\ loc[t].pc = "umount" /\ loc[t].op = "unpublish" /\ Holds(loc[t]) /\ x \in Targets
        /\ {"umount", "rmdir"} \subseteq StepsOf[loc[t].op]
    BY TargetCall DEF Unmount, Holds
  <1>2. /\ UNCHANGED <<block, overlap, sd, mpath, format, fsSize, staging, present, size, faults>>
        /\ mounts' = [mounts EXCEPT ![x] = r] /\ To(t, "rmdir")
    BY DEF Unmount, Frame, bounds
  <1>3. mounts[x] \in Seq(Mounts) /\ Len(mounts[x]) \in Nat
    BY <1>1 DEF IInv, NodeTyped
  <1>4. /\ r \in Seq(Mounts) /\ Len(r) <= Len(mounts[x]) /\ Len(r) \in Nat
        /\ \A i \in 1..Len(r) : r[i] = mounts[x][i]
        /\ r # <<>> => mounts[x] # <<>>
        /\ Len(mounts[x]) <= 1 => r = <<>>
    <2>1. CASE mounts[x] = <<>>
      BY <1>3, <2>1
    <2>2. CASE mounts[x] # <<>>
      <3>1. Len(mounts[x]) - 1 \in Nat
        BY <1>3, <2>2
      <3>2. r = SubSeq(mounts[x], 1, Len(mounts[x]) - 1)
        BY <2>2 DEF Front
      <3>3. /\ r \in Seq(Mounts) /\ Len(r) = Len(mounts[x]) - 1
            /\ \A i \in 1..Len(r) : r[i] = mounts[x][i]
        BY <1>3, <3>1, <3>2, SMTT(30)
      <3> QED
        BY <1>3, <2>2, <3>1, <3>3
    <2> QED
      BY <2>1, <2>2
  <1> HIDE DEF r
  <1>5. \A y \in Targets : mounts'[y] = IF y = x THEN r ELSE mounts[y]
    BY <1>2 DEF IInv, NodeTyped
  <1>6. \A y \in Targets : /\ Mounted(y)' => Mounted(y)
                           /\ y # x => Mounted(y)' = Mounted(y)
    BY <1>4, <1>5 DEF Mounted
  <1>7. UNCHANGED <<lock, promise>>
    BY <1>1, <1>2, ToIs
  <1>8. NodeTyped'
    <2>1. mounts' \in [Targets -> Seq(Mounts)]
      BY <1>2, <1>4 DEF IInv, NodeTyped
    <2>2. faults = 0 => \A y \in Targets : Len(mounts[y]) <= 1
      BY DEF IInv, NodeTyped
    <2>3. faults = 0 => \A y \in Targets : Len(mounts'[y]) <= 1
      BY <1>1, <1>3, <1>4, <1>5, <2>2
    <2> QED
      BY <1>2, <1>6, <1>7, <2>1, <2>3 DEF IInv, NodeTyped
  <1>9. Grown' /\ UnstagedClean'
    BY <1>2, <1>7 DEF IInv, Grown, UnstagedClean, ExpandedWhenOk
  <1>10. Shown'
    <2>1. ~overlap => \A y \in Targets : \A i \in 1..Len(mounts[y]) : mounts[y][i] = "volume"
      BY DEF IInv, Shown
    <2>2. ~overlap => \A i \in 1..Len(r) : r[i] = "volume"
      BY <1>1, <1>3, <1>4, <2>1
    <2>3. ~overlap => \A y \in Targets : \A i \in 1..Len(mounts'[y]) : mounts'[y][i] = "volume"
      BY <1>5, <2>1, <2>2
    <2>4. x \notin promise.published /\ promise.published \subseteq Targets
      BY <1>1 DEF IInv, Asking, NodeTyped, Promises
    <2>5. ~overlap /\ (block => faults = 0) => \A y \in promise.published : Mounted(y)'
      BY <1>6, <2>4 DEF IInv, Shown
    <2> QED
      BY <1>2, <1>7, <2>3, <2>5 DEF Shown
  <1>11. PICK m \in Locs : /\ Go(t, m) /\ Holds(m) /\ m.pc = "rmdir" /\ m.op = loc[t].op
                           /\ m.target = loc[t].target /\ m.want = loc[t].want
    BY <1>1, <1>2, ToIs
  <1>12. Knows(loc[t])
    BY LocIs
  <1>13. faults = 0 => mounts'[x] = <<>>
    <2>1. faults = 0 => Len(mounts[x]) <= 1
      BY <1>1 DEF IInv, NodeTyped
    <2> QED
      BY <1>1, <1>4, <1>5, <2>1
  <1>14. faults = 0 => ~Mounted(m.target)'
    BY <1>11, <1>13 DEF Mounted
  <1>15. Knows(m)'
    BY <1>1, <1>2, <1>11, <1>12, <1>14 DEF Knows
  <1> QED
    BY <1>1, <1>2, <1>7, <1>8, <1>9, <1>10, <1>11, <1>15, GoesOn

\* RemoveFileOrDirectory of a target that nothing is mounted on.
LEMMA RemoveTargetIInv == ASSUME IInv, NEW t \in Threads, RemoveTarget(t) PROVE IInv'
  <1> DEFINE x == loc[t].target
  <1>1. /\ loc[t].pc = "rmdir" /\ loc[t].op = "unpublish" /\ Holds(loc[t]) /\ x \in Targets
        /\ loc[t] \in Locs
    BY TargetCall, LocIs DEF RemoveTarget, Holds
  <1>2. CASE Fail(t) /\ UNCHANGED present
    <2>1. UNCHANGED osVars /\ faults' = faults
      BY <1>2 DEF RemoveTarget, Frame, osVars, bounds
    <2> QED
      BY <1>1, <1>2, <2>1, FailStep, NodeKept DEF osVars, Fail
  <1>3. CASE ~Mounted(x) /\ Succeed(t) /\ present' = present \ {x}
    <2>1. UNCHANGED <<block, overlap, sd, mpath, format, fsSize, staging, mounts, size, faults>>
      BY DEF RemoveTarget, Frame, bounds
    <2>2. promise \in Promises /\ promise' = Told(loc[t]) /\ loc[t].op # "none"
      BY <1>1, <1>3 DEF IInv, NodeTyped, Succeed
    <2>3. /\ promise' \in Promises /\ promise'.expanded = promise.expanded
          /\ promise'.unstaged = (promise.unstaged \/ loc[t].op = "unstage")
          /\ promise'.missed = IF loc[t].op = "unstage" THEN FALSE ELSE promise.missed
          /\ promise'.published = promise.published
      BY <1>1, <2>2, ToldIs
    <2>4. \A y : Mounted(y)' = Mounted(y)
      BY <2>1 DEF Mounted
    <2>5. NodeTyped'
      BY <1>3, <2>1, <2>3, <2>4 DEF IInv, NodeTyped
    <2>6. Grown' /\ UnstagedClean'
      BY <1>1, <2>1, <2>3 DEF IInv, Grown, UnstagedClean, ExpandedWhenOk
    <2>7. Shown'
      BY <2>1, <2>3, <2>4 DEF IInv, Shown
    <2> QED
      BY <1>1, <1>3, <2>1, <2>5, <2>6, <2>7, SucceedStep
  <1> QED
    BY <1>2, <1>3 DEF RemoveTarget

\* ExpandFilesystem: the promise is as big as what the devices were grown to.
LEMMA ExpandFilesystemIInv == ASSUME IInv, NEW t \in Threads, ExpandFilesystem(t) PROVE IInv'
  <1>1. /\ loc[t].pc = "growfs" /\ loc[t].op = "expand" /\ Holds(loc[t]) /\ loc[t] \in Locs
        /\ loc[t].want \in Nat
    <2>1. loc[t].pc = "growfs"
      BY DEF ExpandFilesystem
    <2>2. loc[t].op = "expand"
      BY <2>1, LocIs DEF Ops, StepsOf
    <2> QED
      BY <2>1, <2>2, LocIs DEF Holds
  <1>2. /\ mpath # 0 /\ mpath >= loc[t].want /\ loc[t].want <= size
        /\ \A p \in Paths : sd[p] # 0 => sd[p] >= loc[t].want
    <2>1. Knows(loc[t])
      BY LocIs
    <2> QED
      BY <1>1, <2>1 DEF Knows
  <1>3. /\ UNCHANGED <<block, overlap, sd, mpath, format, staging, present, mounts, size, faults>>
        /\ fsSize' = IF format \in Growable /\ staging THEN mpath ELSE fsSize
    BY DEF ExpandFilesystem, bounds
  <1>4. \A x : Mounted(x)' = Mounted(x)
    BY <1>3 DEF Mounted
  <1>5. mpath \in Nat /\ promise.expanded \in Nat /\ mpath >= promise.expanded /\ size \in Nat
    BY <1>2 DEF IInv, NodeTyped, Grown, ExpandedWhenOk, Promises
  <1>6. CASE Fail(t)
    <2>1. UNCHANGED promise
      BY <1>6 DEF Fail
    <2>2. NodeTyped'
      BY <1>3, <1>4, <2>1 DEF IInv, NodeTyped
    <2>3. Grown' /\ UnstagedClean'
      BY <1>3, <1>5, <2>1 DEF IInv, Grown, UnstagedClean, ExpandedWhenOk
    <2>4. Shown'
      BY <1>3, <1>4, <2>1 DEF IInv, Shown
    <2> QED
      BY <1>1, <1>3, <1>6, <2>2, <2>3, <2>4, FailStep
  <1>7. CASE Succeed(t) /\ (format \in Growable => staging)
    <2>1. promise \in Promises /\ promise' = Told(loc[t]) /\ loc[t].op # "none"
      BY <1>1, <1>7 DEF IInv, NodeTyped, Succeed
    <2>2. /\ promise' \in Promises
          /\ promise'.unstaged = (promise.unstaged \/ loc[t].op = "unstage")
          /\ promise'.missed = IF loc[t].op = "unstage" THEN FALSE ELSE promise.missed
          /\ promise'.published = promise.published
          /\ promise'.expanded = IF loc[t].op = "expand" /\ loc[t].want > promise.expanded
                                   THEN loc[t].want ELSE promise.expanded
      BY <1>1, <2>1, ToldIs
    <2>3. NodeTyped'
      BY <1>3, <1>4, <2>2 DEF IInv, NodeTyped
    <2>4. promise'.expanded <= size /\ promise'.expanded <= mpath
      BY <1>1, <1>2, <1>5, <2>2 DEF IInv, Grown
    <2>5. \A p \in Paths : sd[p] # 0 => sd[p] >= promise'.expanded
      BY <1>1, <1>2, <1>5, <2>2 DEF IInv, Grown
    <2>6. Grown'
      BY <1>3, <1>7, <2>4, <2>5 DEF Grown, ExpandedWhenOk
    <2>7. UnstagedClean'
      BY <1>1, <1>3, <2>2 DEF IInv, UnstagedClean
    <2>8. Shown'
      BY <1>3, <1>4, <2>2 DEF IInv, Shown
    <2> QED
      BY <1>1, <1>3, <1>7, <2>3, <2>6, <2>7, <2>8, SucceedStep
  <1> QED
    BY <1>6, <1>7 DEF ExpandFilesystem

-----------------------------------------------------------------------------
(***************************************************************************)
(* Failures, restarts and the orchestrator.                                *)
(***************************************************************************)

\* A command fails: the call goes on, fails, or takes the failure for success.
LEMMA CommandFailsIInv == ASSUME IInv, NEW t \in Threads, CommandFails(t) PROVE IInv'
  <1>1. loc[t].pc \notin {"idle", "lock", "done"} /\ Holds(loc[t]) /\ loc[t] \in Locs
    BY LocIs DEF CommandFails, Holds
  <1>2. UNCHANGED osVars /\ faults' = faults + 1 /\ faults' # 0 /\ faults \in Nat
    BY DEF CommandFails, IInv, NodeTyped
  <1>3. CASE HostNotFound(t)
    <2>1. loc[t].pc = "rescan" /\ loc[t].op = "stage" /\ "rescan" \in StepsOf[loc[t].op]
      <3>1. loc[t].pc = "rescan"
        BY <1>3 DEF HostNotFound
      <3>2. loc[t].op = "stage"
        BY <3>1, LocIs DEF Ops, StepsOf
      <3> QED
        BY <3>1, <3>2 DEF StepsOf
    <2>2. PICK p \in Paths : Go(t, [loc[t] EXCEPT !.devs = @ \ {p}])
      BY <1>3 DEF HostNotFound
    <2>3. PICK m : m = Step(loc[t], "rescan", loc[t].devs \ {p})
      OBVIOUS
    <2>4. Go(t, m)
      <3>1. [loc[t] EXCEPT !.devs = @ \ {p}] = Step(loc[t], "rescan", loc[t].devs \ {p})
        BY <1>1, <2>1 DEF Step, Locs
      <3> QED
        BY <2>2, <2>3, <3>1
    <2>5. loc[t].devs \ {p} \in SUBSET Paths
      BY LocIs
    <2>6. /\ m \in Locs /\ Holds(m) /\ m.pc = "rescan"
          /\ m.op = loc[t].op /\ m.target = loc[t].target /\ m.want = loc[t].want
      BY <1>1, <2>1, <2>3, <2>5, Stepped
    <2>7. Knows(loc[t])
      BY LocIs
    <2>8. Knows(m)'
      BY <1>2, <2>1, <2>6, <2>7 DEF Knows, osVars
    <2>9. UNCHANGED <<lock, promise>>
      BY <1>3 DEF HostNotFound
    <2> QED
      BY <1>1, <1>2, <2>4, <2>6, <2>8, <2>9, GoesOn, NodeKept DEF osVars
  <1>4. CASE loc[t].pc = "mkfs" /\ To(t, "mountfs")
    <2>1. loc[t].op = "stage"
      BY <1>4, LocIs DEF Ops, StepsOf
    <2>2. "mountfs" \in StepsOf[loc[t].op]
      BY <2>1 DEF StepsOf
    <2>3. Knows(loc[t])
      BY LocIs
    <2>4. mpath # 0
      BY <1>4, <2>3 DEF Knows
    <2> QED
      BY <1>1, <1>2, <1>4, <2>1, <2>2, <2>4, ReadStep
  <1>5. CASE loc[t].pc = "target" /\ To(t, "mkdir")
    <2>1. "mkdir" \in StepsOf[loc[t].op]
      BY <1>5, TargetCall
    <2> QED
      BY <1>1, <1>2, <1>5, <2>1, ReadStep
  <1>6. CASE loc[t].pc = "check" /\ Succeed(t)
    <2>1. loc[t].op = "unpublish"
      BY <1>6, TargetCall
    <2>2. NodeTyped' /\ Grown' /\ UnstagedClean' /\ Shown'
      BY <1>2, <1>6, <2>1, NodeTold DEF Succeed
    <2> QED
      BY <1>1, <1>2, <1>6, <2>1, <2>2, SucceedStep DEF osVars
  <1>7. CASE loc[t].pc = "mount" /\ block /\ Succeed(t)
    <2>1. loc[t].op = "publish"
      BY <1>7, TargetCall
    <2>2. NodeTyped' /\ Grown' /\ UnstagedClean' /\ Shown'
      BY <1>2, <1>7, <2>1, NodeTold DEF Succeed
    <2> QED
      BY <1>1, <1>2, <1>7, <2>1, <2>2, SucceedStep DEF osVars
  <1>8. CASE Fail(t)
    BY <1>1, <1>2, <1>8, FailStep, NodeKept DEF osVars, Fail
  <1> QED
    BY <1>3, <1>4, <1>5, <1>6, <1>7, <1>8 DEF CommandFails, AfterFailure

\* The plugin restarts: the locks map and the calls are gone together.
LEMMA RestartIInv == ASSUME IInv, Restart PROVE IInv'
  <1>1. UNCHANGED <<osVars, promise, faults>> /\ lock' = FALSE /\ loc' = [t \in Threads |-> Idle]
    BY DEF Restart
  <1>2. NodeTyped' /\ Grown' /\ UnstagedClean' /\ Shown'
    BY <1>1, NodeKept
  <1>3. \A t \in Threads : loc'[t] = Idle
    BY <1>1
  <1>4. Held'
    BY <1>1, <1>3, IdleIs DEF Held
  <1>5. Known'
    <2>1. \A t \in Threads : loc'[t].pc = "idle" /\ loc'[t].op = "none" /\ loc'[t].want <= size'
      BY <1>1, <1>3, IdleIs DEF IInv, NodeTyped, osVars
    <2> QED
      BY <2>1 DEF Known, Knows
  <1>6. Asking' /\ StagedStays'
    BY <1>1, <1>3, IdleIs DEF IInv, Asking, StagedStays, osVars
  <1> QED
    BY <1>2, <1>4, <1>5, <1>6 DEF IInv

\* The volume grows on the array, whichever call is running.
LEMMA GrowIInv == ASSUME IInv, Grow PROVE IInv'
  <1>1. /\ size' = size + 1 /\ size < MaxSize /\ size \in 1..MaxSize
        /\ UNCHANGED <<block, overlap, lock, sd, mpath, format, fsSize, staging, present, mounts, loc, promise, faults>>
    BY DEF Grow, bounds, IInv, NodeTyped
  <1>2. \A x : Mounted(x)' = Mounted(x)
    BY <1>1 DEF Mounted
  <1>3. NodeTyped'
    BY <1>1, <1>2, NodeAssumption DEF IInv, NodeTyped
  <1>4. Grown' /\ UnstagedClean'
    <2>1. promise.expanded \in Nat
      BY DEF IInv, NodeTyped, Promises
    <2> QED
      BY <1>1, <2>1 DEF IInv, Grown, UnstagedClean, ExpandedWhenOk
  <1>5. Shown'
    BY <1>1, <1>2 DEF IInv, Shown
  <1>6. Held' /\ Asking' /\ StagedStays'
    BY <1>1 DEF IInv, Held, Asking, StagedStays
  <1>7. ASSUME NEW t \in Threads PROVE Knows(loc[t])'
    <2>1. Knows(loc[t]) /\ loc[t].want \in Nat /\ loc'[t] = loc[t]
      BY <1>1, LocIs
    <2>2. loc[t].want <= size'
      <3>1. loc[t].want <= size
        BY <2>1 DEF Knows
      <3>2. size \in Nat
        BY <1>1, NodeAssumption
      <3> QED
        BY <1>1, <2>1, <3>1, <3>2
    <2>3. PICK l : l = loc[t]
      OBVIOUS
    <2>4. Knows(l)'
      BY <1>1, <1>2, <2>1, <2>2, <2>3, ZenonT(30) DEF Knows
    <2> QED
      BY <2>1, <2>3, <2>4, ZenonT(30) DEF Knows
  <1> QED
    BY <1>3, <1>4, <1>5, <1>6, <1>7 DEF IInv, Known

\* A new call: it waits for the lock.
LEMMA SendStep ==
  ASSUME IInv, NEW t \in Threads, NEW l \in Locs, Send(t, l), l.pc = "lock", l.want <= size,
         promise' \in Promises, promise'.expanded = promise.expanded,
         promise'.unstaged => promise.unstaged, promise'.missed = promise.missed,
         promise'.published \subseteq promise.published,
         Asking', StagedStays'
  PROVE  IInv'
  <1>1. /\ UNCHANGED <<lock, osVars, faults>>
        /\ loc[t] = Idle
        /\ \A u \in Threads : loc'[u] = IF u = t THEN l ELSE loc[u]
        /\ Go(t, l)
    BY DEF Send, Go, IInv, Held
  <1>2. \A x : Mounted(x)' = Mounted(x)
    BY <1>1 DEF Mounted, osVars
  <1>3. NodeTyped'
    BY <1>1, <1>2 DEF IInv, NodeTyped, osVars
  <1>4. Grown' /\ UnstagedClean'
    BY <1>1 DEF IInv, Grown, UnstagedClean, ExpandedWhenOk, osVars
  <1>5. Shown'
    BY <1>1, <1>2 DEF IInv, Shown, osVars
  <1>6. Held'
    <2>1. ~Holds(l) /\ ~Holds(loc[t])
      BY <1>1, IdleIs DEF Holds
    <2> QED
      BY <1>1, <2>1 DEF IInv, Held, Go
  <1>7. ASSUME NEW u \in Threads PROVE Knows(loc[u])'
    <2>1. CASE u = t
      <3>1. loc'[u] = l
        BY <1>1, <2>1
      <3> QED
        BY <1>1, <3>1 DEF Knows, osVars
    <2>2. CASE u # t
      <3>1. loc'[u] = loc[u] /\ Knows(loc[u])
        BY <1>1, <2>2, LocIs
      <3> QED
        BY <1>1, <3>1, ZenonT(30) DEF Knows, Mounted, osVars
    <2> QED
      BY <2>1, <2>2
  <1> QED
    BY <1>3, <1>4, <1>5, <1>6, <1>7 DEF IInv, Known

\* The records of the calls that arrive.
Sent == [pc : {"lock"}, op : Ops \ {"none"}, target : Targets \cup {"none"}, fs : Fs, found : {""},
         devs : {{}}, want : Nat]

\* They are a goroutine's.
LEMMA SentIs ==
  ASSUME NEW l \in Sent, l.op \in {"publish", "unpublish"} => l.target \in Targets
  PROVE  l \in Locs
  <1>1. l \in [pc : Steps, op : Ops, target : Targets \cup {"none"}, fs : Fs, found : Fs,
               devs : SUBSET Paths, want : Nat]
    BY DEF Sent, Steps, Fs
  <1>2. l.pc = "lock" /\ l.op \in Ops \ {"none"}
    BY DEF Sent
  <1>3. "lock" \in StepsOf[l.op]
    BY <1>2 DEF StepsOf, Ops
  <1> QED
    BY <1>1, <1>2, <1>3 DEF Locs

\* The goroutines after a call has arrived.
LEMMA SendLoc ==
  ASSUME IInv, NEW t \in Threads, NEW l, Send(t, l)
  PROVE  /\ \A u \in Threads : loc'[u] = IF u = t THEN l ELSE loc[u]
         /\ UNCHANGED <<block, overlap, staging, size>> /\ loc[t] = Idle
  BY DEF Send, Go, IInv, Held, osVars

\* A stage: the volume counts as staged on the node from now on.
LEMMA SendStageIInv == ASSUME IInv, NEW t \in Threads, SendStage(t) PROVE IInv'
  <1>1. PICK fs \in FsTypes : Send(t, [Idle EXCEPT !.pc = "lock", !.op = "stage", !.fs = fs])
    BY DEF SendStage
  <1>2. PICK l : l = [Idle EXCEPT !.pc = "lock", !.op = "stage", !.fs = fs]
    OBVIOUS
  <1>3. l \in Locs /\ l.pc = "lock" /\ l.op = "stage" /\ l.target = "none" /\ l.want = 0
    <2>1. l \in Sent
      BY <1>2 DEF Idle, Sent, Ops, Fs
    <2>2. l.pc = "lock" /\ l.op = "stage" /\ l.target = "none" /\ l.want = 0
      BY <1>2 DEF Idle
    <2> QED
      BY <2>1, <2>2, SentIs
  <1>4. Send(t, l)
    BY <1>1, <1>2
  <1>5. /\ \A u \in Threads : loc'[u] = IF u = t THEN l ELSE loc[u]
        /\ UNCHANGED <<block, overlap, staging, size>>
    BY <1>4, SendLoc
  <1>6. /\ promise \in Promises /\ promise' \in Promises /\ promise'.unstaged = FALSE
        /\ promise'.missed = promise.missed
        /\ promise'.staged = promise.staged /\ promise'.published = promise.published
        /\ promise'.asked = promise.asked /\ promise'.released = promise.released
        /\ promise'.expanded = promise.expanded
    BY DEF SendStage, IInv, NodeTyped, Promises
  <1>7. ~overlap => \A u \in Threads : loc[u].op \notin {"stage", "unstage"}
    BY DEF SendStage, Running
  <1>8. Asking'
    BY <1>3, <1>5, <1>6, <1>7 DEF IInv, Asking
  <1>9. StagedStays'
    BY <1>3, <1>5, <1>6 DEF IInv, StagedStays
  <1>10. 0 <= size
    BY DEF IInv, NodeTyped
  <1> QED
    BY <1>3, <1>4, <1>6, <1>8, <1>9, <1>10, SendStep

\* An unstage: it runs alone if calls do not overlap.
LEMMA SendUnstageIInv == ASSUME IInv, NEW t \in Threads, SendUnstage(t) PROVE IInv'
  <1>1. PICK l : l = [Idle EXCEPT !.pc = "lock", !.op = "unstage"]
    OBVIOUS
  <1>2. l \in Locs /\ l.pc = "lock" /\ l.op = "unstage" /\ l.target = "none" /\ l.want = 0
    <2>1. l \in Sent
      BY <1>1 DEF Idle, Sent, Ops, Fs
    <2>2. l.pc = "lock" /\ l.op = "unstage" /\ l.target = "none" /\ l.want = 0
      BY <1>1 DEF Idle
    <2> QED
      BY <2>1, <2>2, SentIs
  <1>3. Send(t, l)
    BY <1>1 DEF SendUnstage
  <1>4. /\ \A u \in Threads : loc'[u] = IF u = t THEN l ELSE loc[u]
        /\ UNCHANGED <<block, overlap, staging, size>>
    BY <1>3, SendLoc
  <1>5. /\ promise \in Promises /\ promise' \in Promises /\ promise'.staged = FALSE
        /\ promise'.unstaged = promise.unstaged /\ promise'.published = promise.published
        /\ promise'.missed = promise.missed
        /\ promise'.asked = promise.asked /\ promise'.released = promise.released
        /\ promise'.expanded = promise.expanded /\ promise.asked = {}
    BY DEF SendUnstage, IInv, NodeTyped, Promises
  <1>6. ~overlap => \A u \in Threads : loc[u].op = "none"
    <2>1. ~overlap => \A u \in Threads : loc[u] = Idle
      BY DEF SendUnstage
    <2> QED
      BY <2>1, IdleIs
  <1>7. Asking'
    BY <1>2, <1>4, <1>5, <1>6 DEF IInv, Asking
  <1>8. StagedStays'
    BY <1>2, <1>4, <1>5 DEF IInv, StagedStays
  <1>9. 0 <= size
    BY DEF IInv, NodeTyped
  <1> QED
    BY <1>2, <1>3, <1>5, <1>7, <1>8, <1>9, SendStep

\* A publish, of what was told as staged.
LEMMA SendPublishIInv == ASSUME IInv, NEW t \in Threads, SendPublish(t) PROVE IInv'
  <1>1. PICK x \in Targets \ promise.released :
          /\ overlap \/ (Running({"unstage"}) = {} /\ \A o \in Threads : loc[o].target # x)
          /\ Send(t, [Idle EXCEPT !.pc = "lock", !.op = "publish", !.target = x])
          /\ promise' = [promise EXCEPT !.asked = @ \cup {x}]
    BY DEF SendPublish
  <1>2. PICK l : l = [Idle EXCEPT !.pc = "lock", !.op = "publish", !.target = x]
    OBVIOUS
  <1>3. l \in Locs /\ l.pc = "lock" /\ l.op = "publish" /\ l.target = x /\ l.want = 0
    <2>1. l \in Sent
      BY <1>2 DEF Idle, Sent, Ops, Fs
    <2>2. l.pc = "lock" /\ l.op = "publish" /\ l.target = x /\ l.want = 0
      BY <1>2 DEF Idle
    <2> QED
      BY <2>1, <2>2, SentIs
  <1>4. Send(t, l)
    BY <1>1, <1>2
  <1>5. /\ \A u \in Threads : loc'[u] = IF u = t THEN l ELSE loc[u]
        /\ UNCHANGED <<block, overlap, staging, size>>
    BY <1>4, SendLoc
  <1>6. /\ promise \in Promises /\ promise' \in Promises /\ promise'.asked = promise.asked \cup {x}
        /\ promise'.staged = promise.staged /\ promise'.published = promise.published
        /\ promise'.unstaged = promise.unstaged /\ promise'.released = promise.released
        /\ promise'.missed = promise.missed
        /\ promise'.expanded = promise.expanded
    BY <1>1 DEF IInv, NodeTyped, Promises
  <1>7. promise.staged /\ (~overlap => \A u \in Threads : loc[u].op # "unstage")
    BY <1>1 DEF SendPublish, Running
  <1>8. Asking'
    BY <1>3, <1>5, <1>6, <1>7 DEF IInv, Asking
  <1>9. StagedStays'
    BY <1>3, <1>5, <1>6, <1>7 DEF IInv, StagedStays
  <1>10. 0 <= size
    BY DEF IInv, NodeTyped
  <1> QED
    BY <1>3, <1>4, <1>6, <1>8, <1>9, <1>10, SendStep

\* An unpublish: its target counts as published no longer.
LEMMA SendUnpublishIInv == ASSUME IInv, NEW t \in Threads, SendUnpublish(t) PROVE IInv'
  <1>1. PICK x \in promise.asked :
          /\ Send(t, [Idle EXCEPT !.pc = "lock", !.op = "unpublish", !.target = x])
          /\ promise' = [promise EXCEPT !.published = @ \ {x}, !.released = @ \cup {x}]
    BY DEF SendUnpublish
  <1>2. PICK l : l = [Idle EXCEPT !.pc = "lock", !.op = "unpublish", !.target = x]
    OBVIOUS
  <1>3. promise \in Promises /\ x \in Targets
    BY DEF IInv, NodeTyped, Promises
  <1>4. l \in Locs /\ l.pc = "lock" /\ l.op = "unpublish" /\ l.target = x /\ l.want = 0
    <2>1. l \in Sent
      BY <1>2, <1>3 DEF Idle, Sent, Ops, Fs
    <2>2. l.pc = "lock" /\ l.op = "unpublish" /\ l.target = x /\ l.want = 0
      BY <1>2 DEF Idle
    <2> QED
      BY <1>3, <2>1, <2>2, SentIs
  <1>5. Send(t, l)
    BY <1>1, <1>2
  <1>6. /\ \A u \in Threads : loc'[u] = IF u = t THEN l ELSE loc[u]
        /\ UNCHANGED <<block, overlap, staging, size>>
    BY <1>5, SendLoc
  <1>7. /\ promise' \in Promises /\ promise'.published = promise.published \ {x}
        /\ promise'.released = promise.released \cup {x} /\ promise'.asked = promise.asked
        /\ promise'.staged = promise.staged /\ promise'.unstaged = promise.unstaged
        /\ promise'.missed = promise.missed
        /\ promise'.expanded = promise.expanded
    BY <1>1, <1>3 DEF Promises
  <1>8. Asking'
    BY <1>1, <1>4, <1>6, <1>7 DEF IInv, Asking
  <1>9. StagedStays'
    BY <1>4, <1>6, <1>7 DEF IInv, StagedStays
  <1>10. 0 <= size
    BY DEF IInv, NodeTyped
  <1> QED
    BY <1>4, <1>5, <1>7, <1>8, <1>9, <1>10, SendStep

\* An expansion: it wants the size the volume has now.
LEMMA SendExpandIInv == ASSUME IInv, NEW t \in Threads, SendExpand(t) PROVE IInv'
  <1>1. PICK l : l = [Idle EXCEPT !.pc = "lock", !.op = "expand", !.want = size]
    OBVIOUS
  <1>2. size \in Nat
    BY DEF IInv, NodeTyped
  <1>3. l \in Locs /\ l.pc = "lock" /\ l.op = "expand" /\ l.target = "none" /\ l.want = size
    <2>1. l \in Sent
      BY <1>1, <1>2 DEF Idle, Sent, Ops, Fs
    <2>2. l.pc = "lock" /\ l.op = "expand" /\ l.target = "none" /\ l.want = size
      BY <1>1 DEF Idle
    <2> QED
      BY <2>1, <2>2, SentIs
  <1>4. Send(t, l)
    BY <1>1 DEF SendExpand
  <1>5. /\ \A u \in Threads : loc'[u] = IF u = t THEN l ELSE loc[u]
        /\ UNCHANGED <<block, overlap, staging, size>>
    BY <1>4, SendLoc
  <1>6. /\ promise \in Promises /\ promise' = promise /\ promise.staged
        /\ ~overlap => \A u \in Threads : loc[u].op # "unstage"
    BY DEF SendExpand, Running, IInv, NodeTyped
  <1>7. Asking'
    BY <1>3, <1>5, <1>6 DEF IInv, Asking
  <1>8. StagedStays'
    BY <1>3, <1>5, <1>6 DEF IInv, StagedStays
  <1> QED
    BY <1>2, <1>3, <1>4, <1>6, <1>7, <1>8, SendStep

-----------------------------------------------------------------------------
(***************************************************************************)
(* The theorems.                                                           *)
(***************************************************************************)

\* A node that the volume was never staged on.
LEMMA InitIInv == Init => IInv
  <1> SUFFICES ASSUME Init PROVE IInv
    OBVIOUS
  <1>1. \A t \in Threads : loc[t] = Idle
    BY DEF Init
  <1>2. \A x \in Targets : mounts[x] = <<>> /\ ~Mounted(x) /\ Len(mounts[x]) = 0
    BY DEF Init, Mounted
  <1>3. /\ promise \in Promises /\ promise.expanded = 0 /\ promise.published = {} /\ promise.asked = {}
        /\ promise.released = {} /\ ~promise.staged
    BY DEF Init, NoPromise, Promises
  <1>4. mounts \in [Targets -> Seq(Mounts)] /\ sd \in [Paths -> 0..MaxSize] /\ size \in 1..MaxSize
    <2>1. <<>> \in Seq(Mounts) /\ 0 \in 0..MaxSize /\ 1 \in 1..MaxSize
      BY NodeAssumption
    <2> QED
      BY <2>1 DEF Init
  <1>5. format \in Fs
    <2>1. format \in {""} \cup Formats
      BY DEF Init
    <2> QED
      BY <2>1 DEF Fs
  <1>6. fsSize \in 0..MaxSize /\ mpath \in 0..MaxSize /\ mpath = 0 /\ fsSize \in Nat
    <2>1. fsSize \in {0, 1} /\ mpath = 0
      BY DEF Init
    <2> QED
      BY <2>1, NodeAssumption
  <1>7. block \in Blocks /\ block \in BOOLEAN /\ overlap \in Overlaps /\ overlap \in BOOLEAN
    BY NodeAssumption DEF Init
  <1>8. NodeTyped
    <2>1. staging \in BOOLEAN /\ present \subseteq Targets /\ faults \in Nat
      BY DEF Init
    <2>2. \A x \in Targets : (Mounted(x) => x \in present) /\ Len(mounts[x]) <= 1
      BY <1>2
    <2> QED
      BY <1>3, <1>4, <1>5, <1>6, <1>7, <2>1, <2>2 DEF NodeTyped
  <1>9. Grown
    <2>1. size = 1 /\ \A p \in Paths : sd[p] = 0
      BY DEF Init
    <2> QED
      BY <1>3, <1>6, <2>1 DEF Grown, ExpandedWhenOk
  <1>10. Held
    BY <1>1, IdleIs DEF Init, Held
  <1>11. Known
    <2>1. 0 <= size
      BY <1>4, NodeAssumption
    <2>2. \A t \in Threads : loc[t].pc = "idle" /\ loc[t].op = "none" /\ loc[t].want <= size
      BY <1>1, <2>1, IdleIs
    <2> QED
      BY <2>2 DEF Known, Knows
  <1>12. Asking
    BY <1>1, <1>3, IdleIs DEF Asking
  <1>13. UnstagedClean
    BY DEF Init, UnstagedClean
  <1>14. StagedStays
    BY <1>1, <1>3, IdleIs DEF StagedStays
  <1>15. Shown
    <2>1. \A x \in Targets : 1..Len(mounts[x]) = {}
      BY <1>2
    <2> QED
      BY <1>3, <2>1 DEF Shown
  <1> QED
    BY <1>8, <1>9, <1>10, <1>11, <1>12, <1>13, <1>14, <1>15 DEF IInv

\* Every step preserves the inductive invariant.
LEMMA NextIInv == IInv /\ [Next]_vars => IInv'
  <1> SUFFICES ASSUME IInv, [Next]_vars PROVE IInv'
    OBVIOUS
  <1>1. ASSUME NEW t \in Threads, Arrive(t) PROVE IInv'
    BY <1>1, SendStageIInv, SendUnstageIInv, SendPublishIInv, SendUnpublishIInv, SendExpandIInv DEF Arrive
  <1>2. ASSUME NEW t \in Threads, Command(t) PROVE IInv'
    BY <1>2, AcquireIInv, RescanIInv, GetMpathDeviceIInv, StageBlockIInv, ResolveFsIInv, CheckStagedIInv,
       FormatDeviceIInv, FormatAndMountIInv, UnmountStagingIInv, ReadSlavesIInv, FlushIInv, DeletePathIInv,
       CheckTargetIInv, MakeTargetIInv, MountIInv, CheckMountedIInv, UnmountIInv, RemoveTargetIInv,
       RescanPathIInv, ExpandMpathDeviceIInv, ExpandFilesystemIInv DEF Command
  <1>3. CASE UNCHANGED vars
    <2>1. NodeTyped' /\ Grown' /\ UnstagedClean' /\ Shown'
      BY <1>3, NodeKept DEF vars, bounds
    <2>2. Held' /\ Asking' /\ StagedStays'
      BY <1>3 DEF vars, osVars, IInv, Held, Asking, StagedStays
    <2>3. ASSUME NEW t \in Threads PROVE Knows(loc[t])'
      <3>1. Knows(loc[t]) /\ UNCHANGED <<loc, osVars, faults>>
        BY <1>3, LocIs DEF vars, bounds
      <3> QED
        BY <3>1, ZenonT(30) DEF Knows, Mounted, osVars
    <2> QED
      BY <2>1, <2>2, <2>3 DEF IInv, Known
  <1> QED
    BY <1>1, <1>2, <1>3, CommandFailsIInv, MpathMissedIInv, RestartIInv, GrowIInv DEF Next

\* IInv is an invariant.
LEMMA Invariance == Spec => []IInv
  BY InitIInv, NextIInv, PTL DEF Spec

\* What the per-volume lock is for: the id is in the locks map exactly while one
\* call works on the volume and mkfs runs on what has no file system, for any number
\* of calls, failures and restarts and with calls that overlap in any way; and, as
\* long as no command has failed, os.RemoveAll runs on what is not mounted.
THEOREM LockIsEnough == Spec => []LockProtects
  <1>1. ASSUME IInv PROVE TypeOK
    <2>1. \A t \in Threads : loc[t].pc \in Steps /\ loc[t].devs \subseteq Paths
      BY <1>1 DEF IInv, Held, Locs
    <2> QED
      BY <1>1, <2>1 DEF IInv, NodeTyped, Held, TypeOK
  <1>2. ASSUME IInv PROVE LockHeldByOne
    <2> DEFINE S == {t \in Threads : loc[t].pc \notin {"idle", "lock"}}
    <2>1. CASE lock
      <3>1. PICK t \in Threads : Holds(loc[t])
        BY <1>2, <2>1 DEF IInv, Held
      <3>2. S = {t}
        BY <1>2, <3>1 DEF IInv, Held, Holds
      <3>3. Cardinality({t}) = 1
        BY FS_Singleton
      <3> QED
        BY <2>1, <3>2, <3>3 DEF LockHeldByOne
    <2>2. CASE ~lock
      <3>1. S = {}
        BY <1>2, <2>2 DEF IInv, Held, Holds
      <3> QED
        BY <2>2, <3>1, FS_EmptySet DEF LockHeldByOne
    <2> QED
      BY <2>1, <2>2
  <1>3. ASSUME IInv PROVE NeverReformats
    BY <1>3 DEF IInv, Known, Knows, NeverReformats
  <1>4. ASSUME IInv PROVE NeverRemovesMounted
    BY <1>4 DEF IInv, Known, Knows, NeverRemovesMounted
  <1>5. IInv => LockProtects
    BY <1>1, <1>2, <1>3, <1>4 DEF LockProtects
  <1> QED
    BY <1>5, Invariance, PTL

\* After an OK unstage no device of the volume is left on the node, whichever
\* commands failed and however often the plugin was restarted on the way, unless the
\* lookup of the multipath device in that very unstage came to nothing.
THEOREM UnstageCleans == Spec => []UnstagedClean
  <1>1. IInv => UnstagedClean
    BY DEF IInv
  <1> QED
    BY <1>1, Invariance, PTL

\* After an OK expansion the device, and a file system that the plugin grows,
\* have at least the size the volume had when the call arrived.
THEOREM ExpansionIsDone == Spec => []ExpandedWhenOk
  <1>1. IInv => ExpandedWhenOk
    BY DEF IInv, Grown
  <1> QED
    BY <1>1, Invariance, PTL

\* A published target shows the volume, through failures and restarts, until its
\* release is asked for.
THEOREM PublishedIsMounted == Spec => []MountedStays
  <1>1. ASSUME IInv, ~overlap, block => faults = 0, NEW x \in promise.published
        PROVE  Mounted(x) /\ Last(mounts[x]) = "volume"
    <2>1. x \in Targets /\ mounts[x] \in Seq(Mounts)
      BY <1>1 DEF IInv, NodeTyped, Promises
    <2>2. Mounted(x) /\ mounts[x] # <<>>
      BY <1>1 DEF IInv, Shown, Mounted
    <2>3. Len(mounts[x]) \in 1..Len(mounts[x])
      BY <2>1, <2>2
    <2>4. mounts[x][Len(mounts[x])] = "volume"
      BY <1>1, <2>1, <2>3 DEF IInv, Shown
    <2> QED
      BY <2>2, <2>4 DEF Last
  <1>2. IInv => MountedStays
    BY <1>1 DEF MountedStays, PublishedStays
  <1> QED
    BY <1>2, Invariance, PTL

=============================================================================
