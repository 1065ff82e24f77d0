----------------------- MODULE SvcProvisioningProofs ------------------------
(***************************************************************************)
(* The safety of provisioning on an SVC for any number of threads, calls,  *)
(* names and sizes; VolumeGone and RemovedOnPurpose for any overlap, reuse *)
(* of names, failures and restarts too.                                    *)
(*                                                                         *)
(* Objects are found by id and handled by name.  An id is never used again *)
(* and never changes its name (Binds): this makes Sound inductive whatever *)
(* overlaps.  Advance says what one step of a thread may change; each      *)
(* action is shown once to be such a step, and the invariants above Sound  *)
(* follow from Advance alone.                                              *)
(***************************************************************************)
EXTENDS SvcProvisioning, TLAPS

RPCs == Creates \cup Deletes \cup {"Expand"}

\* The steps of a call: up to the search, filling what was made, removing it.
Looking   == {"lookup", "origin", "slook", "sverify"}
Preparing == {"ssource", "mkvolume"}
Unmapped  == {"created", "findSource", "names", "mkfcmap"}
Filling   == Unmapped \cup {"fcid", "startfcmap", "unmap", "rmfcmap", "rmtarget"}
Removing  == {"find", "target", "sources", "rmmaps", "stop", "rmtargetmap", "rmvolume"}
Expanding == {"xlook", "expand", "xafter"}

Disks      == [uid : Nat \ {NoUid}, size : Nat, copyOf : Nat]
Fcmaps     == [src : Names, rate0 : BOOLEAN, status : MapStatus]
CallRecs   == [op : RPCs \cup {"none"}, name : Names, size : Nat, uid : Nat, source : Nat,
               kind : {"volume", "snapshot"}]
LocRecs    == [pc : Steps, call : CallRecs, name : Names, uid : Nat, cap : Nat, src : Names,
               fc : SUBSET Names, target : {"no", "done", "busy"}, maps : SUBSET Names,
               undo : (Statuses \ {"OK"}) \cup {"none"}, tries : 0..RollbackTries, rounds : 0..2]
AnswerRecs == [call : CallRecs, status : Statuses, uid : Nat]
KnownRecs  == [uid : Nat \ {NoUid}, name : Names, op : Creates]

\* A call that has made its object, knows its id, knows the name of its source.
Made(l)   == l.call.op \in Creates /\ l.pc \in Filling \cup Removing
HasUid(l) == Made(l) /\ l.pc # "created"
HasSrc(l) == \/ l.pc \in {"mkfcmap", "fcid", "startfcmap"}
             \/ l.call.op = "CreateSnapshot" /\ l.pc \in {"mkvolume", "created"}

\* The id u is that of the object n, or of no object any more.
Binds(u, n) == u < nextUid /\ \A m \in Names : Exists(m) /\ vdisk[m].uid = u => m = n

\* The array: ids are unique.
Arrayed ==
    /\ nextUid \in Nat \ {0, 1}
    /\ vdisk \in [Names -> {NoDisk} \cup Disks]
    /\ fcmap \in [Names -> {NoMap} \cup Fcmaps]
    /\ \A m \in Names : Mapped(m) => Exists(m) /\ Exists(fcmap[m].src)
    /\ \A n \in Names : Exists(n) => Binds(vdisk[n].uid, n)

\* A thread: its step is one of its call's, and it handles the object its call names.
InStep(l) ==
    /\ l.pc = "idle" => l = Idle
    /\ l.pc # "idle" => l.call.op # "none"
    /\ l.pc \in {"lookup", "origin", "findSource", "names"} => l.call.op = "CreateVolume"
    /\ l.pc \in {"slook", "sverify", "ssource", "rmtarget"} => l.call.op = "CreateSnapshot"
    /\ l.pc \in Looking \cup Preparing \cup Filling => l.call.op \in Creates
    /\ l.pc \in Removing => l.call.op # "CreateSnapshot"
    /\ l.pc \in {"stop", "rmtargetmap", "rmvolume"} => l.call.op # "Expand"
    /\ l.pc \in Expanding => l.call.op = "Expand"
    /\ l.undo # "none" <=> l.pc \in Removing /\ l.call.op = "CreateVolume"
    /\ l.name = l.call.name
    /\ l.call.op \notin Creates => l.uid = l.call.uid
    /\ l.pc \in {"startfcmap", "rmfcmap"} => \A x, y \in l.fc : x = y
    /\ l.pc \in {"origin", "sverify", "findSource", "names", "mkfcmap", "fcid", "startfcmap"} => l.uid # NoUid
    /\ l.call.op = "CreateVolume" /\ l.pc \in Removing \cup {"unmap", "rmfcmap"} => l.uid # NoUid

\* What a call asks for.
Asks(c) ==
    /\ c \in CallRecs
    /\ c.op \in {"CreateVolume", "Expand"} => c.size \in Sizes
    /\ c.op \in Creates /\ c.source # NoUid => \E k \in Known : k.uid = c.source
    /\ c.op = "CreateSnapshot" => c.source # NoUid
    /\ c.op \in Deletes \cup {"Expand"} => \E k \in Known : k.uid = c.uid /\ k.name = c.name
    /\ c.op = "DeleteSnapshot" => \E k \in Known : k.uid = c.uid /\ k.name = c.name /\ k.op = "CreateSnapshot"

CallOK(c) == Asks(c) /\ (c.op \in Deletes => c.uid \in deleting)

\* What it knows of the objects is true of them.
LocOK(l) ==
    /\ l \in LocRecs /\ InStep(l) /\ CallOK(l.call)
    /\ Binds(l.uid, l.call.name)

AnswerOK(a) ==
    /\ a \in AnswerRecs
    /\ a.status = "OK" /\ a.call.op = "DeleteVolume" => a.call.uid < nextUid /\ NamesOf(a.call.uid) = {}

Counted == calls \in Nat /\ faults \in Nat /\ crashes \in Nat

Sound ==
    /\ Arrayed /\ Counted
    /\ loc \in [Threads -> LocRecs]
    /\ \A t \in Threads : LocOK(loc[t])
    /\ \A a \in answers : AnswerOK(a)
    /\ \A k \in Known : k \in KnownRecs /\ Binds(k.uid, k.name)
    /\ deleting \subseteq {k.uid : k \in Known}

-----------------------------------------------------------------------------
(***************************************************************************)
(* One step of a thread.                                                   *)
(***************************************************************************)

\* What the command of a thread that goes from l to m does to the array.
ArrayStep(l, m) ==
    \/ m.pc = "created" /\ l.pc = "mkvolume" /\ ~Exists(l.name) /\ MkVolume(l.name, Convert(l.cap))
    \/ m.pc # "created" /\
       \/ UNCHANGED arrayVars
       \/ /\ l.pc = "mkfcmap" /\ m.pc = "fcid" /\ Mappable(l.src, l.name)
          /\ MkFcmap(l.src, l.name, l.call.op = "CreateSnapshot")
       \/ l.pc = "startfcmap" /\ m = Idle /\ \E x \in l.fc : Mapped(x) /\ StartFcmap(x)
       \/ l.pc = "rmfcmap" /\ \E x \in l.fc : Mapped(x) /\ RmFcmap(x, FALSE)
       \/ l.pc = "rmmaps" /\ \E x \in l.maps : Mapped(x) /\ RmFcmap(x, FALSE)
       \/ l.pc = "stop" /\ m.pc = "rmtargetmap" /\ Mapped(l.name) /\ StopFcmap(l.name)
       \/ l.pc = "rmtargetmap" /\ m.pc = "rmvolume" /\ Mapped(l.name) /\ RmFcmap(l.name, TRUE)
       \/ l.pc \in {"rmtarget", "rmvolume"} /\ Removable(l.name) /\ RmVolume(l.name)
       \/ /\ l.pc = "expand" /\ m.pc = "xafter" /\ Removable(l.name) /\ Convert(l.call.size) > l.cap
          /\ ExpandVdisk(l.name, Convert(l.call.size) - l.cap)

\* What it has read of its object and its source.
Learns(l, m) ==
    /\ \/ m.uid = l.uid
       \/ Exists(l.name) /\ m.uid = vdisk[l.name].uid /\ l.call.op \in Creates
    /\ m.pc \in {"origin", "sverify"} => Exists(l.name) /\ m.uid = vdisk[l.name].uid
    /\ HasSrc(m) => (HasSrc(l) /\ m.src = l.src) \/ m.src \in NamesOf(l.call.source)

\* The steps of a search, and of a rollback, without failures.
Follows(l, m) ==
    /\ m.pc \in Looking => (m.pc = "origin" /\ l.pc = "lookup") \/ (m.pc = "sverify" /\ l.pc = "slook")
    /\ m.pc \in Preparing => l.pc = "ssource" \/ (l.pc \in {"lookup", "slook"} /\ ~Exists(l.name))
    /\ Made(m) <=> Made(l) \/ m.pc = "created"
    /\ HasUid(m) => (HasUid(l) /\ m.uid = l.uid) \/ (Exists(l.name) /\ m.uid = vdisk[l.name].uid)
    /\ m.pc \in Unmapped => l.pc \in Unmapped \/ m.pc = "created"
    /\ m.pc \in {"startfcmap", "rmfcmap"} => m.fc = FcId(l.name)
    /\ l.pc = "rmfcmap" => \A x \in l.fc : Mapped(x)' => fcmap[x].status = "copying"
    /\ m.pc = "rmtarget" => l.pc = "rmfcmap" \/ (l.pc = "unmap" /\ (~Exists(l.name) \/ FcIds(l.name) = {}))
    /\ m.pc = "rmfcmap" => l.pc = "unmap"
    /\ m.pc = "sources" => l.pc = "target" /\ (m.target = "no" => ~Mapped(l.name))
    /\ m.pc = "rmmaps" => \/ l.pc = "rmmaps" /\ m.target = l.target
                          \/ l.pc = "sources" /\ m.target = l.target
                             /\ (l.call.op = "Expand" \/ MapsFrom(l.name) # {})
    /\ m.pc = "rmtargetmap" => l.pc = "stop"
    /\ l.pc = "rmtargetmap" => m.pc = "rmvolume" /\ ~Mapped(l.name)'
    /\ m.pc = "rmvolume" => l.pc = "rmtargetmap" \/ (l.pc \in {"sources", "rmmaps"} /\ l.target = "no")
    /\ ~(l.call.op \in Deletes /\ l.pc = "rmvolume")

\* The capacities it works with.
Measures(l, m) ==
    /\ m.pc = "mkvolume" =>
          \/ m.cap \in {l.call.size, MinSize} /\ l.call.op = "CreateVolume"
          \/ Exists(m.src) /\ m.cap = vdisk[m.src].size
    /\ m.pc = "target" => Exists(l.name) /\ m.cap = vdisk[l.name].size
    /\ m.pc \in {"sources", "rmmaps", "expand"} => m.cap = l.cap /\ l.pc \in {"target", "sources", "rmmaps"}

\* The call goes on.
Goes(l, m) ==
    /\ m \in LocRecs /\ InStep(m) /\ m.pc # "idle" /\ m.call = l.call
    /\ Learns(l, m)
    /\ faults' = faults => Follows(l, m) /\ Measures(l, m)

\* The call ends: when with OK, and when without having removed what it has made.
EndsOk(l, u) ==
    /\ u \in {l.uid, vdisk[l.name].uid}
    /\ l.undo = "none" /\ l.pc # "rmtargetmap"
    /\ l.call.op \in Creates =>
          \/ l.pc = "created" /\ l.call.source = NoUid /\ Exists(l.name) /\ u = vdisk[l.name].uid
          \/ l.pc = "startfcmap" /\ u = l.uid /\ \E x \in l.fc : Mapped(x) /\ StartFcmap(x)
          \/ l.pc = "origin" /\ u = l.uid /\ (faults' = faults => CopySource(l.name) = l.call.source)
          \/ /\ l.pc = "sverify" /\ u = l.uid /\ CopySource(l.name) = l.call.source
             /\ Mapped(l.name) /\ fcmap[l.name].rate0
    /\ l.call.op = "CreateSnapshot" => l.pc \in {"startfcmap", "sverify"}
    /\ l.call.op = "DeleteVolume" => NamesOf(l.uid)' = {}
    /\ l.call.op = "DeleteSnapshot" =>
          \/ NamesOf(l.uid)' = {}
          \/ l.pc = "find" /\ \A n \in NamesOf(l.uid) : FcIds(n) = {}
          \/ l.pc = "target" /\ ~Mapped(l.name)

EndsBadly(l) ==
    /\ Made(l) => \/ ~Exists(l.name)'
                  \/ l.pc = "find" /\ NamesOf(l.uid) = {}
                  \/ l.pc = "sources" /\ MapsFrom(l.name) # {}
                  \/ l.pc \in {"rmvolume", "rmtarget"} /\ FcIds(l.name) # {}
    /\ l.pc \notin {"startfcmap", "rmtargetmap"}

Fails(l) == faults' = faults => EndsBadly(l)

Ends(l, status, u) == IF status = "OK" THEN EndsOk(l, u) ELSE Fails(l)

Step(t, l, m) ==
    /\ l.pc # "idle" /\ loc' = [loc EXCEPT ![t] = m]
    /\ UNCHANGED <<deleting, calls, crashes>>
    /\ faults' \in {faults, faults + 1} /\ (faults' # faults => faults < MaxFaults)
    /\ ArrayStep(l, m)
    /\ \/ Goes(l, m) /\ UNCHANGED answers
       \/ /\ m = Idle
          /\ \E status \in Statuses, u \in Nat :
                /\ answers' = answers \cup {[call |-> l.call, status |-> status, uid |-> u]}
                /\ Ends(l, status, u)

Advance(t) == \E l, m \in LocRecs : l = loc[t] /\ Step(t, l, m)

-----------------------------------------------------------------------------
(***************************************************************************)
(* The invariants above Sound: calls about one name do not overlap, names  *)
(* are not used again, and no command fails.                               *)
(***************************************************************************)

Calm == ~Overlap /\ ~ReuseNames /\ MaxFaults = 0 /\ MaxCrashes = 0

Fresh(n) == \A k \in Known : k.name # n

Apart == \A t, o \in Threads : t # o /\ loc[t].pc # "idle" /\ loc[o].pc # "idle" =>
            loc[t].call.name # loc[o].call.name

\* What is being made is known to nobody, and what is known stays.
LocAlone(l) ==
    /\ l.pc \in Looking => \A k \in Known : k.name = l.name => k.uid \notin deleting
    /\ l.pc \in Preparing \/ Made(l) => Fresh(l.name)
    /\ l.pc \in {"origin", "sverify"} => Exists(l.name)
    /\ (l.pc \in {"origin", "sverify"} \/ HasUid(l)) /\ Exists(l.name) => vdisk[l.name].uid = l.uid
    /\ HasSrc(l) => \E k \in Known : k.uid = l.call.source /\ k.name = l.src

Stays  == \A k \in Known : k.uid \notin deleting => Exists(k.name) /\ vdisk[k.name].uid = k.uid
OneUid == \A j, k \in Known : j.name = k.name => j.uid = k.uid
Owned  == \A n \in Names : Exists(n) =>
             \/ \E k \in Known : k.uid = vdisk[n].uid /\ k.name = n
             \/ \E t \in Threads : Made(loc[t]) /\ loc[t].call.name = n
FromKnown == \A m \in Names : Mapped(m) => ~Fresh(fcmap[m].src)

\* The mapping of what is being made is the call's own, and not started.
LocMaps(l) ==
    Made(l) =>
        /\ Mapped(l.name) => /\ fcmap[l.name].status = "idle"
                             /\ fcmap[l.name].rate0 = (l.call.op = "CreateSnapshot")
                             /\ vdisk[fcmap[l.name].src].uid = l.call.source
        /\ l.pc \in Unmapped \cup {"rmtarget", "rmvolume"} => ~Mapped(l.name)
        /\ l.pc \in {"sources", "rmmaps"} /\ l.target = "no" => ~Mapped(l.name)
        /\ l.pc # "rmmaps"
        /\ l.pc \in {"startfcmap", "rmfcmap"} => l.fc \subseteq {l.name}
        /\ l.pc = "rmfcmap" /\ Mapped(l.name) => l.name \in l.fc

Alone == /\ Apart /\ Stays /\ OneUid /\ Owned /\ FromKnown
         /\ \A t \in Threads : LocAlone(loc[t]) /\ LocMaps(loc[t])

\* The mapping of what is known has been started, and its target reads as its source.
Started(n) ==
    Mapped(n) => /\ vdisk[n].copyOf = vdisk[fcmap[n].src].uid
                 /\ fcmap[n].status = "copying" \/ (fcmap[n].status = "copied" /\ ~fcmap[n].rate0)

Holds(a) == (a.call.op = "CreateSnapshot" \/ a.call.source # NoUid) /\ a.uid \notin deleting =>
               vdisk[a.call.name].copyOf = a.call.source

\* A snapshot keeps its mapping until the last two commands of its deletion.
Failed(u) == \E b \in answers : b.call.op \in Deletes /\ b.call.uid = u /\ b.status # "OK"
Ending(n) == \E t \in Threads : /\ loc[t].call.op \in Deletes /\ loc[t].call.name = n
                                /\ loc[t].pc \in {"rmtargetmap", "rmvolume"}
Taken(a)  == Exists(a.call.name) =>
                \/ Mapped(a.call.name) /\ fcmap[a.call.name].rate0 /\ fcmap[a.call.name].status = "copying"
                \/ Failed(a.uid)
                \/ Ending(a.call.name)

Gone(u)   == u < nextUid /\ NamesOf(u) = {}

Copied ==
    /\ \A k \in Known : k.uid \notin deleting => Started(k.name)
    /\ \A a \in OkTo(Creates) : Holds(a)
    /\ \A a \in OkTo({"CreateSnapshot"}) : Taken(a)
    /\ \A a \in OkTo({"DeleteSnapshot"}) : Gone(a.call.uid) \/ Failed(a.call.uid)

\* Sizes are those that were asked for, in blocks.
Asked(z) == \E s \in Sizes \cup {MinSize, BlockSize} : z = Convert(s)

Sized ==
    /\ \A n \in Names : Exists(n) => Asked(vdisk[n].size)
    /\ \A t \in Threads :
          /\ loc[t].pc = "mkvolume" => Asked(Convert(loc[t].cap))
          /\ loc[t].call.op = "Expand" /\ loc[t].pc \in {"target", "sources", "rmmaps", "expand"} /\ Exists(loc[t].name)
                => vdisk[loc[t].name].size = loc[t].cap

-----------------------------------------------------------------------------
(***************************************************************************)
(* Each action is such a step.                                             *)
(***************************************************************************)

\* What the handlers leave alone.
Steady(l) == /\ l.pc # "idle" /\ UNCHANGED <<deleting, calls, crashes>>
             /\ faults' \in {faults, faults + 1} /\ (faults' # faults => faults < MaxFaults)

LEMMA IdleIs ==
  /\ Idle \in LocRecs /\ NoCall \in CallRecs /\ NoCall.op = "none" /\ Idle.pc = "idle" /\ Idle.call = NoCall
  /\ Idle.uid = NoUid /\ NoCall.uid = NoUid /\ Idle.undo = "none" /\ Idle.name = NoCall.name
  <1>1. NoCall \in CallRecs
    BY ProvisioningAssumption DEF NoCall, CallRecs, NoUid
  <1>2. 0 \in 0..RollbackTries
    BY ProvisioningAssumption
  <1> QED
    BY <1>1, <1>2, ProvisioningAssumption DEF Idle, LocRecs, Steps, NoUid, NoCall

LEMMA GoesOn ==
  ASSUME Sound, NEW t \in Threads, NEW l, l = loc[t], Steady(l),
         NEW m, Then(t, m), Goes(l, m), ArrayStep(l, m)
  PROVE  Advance(t)
  <1>1. m \in LocRecs /\ l \in LocRecs
    BY DEF Goes, Sound
  <1>2. Step(t, l, m)
    BY DEF Step, Then, Go, Steady
  <1> QED
    BY <1>1, <1>2 DEF Advance

LEMMA EndsNow ==
  ASSUME Sound, NEW t \in Threads, NEW l, l = loc[t], Steady(l),
         NEW status \in Statuses, NEW u \in Nat,
         Reply(t, status, u), Ends(l, status, u), ArrayStep(l, Idle)
  PROVE  Advance(t)
  <1>1. Step(t, l, Idle)
    BY DEF Step, Reply, Go, Steady
  <1>2. l \in LocRecs
    BY DEF Sound
  <1> QED
    BY <1>1, <1>2, IdleIs DEF Advance

LEMMA FailsNow ==
  ASSUME Sound, NEW t \in Threads, NEW l, l = loc[t], Steady(l),
         NEW status \in Statuses \ {"OK"}, Reply(t, status, NoUid), Fails(l), ArrayStep(l, Idle)
  PROVE  Advance(t)
  BY EndsNow DEF Ends, NoUid

\* The facts about a thread that its steps need.
LEMMA LocIs ==
  ASSUME Sound, NEW t \in Threads
  PROVE  /\ loc[t] \in LocRecs /\ InStep(loc[t]) /\ CallOK(loc[t].call) /\ Binds(loc[t].uid, loc[t].call.name)
         /\ loc[t].pc \in Steps /\ loc[t].call.op \in RPCs \cup {"none"} /\ loc[t].uid \in Nat
         /\ loc[t].call \in CallRecs /\ loc[t].name \in Names /\ loc[t].call.name = loc[t].name
         /\ loc[t].src \in Names /\ loc[t].fc \subseteq Names /\ loc[t].maps \subseteq Names
  BY DEF Sound, LocOK, InStep, LocRecs, CallRecs

LEMMA DiskIs ==
  ASSUME Sound, NEW n \in Names
  PROVE  /\ vdisk[n].uid \in Nat /\ vdisk[n].size \in Nat /\ vdisk[n].copyOf \in Nat
         /\ Exists(n) <=> vdisk[n].uid # NoUid
         /\ Exists(n) => vdisk[n] \in Disks
         /\ Mapped(n) => fcmap[n] \in Fcmaps /\ fcmap[n].src \in Names
  <1>1. /\ vdisk \in [Names -> {NoDisk} \cup Disks]
        /\ fcmap \in [Names -> {NoMap} \cup Fcmaps]
    BY DEF Sound, Arrayed
  <1>2. vdisk[n] = NoDisk \/ vdisk[n] \in Disks
    BY <1>1
  <1> QED
    BY <1>1, <1>2 DEF NoDisk, Disks, NoUid, Exists, Mapped, Fcmaps

\* A rollback, and a try or a round of it.
BacksOut(l, m) == /\ m \in LocRecs /\ m.pc = "find" /\ m.undo # "none" /\ m.call = l.call
                  /\ m.name = l.name /\ m.uid = l.uid

MayBackOut(l) ==
    /\ l.uid # NoUid
    /\ faults' = faults =>
          /\ HasUid(l) /\ l.pc # "rmtargetmap"
          /\ l.pc = "rmfcmap" => \A x \in l.fc : Mapped(x)' => fcmap[x].status = "copying"

LEMMA UndoGoes ==
  ASSUME NEW l \in LocRecs, InStep(l), l.call.op = "CreateVolume", MayBackOut(l), NEW m, BacksOut(l, m)
  PROVE  Goes(l, m) /\ m.pc # "created"
  BY DEF BacksOut, MayBackOut, Goes, Learns, Follows, Measures, InStep, Made, HasUid, HasSrc, Creates, Deletes,
         Looking, Preparing, Unmapped, Filling, Removing, Expanding

LEMMA UndoIs ==
  ASSUME NEW l \in LocRecs, NEW status \in Statuses \ {"OK"}, NEW rounds \in 0..2
  PROVE  BacksOut(l, Undo(l, status, rounds))
  <1>1. RollbackTries \in 0..RollbackTries /\ status # "none"
    BY ProvisioningAssumption DEF Statuses
  <1> QED
    BY <1>1 DEF BacksOut, Undo, LocRecs, Steps

\* The array does not tell the end of a call from its going on.
Plain(l) == \A m : m.pc # "created" => ArrayStep(l, m)

LEMMA UndoAdvances ==
  ASSUME Sound, NEW t \in Threads, NEW l, l = loc[t], Steady(l), l.call.op = "CreateVolume", MayBackOut(l),
         NEW status \in Statuses \ {"OK"}, NEW rounds \in 0..2,
         Then(t, Undo(l, status, rounds)), Plain(l)
  PROVE  Advance(t)
  <1>1. l \in LocRecs /\ InStep(l)
    BY LocIs
  <1> PICK m : m = Undo(l, status, rounds)
    OBVIOUS
  <1>2. BacksOut(l, m)
    BY <1>1, UndoIs
  <1>3. Goes(l, m) /\ ArrayStep(l, m)
    BY <1>1, <1>2, UndoGoes DEF BacksOut, Plain
  <1> QED
    BY <1>3, GoesOn

LEMMA UndoNextAdvances ==
  ASSUME Sound, NEW t \in Threads, NEW l, l = loc[t], Steady(l), l.undo # "none", l.pc # "rmtargetmap" \/ faults' # faults,
         NEW ok \in BOOLEAN, NEW status, ok \/ status \in Statuses \ {"OK"}, UndoNext(t, ok, status),
         Plain(l), Fails(l)
  PROVE  Advance(t)
  <1>1. /\ l \in LocRecs /\ InStep(l)
        /\ l.undo \in Statuses \ {"OK"} /\ l.tries \in 0..RollbackTries /\ l.rounds \in 0..2
    BY LocIs DEF LocRecs
  <1>2. l.call.op = "CreateVolume" /\ l.pc \in Removing /\ MayBackOut(l) /\ ArrayStep(l, Idle)
    <2>1. l.call.op = "CreateVolume" /\ l.pc \in Removing
      BY <1>1 DEF InStep
    <2>2. MayBackOut(l)
      BY <1>1, <2>1 DEF MayBackOut, HasUid, Made, Creates, Removing, InStep
    <2> QED
      BY <2>1, <2>2, IdleIs DEF Plain
  <1> DEFINE end == IF ok THEN l.undo ELSE status
  <1>3. end \in Statuses \ {"OK"}
    BY <1>1
  <1>4. CASE ~ok /\ l.tries > 1
    <2> PICK m : m = [l EXCEPT !.pc = "find", !.tries = l.tries - 1]
      OBVIOUS
    <2>1. Then(t, m)
      BY <1>4 DEF UndoNext
    <2>2. l.tries - 1 \in 0..RollbackTries
      BY <1>1, <1>4, ProvisioningAssumption
    <2>3. BacksOut(l, m)
      <3>1. "find" \in Steps
        BY DEF Steps
      <3>2. m \in LocRecs
        BY <1>1, <2>2, <3>1 DEF LocRecs
      <3> QED
        BY <1>1, <3>2 DEF BacksOut, LocRecs
    <2>4. Goes(l, m) /\ ArrayStep(l, m)
      BY <1>1, <1>2, <2>3, UndoGoes DEF Plain, BacksOut
    <2> QED
      BY <2>1, <2>4, GoesOn
  <1>5. CASE ~(~ok /\ l.tries > 1) /\ l.rounds > 1
    <2>1. l.rounds - 1 \in 0..2
      BY <1>1, <1>5
    <2>2. Then(t, Undo(l, end, l.rounds - 1))
      BY <1>5 DEF UndoNext
    <2> HIDE DEF end
    <2> PICK rounds \in 0..2 : rounds = l.rounds - 1
      BY <2>1
    <2>3. Then(t, Undo(l, end, rounds))
      BY <2>2
    <2> QED
      BY <1>2, <1>3, <2>3, UndoAdvances
  <1>6. CASE ~(~ok /\ l.tries > 1) /\ ~(l.rounds > 1)
    <2>1. Reply(t, end, NoUid)
      BY <1>6 DEF UndoNext
    <2> HIDE DEF end
    <2> QED
      BY <1>2, <2>1, <1>3, FailsNow
  <1> QED
    BY <1>4, <1>5, <1>6

LEMMA RaiseAdvances ==
  ASSUME Sound, NEW t \in Threads, NEW l, l = loc[t], Steady(l), l.pc # "rmtargetmap" \/ faults' # faults,
         NEW status \in Statuses \ {"OK"}, Raise(t, status), Plain(l), Fails(l)
  PROVE  Advance(t)
  <1>1. CASE l.undo = "none"
    <2>1. Reply(t, status, NoUid)
      BY <1>1 DEF Raise
    <2> QED
      BY <2>1, FailsNow, IdleIs DEF Plain
  <1>2. CASE l.undo # "none"
    <2>1. UndoNext(t, FALSE, status)
      BY <1>2 DEF Raise
    <2> QED
      BY <2>1, <1>2, UndoNextAdvances
  <1> QED
    BY <1>1, <1>2

\* A command that only reads.
LEMMA ReadsOnly ==
  ASSUME Sound, NEW t \in Threads, NEW l, l = loc[t], l.pc # "idle", ReadOnly
  PROVE  /\ Steady(l) /\ Plain(l) /\ ArrayStep(l, Idle) /\ faults' = faults
         /\ UNCHANGED <<vdisk, fcmap, nextUid>>
         /\ \A n : NamesOf(n)' = NamesOf(n)
         /\ \A n : Exists(n)' <=> Exists(n)
  <1>1. UNCHANGED <<vdisk, fcmap, nextUid, deleting, calls, faults, crashes>>
    BY DEF ReadOnly
  <1>2. Steady(l)
    BY <1>1 DEF Steady
  <1>3. \A m : m.pc # "created" => ArrayStep(l, m)
    BY <1>1 DEF ArrayStep, arrayVars
  <1>4. Plain(l) /\ ArrayStep(l, Idle)
    BY <1>3, IdleIs DEF Plain
  <1>5. \A n : Exists(n)' <=> Exists(n)
    BY <1>1 DEF Exists
  <1>6. \A n : NamesOf(n)' = NamesOf(n)
    BY <1>1, <1>5 DEF NamesOf
  <1> QED
    BY <1>1, <1>2, <1>3, <1>4, <1>5, <1>6

\* A call that fails before it has made anything.
LEMMA EarlyFails ==
  ASSUME NEW l \in LocRecs, ~Made(l), l.pc \notin {"startfcmap", "rmtargetmap"}
  PROVE  Fails(l)
  BY DEF Fails, EndsBadly

\* A thread that goes to its next command as it is.
Keeps(l, m, pc) ==
    /\ m \in LocRecs /\ m.pc = pc /\ m.call = l.call /\ m.name = l.name /\ m.uid = l.uid /\ m.cap = l.cap
    /\ m.src = l.src /\ m.fc = l.fc /\ m.target = l.target /\ m.maps = l.maps /\ m.undo = l.undo

LEMMA ToIs ==
  ASSUME NEW l \in LocRecs, NEW pc \in Steps
  PROVE  Keeps(l, [l EXCEPT !.pc = pc], pc)
  BY DEF Keeps, LocRecs

LEMMA LookupAdvances ==
  ASSUME Sound, NEW t \in Threads, Lookup(t)
  PROVE  Advance(t)
  <1> PICK l : l = loc[t]
    OBVIOUS
  <1>1. l.pc = "lookup" /\ ReadOnly
    BY DEF Lookup
  <1>2. /\ l \in LocRecs /\ InStep(l) /\ l.call.op = "CreateVolume" /\ ~Made(l) /\ l.call.name = l.name
        /\ l.name \in Names
        /\ Steady(l) /\ ArrayStep(l, Idle) /\ Plain(l)
    BY <1>1, LocIs, ReadsOnly DEF InStep, Made, Creates, Looking, Preparing, Unmapped, Filling, Removing, Expanding
  <1>3. CASE Reply(t, "OUT_OF_RANGE", NoUid)
    BY <1>1, <1>2, <1>3, EarlyFails, FailsNow DEF Statuses
  <1>4. CASE Exists(l.name) /\ Then(t, [l EXCEPT !.pc = "origin", !.uid = vdisk[l.name].uid,
                                                 !.cap = vdisk[l.name].size])
    <2> PICK m : m = [l EXCEPT !.pc = "origin", !.uid = vdisk[l.name].uid, !.cap = vdisk[l.name].size]
      OBVIOUS
    <2>1. "origin" \in Steps /\ vdisk[l.name].uid \in Nat \ {NoUid} /\ vdisk[l.name].size \in Nat
      BY <1>2, <1>4, DiskIs DEF Steps
    <2>2. /\ m \in LocRecs /\ m.pc = "origin" /\ m.call = l.call /\ m.name = l.name /\ m.uid = vdisk[l.name].uid
          /\ m.undo = l.undo
      BY <1>2, <2>1 DEF LocRecs
    <2>3. Goes(l, m)
      BY <1>1, <1>2, <1>4, <2>1, <2>2
      DEF Goes, Learns, Follows, Measures, InStep, Made, HasUid, HasSrc, Creates, Deletes,
         Looking, Preparing, Unmapped, Filling, Removing, Expanding
    <2> QED
      BY <1>2, <1>4, <2>2, <2>3, GoesOn DEF Plain
  <1>5. CASE ~Exists(l.name) /\ Then(t, [l EXCEPT !.pc = "mkvolume",
                                                  !.cap = IF l.call.size = 0 THEN MinSize ELSE l.call.size])
    <2> PICK cap : cap = IF l.call.size = 0 THEN MinSize ELSE l.call.size
      OBVIOUS
    <2> PICK m : m = [l EXCEPT !.pc = "mkvolume", !.cap = cap]
      OBVIOUS
    <2>1. "mkvolume" \in Steps /\ cap \in Nat /\ cap \in {l.call.size, MinSize}
      BY <1>2, ProvisioningAssumption DEF Steps, LocRecs, CallRecs
    <2>2. /\ m \in LocRecs /\ m.pc = "mkvolume" /\ m.call = l.call /\ m.name = l.name /\ m.uid = l.uid
          /\ m.undo = l.undo /\ m.cap = cap
      BY <1>2, <2>1 DEF LocRecs
    <2>3. Goes(l, m)
      BY <1>1, <1>2, <1>5, <2>1, <2>2
      DEF Goes, Learns, Follows, Measures, InStep, Made, HasUid, HasSrc, Creates, Deletes,
         Looking, Preparing, Unmapped, Filling, Removing, Expanding
    <2> QED
      BY <1>2, <1>5, <2>2, <2>3, GoesOn DEF Plain
  <1> QED
    BY <1>2, <1>3, <1>4, <1>5 DEF Lookup, Then

LEMMA OriginAdvances ==
  ASSUME Sound, NEW t \in Threads, Origin(t)
  PROVE  Advance(t)
  <1> PICK l : l = loc[t]
    OBVIOUS
  <1>1. l.pc = "origin" /\ ReadOnly
    BY DEF Origin
  <1>2. /\ l \in LocRecs /\ InStep(l) /\ l.call.op = "CreateVolume" /\ l.undo = "none" /\ ~Made(l)
        /\ l.uid \in Nat /\ l.call.name = l.name
        /\ Steady(l) /\ ArrayStep(l, Idle)
    BY <1>1, LocIs, ReadsOnly DEF InStep, Made, Creates, Looking, Preparing, Unmapped, Filling, Removing, Expanding
  <1>3. CASE Reply(t, "ALREADY_EXISTS", NoUid)
    BY <1>1, <1>2, <1>3, EarlyFails, FailsNow DEF Statuses
  <1>4. CASE CopySource(l.name) = l.call.source /\ Reply(t, "OK", l.uid)
    <2>1. Ends(l, "OK", l.uid)
      BY <1>1, <1>2, <1>4 DEF Ends, EndsOk
    <2> QED
      BY <1>2, <1>4, <2>1, EndsNow DEF Statuses
  <1> QED
    BY <1>2, <1>3, <1>4 DEF Origin, HandleExisting

LEMMA MakeVolumeAdvances ==
  ASSUME Sound, NEW t \in Threads, MakeVolume(t)
  PROVE  Advance(t)
  <1> PICK l : l = loc[t]
    OBVIOUS
  <1>1. l.pc = "mkvolume" /\ Bounds
    BY DEF MakeVolume
  <1>2. l \in LocRecs /\ InStep(l) /\ ~Made(l) /\ l.call.op \in Creates /\ l.call.name = l.name /\ Steady(l)
    BY <1>1, LocIs DEF InStep, Made, Creates, Looking, Preparing, Unmapped, Filling, Removing, Expanding, Steady, Bounds
  <1>3. CASE Exists(l.name)
    <2> PICK status : status = IF l.call.op = "CreateVolume" THEN "ALREADY_EXISTS" ELSE "INTERNAL"
      OBVIOUS
    <2>1. status \in Statuses \ {"OK"} /\ Reply(t, status, NoUid) /\ UNCHANGED arrayVars
      BY <1>2, <1>3 DEF MakeVolume, Statuses
    <2>2. ArrayStep(l, Idle)
      BY <2>1, IdleIs DEF ArrayStep
    <2> QED
      BY <1>1, <1>2, <2>1, <2>2, EarlyFails, FailsNow
  <1>4. CASE ~Exists(l.name)
    <2> PICK m : m = [l EXCEPT !.pc = "created"]
      OBVIOUS
    <2>1. MkVolume(l.name, Convert(l.cap)) /\ Then(t, m)
      BY <1>2, <1>4 DEF MakeVolume, Then
    <2>2. Keeps(l, m, "created")
      BY <1>2, ToIs DEF Steps
    <2>3. Goes(l, m)
      BY <1>1, <1>2, <2>2
      DEF Keeps, Goes, Learns, Follows, Measures, InStep, Made, HasUid, HasSrc, Creates, Deletes,
         Looking, Preparing, Unmapped, Filling, Removing, Expanding
    <2>4. ArrayStep(l, m)
      BY <1>1, <1>4, <2>1, <2>2 DEF Keeps, ArrayStep
    <2> QED
      BY <1>2, <2>1, <2>3, <2>4, GoesOn
  <1> QED
    BY <1>3, <1>4

LEMMA CreatedAdvances ==
  ASSUME Sound, NEW t \in Threads, Created(t)
  PROVE  Advance(t)
  <1> PICK l : l = loc[t]
    OBVIOUS
  <1>1. l.pc = "created" /\ ReadOnly
    BY DEF Created
  <1>2. /\ l \in LocRecs /\ InStep(l) /\ l.call.op \in Creates /\ Made(l) /\ l.call.name = l.name /\ l.undo = "none"
        /\ l.name \in Names
        /\ Steady(l) /\ ArrayStep(l, Idle) /\ Plain(l) /\ (Exists(l.name)' <=> Exists(l.name))
    BY <1>1, LocIs, ReadsOnly DEF InStep, Made, Creates, Looking, Preparing, Unmapped, Filling, Removing, Expanding
  <1>3. CASE ~Exists(l.name) /\ Reply(t, "NOT_FOUND", NoUid)
    <2>1. Fails(l)
      BY <1>1, <1>2, <1>3 DEF Fails, EndsBadly
    <2> QED
      BY <1>2, <1>3, <2>1, FailsNow DEF Statuses
  <1>4. CASE Exists(l.name) /\ l.call.op = "CreateVolume" /\ l.call.source = NoUid
             /\ Reply(t, "OK", vdisk[l.name].uid)
    <2>1. Ends(l, "OK", vdisk[l.name].uid)
      BY <1>1, <1>2, <1>4 DEF Ends, EndsOk
    <2> QED
      BY <1>2, <1>4, <2>1, EndsNow, DiskIs DEF Statuses
  <1>5. CASE Exists(l.name) /\ Then(t, [l EXCEPT !.uid = vdisk[l.name].uid,
                                !.pc = IF l.call.op = "CreateVolume" THEN "findSource" ELSE "mkfcmap"])
    <2> PICK pc : pc = IF l.call.op = "CreateVolume" THEN "findSource" ELSE "mkfcmap"
      OBVIOUS
    <2> PICK m : m = [l EXCEPT !.uid = vdisk[l.name].uid, !.pc = pc]
      OBVIOUS
    <2>1. pc \in Steps /\ vdisk[l.name].uid \in Nat \ {NoUid}
      BY <1>2, <1>5, DiskIs DEF Steps
    <2>2. /\ m \in LocRecs /\ m.pc = pc /\ m.call = l.call /\ m.name = l.name /\ m.uid = vdisk[l.name].uid
          /\ m.undo = l.undo /\ m.src = l.src
      BY <1>2, <2>1, ZenonT(30) DEF LocRecs
    <2>3. CASE l.call.op = "CreateVolume"
      <3>1. m.pc = "findSource"
        BY <2>2, <2>3
      <3>2. Goes(l, m)
        BY <1>1, <1>2, <1>5, <2>1, <2>2, <2>3, <3>1
        DEF Goes, Learns, Follows, Measures, InStep, Made, HasUid, HasSrc, Creates, Deletes,
         Looking, Preparing, Unmapped, Filling, Removing, Expanding
      <3> QED
        BY <1>2, <1>5, <3>1, <3>2, GoesOn DEF Plain
    <2>4. CASE l.call.op = "CreateSnapshot"
      <3>1. m.pc = "mkfcmap"
        BY <2>2, <2>4
      <3>2. Goes(l, m)
        BY <1>1, <1>2, <1>5, <2>1, <2>2, <2>4, <3>1
        DEF Goes, Learns, Follows, Measures, InStep, Made, HasUid, HasSrc, Creates, Deletes,
         Looking, Preparing, Unmapped, Filling, Removing, Expanding
      <3> QED
        BY <1>2, <1>5, <3>1, <3>2, GoesOn DEF Plain
    <2> QED
      BY <1>2, <2>3, <2>4 DEF Creates
  <1> QED
    BY <1>2, <1>3, <1>4, <1>5 DEF Created, Then

LEMMA FindSourceAdvances ==
  ASSUME Sound, NEW t \in Threads, FindSource(t)
  PROVE  Advance(t)
  <1> PICK l : l = loc[t]
    OBVIOUS
  <1>1. l.pc = "findSource" /\ ReadOnly
    BY DEF FindSource
  <1>2. /\ l \in LocRecs /\ InStep(l) /\ l.call.op = "CreateVolume" /\ MayBackOut(l)
        /\ Steady(l) /\ Plain(l)
    BY <1>1, LocIs, ReadsOnly DEF MayBackOut, HasUid, InStep, Made, Creates, Looking, Preparing, Unmapped, Filling, Removing, Expanding
  <1>3. CASE \E status \in {"NOT_FOUND", "INVALID_ARGUMENT"}, rounds \in {1, 2} : Then(t, Undo(l, status, rounds))
    <2> PICK status \in {"NOT_FOUND", "INVALID_ARGUMENT"}, rounds \in {1, 2} : Then(t, Undo(l, status, rounds))
      BY <1>3
    <2>1. status \in Statuses \ {"OK"} /\ rounds \in 0..2
      BY DEF Statuses
    <2> QED
      BY <1>2, <2>1, UndoAdvances
  <1>4. CASE Then(t, [l EXCEPT !.pc = "names"])
    <2> PICK m : m = [l EXCEPT !.pc = "names"]
      OBVIOUS
    <2>1. Keeps(l, m, "names")
      BY <1>2, ToIs DEF Steps
    <2>2. Goes(l, m)
      BY <1>1, <1>2, <2>1
      DEF Keeps, Goes, Learns, Follows, Measures, InStep, Made, HasUid, HasSrc, Creates, Deletes,
         Looking, Preparing, Unmapped, Filling, Removing, Expanding
    <2> QED
      BY <1>2, <1>4, <2>1, <2>2, GoesOn DEF Keeps, Plain
  <1> QED
    BY <1>3, <1>4 DEF FindSource, Then

LEMMA ResolveNamesAdvances ==
  ASSUME Sound, NEW t \in Threads, ResolveNames(t)
  PROVE  Advance(t)
  <1> PICK l : l = loc[t]
    OBVIOUS
  <1>1. l.pc = "names" /\ ReadOnly
    BY DEF ResolveNames
  <1>2. /\ l \in LocRecs /\ InStep(l) /\ l.call.op = "CreateVolume" /\ MayBackOut(l) /\ l.call.name = l.name
        /\ Binds(l.uid, l.call.name)
        /\ Steady(l) /\ Plain(l)
    BY <1>1, LocIs, ReadsOnly DEF MayBackOut, HasUid, InStep, Made, Creates, Looking, Preparing, Unmapped, Filling, Removing, Expanding
  <1>3. CASE Then(t, Undo(l, "NOT_FOUND", 1))
    <2>1. "NOT_FOUND" \in Statuses \ {"OK"} /\ 1 \in 0..2
      BY DEF Statuses
    <2> QED
      BY <1>2, <1>3, <2>1, UndoAdvances
  <1>4. CASE \E s \in NamesOf(l.call.source), n \in NamesOf(l.uid) :
                Then(t, [l EXCEPT !.pc = "mkfcmap", !.src = s, !.name = n])
    <2> PICK s \in NamesOf(l.call.source), n \in NamesOf(l.uid) :
                Then(t, [l EXCEPT !.pc = "mkfcmap", !.src = s, !.name = n])
      BY <1>4
    <2> PICK m : m = [l EXCEPT !.pc = "mkfcmap", !.src = s, !.name = n]
      OBVIOUS
    <2>1. "mkfcmap" \in Steps /\ s \in Names /\ n \in Names /\ n = l.name
      BY <1>2 DEF Steps, NamesOf, Binds
    <2>2. /\ m \in LocRecs /\ m.pc = "mkfcmap" /\ m.call = l.call /\ m.name = l.name /\ m.uid = l.uid
          /\ m.undo = l.undo /\ m.src = s
      BY <1>2, <2>1 DEF LocRecs
    <2>3. Goes(l, m)
      BY <1>1, <1>2, <2>1, <2>2
      DEF Goes, Learns, Follows, Measures, InStep, Made, HasUid, HasSrc, Creates, Deletes,
         Looking, Preparing, Unmapped, Filling, Removing, Expanding
    <2> QED
      BY <1>2, <2>2, <2>3, GoesOn DEF Plain
  <1> QED
    BY <1>3, <1>4 DEF ResolveNames, Then

LEMMA CreateFcmapAdvances ==
  ASSUME Sound, NEW t \in Threads, CreateFcmap(t)
  PROVE  Advance(t)
  <1> PICK l : l = loc[t]
    OBVIOUS
  <1>1. l.pc = "mkfcmap" /\ Bounds /\ UNCHANGED answers
    BY DEF CreateFcmap
  <1>2. l \in LocRecs /\ InStep(l) /\ Made(l) /\ l.call.op \in Creates /\ Steady(l)
    BY <1>1, LocIs DEF InStep, Made, Creates, Looking, Preparing, Unmapped, Filling, Removing, Expanding, Steady, Bounds
  <1>3. ASSUME NEW pc \in {"fcid", "unmap"}, NEW m, m = [l EXCEPT !.pc = pc]
        PROVE  Goes(l, m) /\ m.pc = pc
    <2>1. pc \in Steps
      BY DEF Steps
    <2>2. Keeps(l, m, pc)
      BY <1>2, <1>3, <2>1, ToIs
    <2>3. Goes(l, m)
      BY <1>1, <1>2, <2>2
      DEF Keeps, Goes, Learns, Follows, Measures, InStep, Made, HasUid, HasSrc, Creates, Deletes,
         Looking, Preparing, Unmapped, Filling, Removing, Expanding
    <2> QED
      BY <2>2, <2>3 DEF Keeps
  <1>4. CASE Mappable(l.src, l.name)
    <2> PICK m : m = [l EXCEPT !.pc = "fcid"]
      OBVIOUS
    <2>1. MkFcmap(l.src, l.name, l.call.op = "CreateSnapshot") /\ Then(t, m)
      BY <1>1, <1>4 DEF CreateFcmap, Then
    <2>2. Goes(l, m) /\ m.pc = "fcid"
      BY <1>3
    <2>3. ArrayStep(l, m)
      BY <1>1, <1>4, <2>1, <2>2 DEF ArrayStep
    <2> QED
      BY <1>2, <2>1, <2>2, <2>3, GoesOn
  <1>5. CASE ~Mappable(l.src, l.name)
    <2> PICK pc \in {"fcid", "unmap"} :
           pc = IF Mapped(l.name) /\ fcmap[l.name].src = l.src THEN "fcid" ELSE "unmap"
      OBVIOUS
    <2> PICK m : m = [l EXCEPT !.pc = pc]
      OBVIOUS
    <2>1. UNCHANGED arrayVars /\ Then(t, m)
      BY <1>1, <1>5 DEF CreateFcmap, Then
    <2>2. Goes(l, m) /\ m.pc # "created"
      BY <1>3
    <2>3. ArrayStep(l, m)
      BY <2>1, <2>2 DEF ArrayStep
    <2> QED
      BY <1>2, <2>1, <2>2, <2>3, GoesOn
  <1> QED
    BY <1>4, <1>5

LEMMA FcIdIs ==
  ASSUME NEW n
  PROVE  FcId(n) \subseteq Names /\ \A x, y \in FcId(n) : x = y
  BY DEF FcId, FcIds

LEMMA ReadFcIdAdvances ==
  ASSUME Sound, NEW t \in Threads, ReadFcId(t)
  PROVE  Advance(t)
  <1> PICK l : l = loc[t]
    OBVIOUS
  <1>1. l.pc = "fcid" /\ ReadOnly
    BY DEF ReadFcId
  <1>2. /\ l \in LocRecs /\ InStep(l) /\ l.call.op \in Creates /\ Made(l) /\ MayBackOut(l)
        /\ Steady(l) /\ Plain(l) /\ ArrayStep(l, Idle) /\ (Exists(l.name)' <=> Exists(l.name))
    BY <1>1, LocIs, ReadsOnly DEF MayBackOut, HasUid, InStep, Made, Creates, Looking, Preparing, Unmapped, Filling, Removing, Expanding
  <1>3. CASE Then(t, [l EXCEPT !.pc = "startfcmap", !.fc = FcId(l.name)])
    <2> PICK m : m = [l EXCEPT !.pc = "startfcmap", !.fc = FcId(l.name)]
      OBVIOUS
    <2>1. "startfcmap" \in Steps /\ FcId(l.name) \subseteq Names /\ \A x, y \in FcId(l.name) : x = y
      BY FcIdIs DEF Steps
    <2>2. /\ m \in LocRecs /\ m.pc = "startfcmap" /\ m.call = l.call /\ m.name = l.name /\ m.uid = l.uid
          /\ m.undo = l.undo /\ m.src = l.src /\ m.fc = FcId(l.name)
      BY <1>2, <2>1 DEF LocRecs
    <2>3. Goes(l, m)
      BY <1>1, <1>2, <2>1, <2>2
      DEF Goes, Learns, Follows, Measures, InStep, Made, HasUid, HasSrc, Creates, Deletes,
         Looking, Preparing, Unmapped, Filling, Removing, Expanding
    <2> QED
      BY <1>2, <1>3, <2>2, <2>3, GoesOn DEF Plain
  <1>4. CASE l.call.op = "CreateVolume" /\ Then(t, Undo(l, "NOT_FOUND", 1))
    <2>1. "NOT_FOUND" \in Statuses \ {"OK"} /\ 1 \in 0..2
      BY DEF Statuses
    <2> QED
      BY <1>2, <1>4, <2>1, UndoAdvances
  <1>5. CASE ~Exists(l.name) /\ Reply(t, "NOT_FOUND", NoUid)
    <2>1. Fails(l)
      BY <1>1, <1>2, <1>5 DEF Fails, EndsBadly
    <2> QED
      BY <1>2, <1>5, <2>1, FailsNow DEF Statuses
  <1> QED
    BY <1>3, <1>4, <1>5 DEF ReadFcId, Then

LEMMA StartCopyAdvances ==
  ASSUME Sound, NEW t \in Threads, StartCopy(t)
  PROVE  Advance(t)
  <1> PICK l : l = loc[t]
    OBVIOUS
  <1>1. l.pc = "startfcmap" /\ Bounds
    BY DEF StartCopy
  <1>2. /\ l \in LocRecs /\ InStep(l) /\ Made(l) /\ l.call.op \in Creates /\ Steady(l) /\ l.undo = "none"
        /\ l.uid \in Nat
    BY <1>1, LocIs DEF InStep, Made, Creates, Looking, Preparing, Unmapped, Filling, Removing, Expanding, Steady, Bounds
  <1>3. CASE \E x \in l.fc : Mapped(x)
    <2>1. (\E x \in l.fc : Mapped(x) /\ StartFcmap(x)) /\ Reply(t, "OK", l.uid)
      BY <1>3 DEF StartCopy
    <2>2. Ends(l, "OK", l.uid)
      BY <1>1, <1>2, <2>1 DEF Ends, EndsOk, Creates
    <2>3. ArrayStep(l, Idle)
      BY <1>1, <2>1, IdleIs DEF ArrayStep
    <2> QED
      BY <1>2, <2>1, <2>2, <2>3, EndsNow DEF Statuses
  <1>4. CASE ~(\E x \in l.fc : Mapped(x))
    <2> PICK m : m = [l EXCEPT !.pc = "unmap"]
      OBVIOUS
    <2>1. Then(t, m) /\ UNCHANGED arrayVars
      BY <1>4 DEF StartCopy, Then, arrayVars
    <2>2. Keeps(l, m, "unmap")
      BY <1>2, ToIs DEF Steps
    <2>3. Goes(l, m)
      BY <1>1, <1>2, <2>2
      DEF Keeps, Goes, Learns, Follows, Measures, InStep, Made, HasUid, HasSrc, Creates, Deletes,
         Looking, Preparing, Unmapped, Filling, Removing, Expanding
    <2>4. ArrayStep(l, m)
      BY <2>1, <2>2 DEF ArrayStep, Keeps
    <2> QED
      BY <1>2, <2>1, <2>3, <2>4, GoesOn
  <1> QED
    BY <1>3, <1>4

\* The rollback after the unstarted mapping.
LEMMA AfterUnmapAdvances ==
  ASSUME Sound, NEW t \in Threads, NEW l, l = loc[t], Steady(l), l.pc \in {"unmap", "rmfcmap"},
         Then(t, AfterUnmap(l)), Plain(l),
         faults' = faults /\ l.pc = "unmap" => ~Exists(l.name) \/ FcIds(l.name) = {},
         faults' = faults /\ l.pc = "rmfcmap" => \A x \in l.fc : Mapped(x)' => fcmap[x].status = "copying"
  PROVE  Advance(t)
  <1>1. /\ l \in LocRecs /\ InStep(l) /\ l.call.op \in Creates /\ l.tries \in 0..RollbackTries
        /\ l.call.op = "CreateVolume" => MayBackOut(l)
    BY LocIs DEF MayBackOut, HasUid, InStep, Made, Creates, Looking, Preparing, Unmapped, Filling, Removing, Expanding, LocRecs
  <1>2. CASE l.call.op = "CreateVolume"
    <2>1. "INTERNAL" \in Statuses \ {"OK"} /\ 1 \in 0..2
      BY DEF Statuses
    <2> QED
      BY <1>1, <1>2, <2>1, UndoAdvances DEF AfterUnmap
  <1>3. CASE l.call.op = "CreateSnapshot"
    <2> PICK tries : tries = IF l.tries = 0 THEN RollbackTries ELSE l.tries
      OBVIOUS
    <2> PICK m : m = [l EXCEPT !.pc = "rmtarget", !.tries = tries]
      OBVIOUS
    <2>1. Then(t, m)
      BY <1>3 DEF AfterUnmap
    <2>2. "rmtarget" \in Steps /\ tries \in 0..RollbackTries
      BY <1>1, ProvisioningAssumption DEF Steps
    <2>3. /\ m \in LocRecs /\ m.pc = "rmtarget" /\ m.call = l.call /\ m.name = l.name /\ m.uid = l.uid
          /\ m.undo = l.undo
      BY <1>1, <2>2, ZenonT(30) DEF LocRecs
    <2>4. Goes(l, m)
      BY <1>1, <1>3, <2>3
      DEF Goes, Learns, Follows, Measures, InStep, Made, HasUid, HasSrc, Creates, Deletes,
         Looking, Preparing, Unmapped, Filling, Removing, Expanding
    <2> QED
      BY <2>1, <2>3, <2>4, GoesOn DEF Plain
  <1> QED
    BY <1>1, <1>2, <1>3 DEF Creates

LEMMA UnmapAdvances ==
  ASSUME Sound, NEW t \in Threads, Unmap(t)
  PROVE  Advance(t)
  <1> PICK l : l = loc[t]
    OBVIOUS
  <1>1. l.pc = "unmap" /\ ReadOnly
    BY DEF Unmap
  <1>2. /\ l \in LocRecs /\ InStep(l) /\ l.call.op \in Creates /\ Made(l)
        /\ Steady(l) /\ Plain(l) /\ ArrayStep(l, Idle) /\ (Exists(l.name)' <=> Exists(l.name))
    BY <1>1, LocIs, ReadsOnly DEF InStep, Made, Creates, Looking, Preparing, Unmapped, Filling, Removing, Expanding
  <1>3. CASE Then(t, [l EXCEPT !.pc = "rmfcmap", !.fc = FcId(l.name)])
    <2> PICK m : m = [l EXCEPT !.pc = "rmfcmap", !.fc = FcId(l.name)]
      OBVIOUS
    <2>1. "rmfcmap" \in Steps /\ FcId(l.name) \subseteq Names /\ \A x, y \in FcId(l.name) : x = y
      BY FcIdIs DEF Steps
    <2>2. /\ m \in LocRecs /\ m.pc = "rmfcmap" /\ m.call = l.call /\ m.name = l.name /\ m.uid = l.uid
          /\ m.undo = l.undo /\ m.fc = FcId(l.name)
      BY <1>2, <2>1 DEF LocRecs
    <2>3. Goes(l, m)
      BY <1>1, <1>2, <2>1, <2>2
      DEF Goes, Learns, Follows, Measures, InStep, Made, HasUid, HasSrc, Creates, Deletes,
         Looking, Preparing, Unmapped, Filling, Removing, Expanding
    <2> QED
      BY <1>2, <1>3, <2>2, <2>3, GoesOn DEF Plain
  <1>4. CASE ~Exists(l.name) /\ Reply(t, "INTERNAL", NoUid)
    <2>1. Fails(l)
      BY <1>1, <1>2, <1>4 DEF Fails, EndsBadly
    <2> QED
      BY <1>2, <1>4, <2>1, FailsNow DEF Statuses
  <1>5. CASE (~Exists(l.name) \/ FcIds(l.name) = {}) /\ Then(t, AfterUnmap(l))
    BY <1>1, <1>2, <1>5, AfterUnmapAdvances
  <1> QED
    BY <1>3, <1>4, <1>5 DEF Unmap, Then

LEMMA RemoveUnstartedAdvances ==
  ASSUME Sound, NEW t \in Threads, RemoveUnstarted(t)
  PROVE  Advance(t)
  <1> PICK l : l = loc[t]
    OBVIOUS
  <1>1. l.pc = "rmfcmap" /\ Bounds /\ Then(t, AfterUnmap(l))
    BY DEF RemoveUnstarted, Then
  <1>2. /\ l \in LocRecs /\ InStep(l) /\ Steady(l) /\ l.fc \subseteq Names /\ (\A x, y \in l.fc : x = y)
        /\ faults' = faults
    BY <1>1, LocIs DEF InStep, Steady, Bounds
  <1>3. CASE \E x \in l.fc : Mapped(x)
    <2> PICK y \in l.fc : Mapped(y) /\ RmFcmap(y, FALSE)
      BY <1>3 DEF RemoveUnstarted
    <2>1. Plain(l)
      BY <1>1 DEF Plain, ArrayStep
    <2>2. ASSUME Mapped(y)' PROVE fcmap[y].status = "copying"
      <3>1. y \in Names /\ fcmap \in [Names -> {NoMap} \cup Fcmaps]
        BY <1>2 DEF Sound, Arrayed
      <3> QED
        BY <2>2, <3>1 DEF RmFcmap, Mapped
    <2>3. \A x \in l.fc : Mapped(x)' => fcmap[x].status = "copying"
      BY <1>2, <2>2
    <2> QED
      BY <1>1, <1>2, <2>1, <2>3, AfterUnmapAdvances
  <1>4. CASE ~(\E x \in l.fc : Mapped(x))
    <2>1. UNCHANGED arrayVars
      BY <1>4 DEF RemoveUnstarted
    <2>2. Plain(l)
      BY <2>1 DEF Plain, ArrayStep
    <2>3. \A x \in l.fc : ~Mapped(x)'
      BY <1>4, <2>1 DEF Mapped, arrayVars
    <2> QED
      BY <1>1, <1>2, <2>2, <2>3, AfterUnmapAdvances
  <1> QED
    BY <1>3, <1>4

LEMMA RetryRemoveTargetAdvances ==
  ASSUME Sound, NEW t \in Threads, NEW l, l = loc[t], Steady(l), l.pc = "rmtarget",
         RetryRemoveTarget(t), Plain(l), Fails(l)
  PROVE  Advance(t)
  <1>1. /\ l \in LocRecs /\ InStep(l) /\ l.call.op = "CreateSnapshot" /\ l.tries \in 0..RollbackTries
        /\ ArrayStep(l, Idle)
    BY LocIs, IdleIs DEF InStep, Made, Creates, Looking, Preparing, Unmapped, Filling, Removing, Expanding, LocRecs, Plain
  <1>2. CASE l.tries > 1
    <2> PICK m : m = [l EXCEPT !.pc = "unmap", !.tries = l.tries - 1]
      OBVIOUS
    <2>1. Then(t, m)
      BY <1>2 DEF RetryRemoveTarget
    <2>2. l.tries - 1 \in 0..RollbackTries /\ "unmap" \in Steps
      BY <1>1, <1>2, ProvisioningAssumption DEF Steps
    <2>3. /\ m \in LocRecs /\ m.pc = "unmap" /\ m.call = l.call /\ m.name = l.name /\ m.uid = l.uid
          /\ m.undo = l.undo
      BY <1>1, <2>2 DEF LocRecs
    <2>4. Goes(l, m)
      BY <1>1, <2>3
      DEF Goes, Learns, Follows, Measures, InStep, Made, HasUid, HasSrc, Creates, Deletes,
         Looking, Preparing, Unmapped, Filling, Removing, Expanding
    <2> QED
      BY <2>1, <2>3, <2>4, GoesOn DEF Plain
  <1>3. CASE ~(l.tries > 1)
    BY <1>1, <1>3, FailsNow DEF RetryRemoveTarget, Statuses
  <1> QED
    BY <1>2, <1>3

LEMMA RemoveTargetAdvances ==
  ASSUME Sound, NEW t \in Threads, RemoveTarget(t)
  PROVE  Advance(t)
  <1> PICK l : l = loc[t]
    OBVIOUS
  <1>1. l.pc = "rmtarget" /\ Bounds
    BY DEF RemoveTarget
  <1>2. l \in LocRecs /\ Steady(l) /\ l.name \in Names
    BY <1>1, LocIs DEF Steady, Bounds
  <1>3. CASE Removable(l.name)
    <2>1. RmVolume(l.name) /\ Reply(t, "INTERNAL", NoUid)
      BY <1>3 DEF RemoveTarget
    <2>2. ArrayStep(l, Idle)
      BY <1>1, <1>3, <2>1, IdleIs DEF ArrayStep
    <2>3. ~Exists(l.name)'
      BY <1>2, <2>1 DEF RmVolume, Exists, Sound, Arrayed
    <2>4. Fails(l)
      BY <1>1, <2>3 DEF Fails, EndsBadly
    <2> QED
      BY <1>2, <2>1, <2>2, <2>4, FailsNow DEF Statuses
  <1>4. CASE ~Removable(l.name)
    <2>1. UNCHANGED arrayVars /\ RetryRemoveTarget(t)
      BY <1>4 DEF RemoveTarget
    <2>2. Plain(l)
      BY <2>1 DEF Plain, ArrayStep
    <2>3. ~Exists(l.name)' \/ FcIds(l.name) # {}
      BY <1>4, <2>1 DEF Removable, Exists, arrayVars
    <2>4. Fails(l)
      BY <1>1, <2>3 DEF Fails, EndsBadly
    <2> QED
      BY <1>1, <1>2, <2>1, <2>2, <2>4, RetryRemoveTargetAdvances
  <1> QED
    BY <1>3, <1>4

LEMMA SnapshotLookupAdvances ==
  ASSUME Sound, NEW t \in Threads, SnapshotLookup(t)
  PROVE  Advance(t)
  <1> PICK l : l = loc[t]
    OBVIOUS
  <1>1. l.pc = "slook" /\ ReadOnly
    BY DEF SnapshotLookup
  <1>2. /\ l \in LocRecs /\ InStep(l) /\ l.call.op = "CreateSnapshot" /\ l.call.name = l.name /\ l.name \in Names
        /\ Steady(l) /\ Plain(l)
    BY <1>1, LocIs, ReadsOnly DEF InStep, Made, Creates, Looking, Preparing, Unmapped, Filling, Removing, Expanding
  <1>3. CASE Exists(l.name)
    <2> PICK m : m = [l EXCEPT !.pc = "sverify", !.uid = vdisk[l.name].uid, !.fc = FcIds(l.name)]
      OBVIOUS
    <2>1. Then(t, m)
      BY <1>2, <1>3 DEF SnapshotLookup, Then
    <2>2. "sverify" \in Steps /\ vdisk[l.name].uid \in Nat \ {NoUid} /\ FcIds(l.name) \subseteq Names
      BY <1>2, <1>3, DiskIs DEF Steps, FcIds
    <2>3. /\ m \in LocRecs /\ m.pc = "sverify" /\ m.call = l.call /\ m.name = l.name /\ m.uid = vdisk[l.name].uid
          /\ m.undo = l.undo
      BY <1>2, <2>2 DEF LocRecs
    <2>4. Goes(l, m)
      BY <1>1, <1>2, <1>3, <2>2, <2>3
      DEF Goes, Learns, Follows, Measures, InStep, Made, HasUid, HasSrc, Creates, Deletes,
         Looking, Preparing, Unmapped, Filling, Removing, Expanding
    <2> QED
      BY <1>2, <2>1, <2>3, <2>4, GoesOn DEF Plain
  <1>4. CASE ~Exists(l.name)
    <2> PICK m : m = [l EXCEPT !.pc = "ssource"]
      OBVIOUS
    <2>1. Then(t, m)
      BY <1>2, <1>4 DEF SnapshotLookup, Then
    <2>2. Keeps(l, m, "ssource")
      BY <1>2, ToIs DEF Steps
    <2>3. Goes(l, m)
      BY <1>1, <1>2, <1>4, <2>2
      DEF Keeps, Goes, Learns, Follows, Measures, InStep, Made, HasUid, HasSrc, Creates, Deletes,
         Looking, Preparing, Unmapped, Filling, Removing, Expanding
    <2> QED
      BY <1>2, <2>1, <2>2, <2>3, GoesOn DEF Keeps, Plain
  <1> QED
    BY <1>3, <1>4

LEMMA VerifySnapshotAdvances ==
  ASSUME Sound, NEW t \in Threads, VerifySnapshot(t)
  PROVE  Advance(t)
  <1> PICK l : l = loc[t]
    OBVIOUS
  <1>1. l.pc = "sverify" /\ ReadOnly
    BY DEF VerifySnapshot
  <1>2. /\ l \in LocRecs /\ InStep(l) /\ l.call.op = "CreateSnapshot" /\ l.undo = "none" /\ ~Made(l)
        /\ l.uid \in Nat /\ l.call.name = l.name
        /\ Steady(l) /\ ArrayStep(l, Idle)
    BY <1>1, LocIs, ReadsOnly DEF InStep, Made, Creates, Looking, Preparing, Unmapped, Filling, Removing, Expanding
  <1>3. CASE \E status \in {"INTERNAL", "ALREADY_EXISTS"} : Reply(t, status, NoUid)
    BY <1>1, <1>2, <1>3, EarlyFails, FailsNow DEF Statuses
  <1>4. CASE /\ CopySource(l.name) = l.call.source /\ Mapped(l.name) /\ fcmap[l.name].rate0
             /\ Reply(t, "OK", l.uid)
    <2>1. Ends(l, "OK", l.uid)
      BY <1>1, <1>2, <1>4 DEF Ends, EndsOk
    <2> QED
      BY <1>2, <1>4, <2>1, EndsNow DEF Statuses
  <1> QED
    BY <1>2, <1>3, <1>4 DEF VerifySnapshot, Verified

LEMMA SnapshotSourceAdvances ==
  ASSUME Sound, NEW t \in Threads, SnapshotSource(t)
  PROVE  Advance(t)
  <1> PICK l : l = loc[t]
    OBVIOUS
  <1>1. l.pc = "ssource" /\ ReadOnly
    BY DEF SnapshotSource
  <1>2. /\ l \in LocRecs /\ InStep(l) /\ l.call.op = "CreateSnapshot" /\ ~Made(l)
        /\ Steady(l) /\ ArrayStep(l, Idle) /\ Plain(l)
    BY <1>1, LocIs, ReadsOnly DEF InStep, Made, Creates, Looking, Preparing, Unmapped, Filling, Removing, Expanding
  <1>3. CASE Reply(t, "NOT_FOUND", NoUid)
    BY <1>1, <1>2, <1>3, EarlyFails, FailsNow DEF Statuses
  <1>4. CASE \E s \in NamesOf(l.call.source) : Then(t, [l EXCEPT !.pc = "mkvolume", !.src = s, !.cap = vdisk[s].size])
    <2> PICK s \in NamesOf(l.call.source) : Then(t, [l EXCEPT !.pc = "mkvolume", !.src = s, !.cap = vdisk[s].size])
      BY <1>4
    <2> PICK m : m = [l EXCEPT !.pc = "mkvolume", !.src = s, !.cap = vdisk[s].size]
      OBVIOUS
    <2>1. "mkvolume" \in Steps /\ s \in Names /\ Exists(s) /\ vdisk[s].size \in Nat
      BY DiskIs DEF Steps, NamesOf
    <2>2. /\ m \in LocRecs /\ m.pc = "mkvolume" /\ m.call = l.call /\ m.name = l.name /\ m.uid = l.uid
          /\ m.undo = l.undo /\ m.src = s /\ m.cap = vdisk[s].size
      BY <1>2, <2>1 DEF LocRecs
    <2>3. Goes(l, m)
      BY <1>1, <1>2, <2>1, <2>2
      DEF Goes, Learns, Follows, Measures, InStep, Made, HasUid, HasSrc, Creates, Deletes,
         Looking, Preparing, Unmapped, Filling, Removing, Expanding
    <2> QED
      BY <1>2, <2>2, <2>3, GoesOn DEF Plain
  <1> QED
    BY <1>3, <1>4 DEF SnapshotSource, Then

-----------------------------------------------------------------------------
LEMMA AbsentAdvances ==
  ASSUME Sound, NEW t \in Threads, NEW l, l = loc[t], Steady(l), l.pc # "rmtargetmap", Absent(t), Plain(l), Fails(l),
         l.call.op \in Deletes => EndsOk(l, l.uid)
  PROVE  Advance(t)
  <1>1. l.uid \in Nat /\ ArrayStep(l, Idle)
    BY LocIs, IdleIs DEF Plain
  <1>2. CASE l.call.op \in Deletes
    <2>1. Reply(t, "OK", l.uid)
      BY <1>2 DEF Absent
    <2> QED
      BY <1>1, <1>2, <2>1, EndsNow DEF Statuses, Ends
  <1>3. CASE l.call.op \notin Deletes
    <2>1. Raise(t, "NOT_FOUND")
      BY <1>3 DEF Absent
    <2> QED
      BY <2>1, RaiseAdvances DEF Statuses
  <1> QED
    BY <1>2, <1>3

LEMMA FindObjectAdvances ==
  ASSUME Sound, NEW t \in Threads, FindObject(t)
  PROVE  Advance(t)
  <1> PICK l : l = loc[t]
    OBVIOUS
  <1>1. l.pc = "find" /\ ReadOnly
    BY DEF FindObject
  <1>2. /\ l \in LocRecs /\ InStep(l) /\ Binds(l.uid, l.name) /\ l.call.op # "CreateSnapshot"
        /\ Steady(l) /\ Plain(l) /\ NamesOf(l.uid)' = NamesOf(l.uid)
        /\ l.call.op \in Deletes => l.undo = "none"
    BY <1>1, LocIs, ReadsOnly DEF InStep, Made, Creates, Looking, Preparing, Unmapped, Filling, Removing, Expanding, Deletes
  <1>3. CASE Absent(t) /\ (NamesOf(l.uid) = {} \/ (l.call.op = "DeleteSnapshot" /\ \A n \in NamesOf(l.uid) : FcIds(n) = {}))
    <2>1. Fails(l)
      BY <1>1, <1>2, <1>3 DEF Fails, EndsBadly, Made, Creates
    <2>2. l.call.op \in Deletes => EndsOk(l, l.uid)
      BY <1>1, <1>2, <1>3 DEF EndsOk, Creates, Deletes
    <2> QED
      BY <1>1, <1>2, <1>3, <2>1, <2>2, AbsentAdvances
  <1>4. CASE \E n \in NamesOf(l.uid) : Then(t, [l EXCEPT !.pc = "target", !.name = n, !.cap = vdisk[n].size])
    <2> PICK n \in NamesOf(l.uid) : Then(t, [l EXCEPT !.pc = "target", !.name = n, !.cap = vdisk[n].size])
      BY <1>4
    <2> PICK m : m = [l EXCEPT !.pc = "target", !.name = n, !.cap = vdisk[n].size]
      OBVIOUS
    <2>1. "target" \in Steps /\ n \in Names /\ n = l.name /\ Exists(n) /\ vdisk[n].size \in Nat
      BY <1>2, DiskIs DEF Steps, NamesOf, Binds
    <2>2. /\ m \in LocRecs /\ m.pc = "target" /\ m.call = l.call /\ m.name = l.name /\ m.uid = l.uid
          /\ m.undo = l.undo /\ m.cap = vdisk[l.name].size
      BY <1>2, <2>1 DEF LocRecs
    <2>3. Goes(l, m)
      BY <1>1, <1>2, <2>1, <2>2
      DEF Goes, Learns, Follows, Measures, InStep, Made, HasUid, HasSrc, Creates, Deletes,
         Looking, Preparing, Unmapped, Filling, Removing, Expanding
    <2> QED
      BY <1>2, <2>2, <2>3, GoesOn DEF Plain
  <1> QED
    BY <1>3, <1>4 DEF FindObject, Then

LEMMA ReadTargetMapAdvances ==
  ASSUME Sound, NEW t \in Threads, ReadTargetMap(t)
  PROVE  Advance(t)
  <1> PICK l : l = loc[t]
    OBVIOUS
  <1>1. l.pc = "target" /\ ReadOnly
    BY DEF ReadTargetMap
  <1>2. /\ l \in LocRecs /\ InStep(l) /\ Steady(l) /\ Plain(l)
        /\ l.call.op \in Deletes => l.undo = "none"
    BY <1>1, LocIs, ReadsOnly DEF InStep, Made, Creates, Looking, Preparing, Unmapped, Filling, Removing, Expanding, Deletes
  <1>3. CASE Absent(t) /\ l.call.op = "DeleteSnapshot" /\ ~Mapped(l.name)
    <2>1. Fails(l)
      BY <1>1, <1>2, <1>3 DEF Fails, EndsBadly, Made, Creates
    <2>2. l.call.op \in Deletes => EndsOk(l, l.uid)
      BY <1>1, <1>2, <1>3 DEF EndsOk, Creates, Deletes
    <2> QED
      BY <1>1, <1>2, <1>3, <2>1, <2>2, AbsentAdvances
  <1>4. CASE Then(t, [l EXCEPT !.pc = "sources", !.target = IF ~Mapped(l.name) THEN "no"
                                                  ELSE IF Finished(l.name) THEN "done" ELSE "busy"])
    <2> PICK target \in {"no", "done", "busy"} :
           target = IF ~Mapped(l.name) THEN "no" ELSE IF Finished(l.name) THEN "done" ELSE "busy"
      OBVIOUS
    <2> PICK m : m = [l EXCEPT !.pc = "sources", !.target = target]
      OBVIOUS
    <2>1. "sources" \in Steps /\ (target = "no" => ~Mapped(l.name))
      BY DEF Steps
    <2>2. /\ m \in LocRecs /\ m.pc = "sources" /\ m.call = l.call /\ m.name = l.name /\ m.uid = l.uid
          /\ m.undo = l.undo /\ m.cap = l.cap /\ m.target = target
      BY <1>2, <2>1 DEF LocRecs
    <2>3. Goes(l, m)
      BY <1>1, <1>2, <2>1, <2>2
      DEF Goes, Learns, Follows, Measures, InStep, Made, HasUid, HasSrc, Creates, Deletes,
         Looking, Preparing, Unmapped, Filling, Removing, Expanding
    <2> QED
      BY <1>2, <1>4, <2>2, <2>3, GoesOn DEF Plain
  <1> QED
    BY <1>3, <1>4 DEF ReadTargetMap, Then

LEMMA AfterMapsAdvances ==
  ASSUME Sound, NEW t \in Threads, NEW l, l = loc[t], Steady(l), l.pc \in {"sources", "rmmaps"}, Plain(l),
         NEW M \in SUBSET Names, Then(t, AfterMaps([l EXCEPT !.maps = M])),
         l.pc = "sources" /\ M # {} => l.call.op = "Expand" \/ MapsFrom(l.name) # {}
  PROVE  Advance(t)
  <1>1. l \in LocRecs /\ InStep(l)
    BY LocIs
  <1> PICK pc : pc = IF M # {} THEN "rmmaps" ELSE IF l.call.op = "Expand" THEN "expand"
                     ELSE IF l.target # "no" THEN "stop" ELSE "rmvolume"
    OBVIOUS
  <1> PICK k : k = [l EXCEPT !.maps = M]
    OBVIOUS
  <1>2. /\ k \in LocRecs /\ k.maps = M /\ k.call = l.call /\ k.name = l.name /\ k.uid = l.uid
        /\ k.undo = l.undo /\ k.cap = l.cap /\ k.target = l.target
    BY <1>1 DEF LocRecs
  <1> PICK m : m = AfterMaps(k)
    OBVIOUS
  <1>3. m = [k EXCEPT !.pc = pc]
    BY <1>2 DEF AfterMaps
  <1>4. pc \in Steps
    BY DEF Steps
  <1>5. Keeps(k, m, pc)
    <2>1. Keeps(k, [k EXCEPT !.pc = pc], pc)
      BY <1>2, <1>4, ToIs
    <2> QED
      BY <1>3, <2>1
  <1>6. /\ m \in LocRecs /\ m.pc = pc /\ m.call = l.call /\ m.name = l.name /\ m.uid = l.uid
        /\ m.undo = l.undo /\ m.cap = l.cap /\ m.target = l.target
    BY <1>2, <1>5 DEF Keeps
  <1>7. Goes(l, m) /\ m.pc # "created"
    <2>1. CASE M # {}
      BY <1>1, <1>6, <2>1
      DEF Goes, Learns, Follows, Measures, InStep, Made, HasUid, HasSrc, Creates, Deletes,
         Looking, Preparing, Unmapped, Filling, Removing, Expanding
    <2>2. CASE M = {} /\ l.call.op = "Expand"
      BY <1>1, <1>6, <2>2
      DEF Goes, Learns, Follows, Measures, InStep, Made, HasUid, HasSrc, Creates, Deletes,
         Looking, Preparing, Unmapped, Filling, Removing, Expanding
    <2>3. CASE M = {} /\ l.call.op # "Expand" /\ l.target # "no"
      BY <1>1, <1>6, <2>3
      DEF Goes, Learns, Follows, Measures, InStep, Made, HasUid, HasSrc, Creates, Deletes,
         Looking, Preparing, Unmapped, Filling, Removing, Expanding
    <2>4. CASE M = {} /\ l.call.op # "Expand" /\ l.target = "no"
      BY <1>1, <1>6, <2>4
      DEF Goes, Learns, Follows, Measures, InStep, Made, HasUid, HasSrc, Creates, Deletes,
         Looking, Preparing, Unmapped, Filling, Removing, Expanding
    <2> QED
      BY <2>1, <2>2, <2>3, <2>4
  <1> QED
    BY <1>7, GoesOn DEF Plain

LEMMA ReadSourceMapsAdvances ==
  ASSUME Sound, NEW t \in Threads, ReadSourceMaps(t)
  PROVE  Advance(t)
  <1> PICK l : l = loc[t]
    OBVIOUS
  <1>1. l.pc = "sources" /\ ReadOnly
    BY DEF ReadSourceMaps
  <1>2. l \in LocRecs /\ InStep(l) /\ Steady(l) /\ Plain(l) /\ l.name \in Names
    BY <1>1, LocIs, ReadsOnly
  <1>3. CASE /\ (\E x \in MapsFrom(l.name) : ~Finished(x)) \/ (l.call.op = "Expand" /\ l.target = "busy")
             /\ Raise(t, "FAILED_PRECONDITION")
    <2>1. Fails(l)
      BY <1>1, <1>3 DEF Fails, EndsBadly, Made, Creates
    <2> QED
      BY <1>1, <1>2, <1>3, <2>1, RaiseAdvances DEF Statuses
  <1>4. ASSUME NEW M, M = MapsFrom(l.name) \cup IF l.call.op = "Expand" /\ l.target = "done" THEN {l.name} ELSE {},
               Then(t, AfterMaps([l EXCEPT !.maps = M]))
        PROVE  Advance(t)
    <2>1. M \in SUBSET Names /\ (M # {} => l.call.op = "Expand" \/ MapsFrom(l.name) # {})
      BY <1>2, <1>4 DEF MapsFrom
    <2> QED
      BY <1>1, <1>2, <1>4, <2>1, AfterMapsAdvances
  <1> QED
    BY <1>3, <1>4 DEF ReadSourceMaps, Then

LEMMA RemoveMapAdvances ==
  ASSUME Sound, NEW t \in Threads, RemoveMap(t)
  PROVE  Advance(t)
  <1> PICK l : l = loc[t]
    OBVIOUS
  <1>1. l.pc = "rmmaps" /\ Bounds /\ UNCHANGED answers
    BY DEF RemoveMap
  <1>2. l \in LocRecs /\ Steady(l) /\ l.maps \subseteq Names
    BY <1>1, LocIs DEF Steady, Bounds
  <1> PICK x \in l.maps : /\ IF Mapped(x) THEN RmFcmap(x, FALSE) ELSE UNCHANGED arrayVars
                          /\ Go(t, AfterMaps([l EXCEPT !.maps = l.maps \ {x}]))
    BY DEF RemoveMap
  <1>3. Plain(l)
    BY <1>1 DEF Plain, ArrayStep
  <1> PICK M : M = l.maps \ {x}
    OBVIOUS
  <1>4. M \in SUBSET Names /\ Then(t, AfterMaps([l EXCEPT !.maps = M]))
    BY <1>1, <1>2 DEF Then
  <1> QED
    BY <1>1, <1>2, <1>3, <1>4, AfterMapsAdvances

LEMMA StopTargetMapAdvances ==
  ASSUME Sound, NEW t \in Threads, StopTargetMap(t)
  PROVE  Advance(t)
  <1> PICK l : l = loc[t]
    OBVIOUS
  <1> PICK m : m = [l EXCEPT !.pc = "rmtargetmap"]
    OBVIOUS
  <1>1. l.pc = "stop" /\ Bounds /\ Then(t, m) /\ IF Mapped(l.name) THEN StopFcmap(l.name) ELSE UNCHANGED arrayVars
    BY DEF StopTargetMap, Then
  <1>2. l \in LocRecs /\ InStep(l) /\ Steady(l)
    BY <1>1, LocIs DEF Steady, Bounds
  <1>3. Keeps(l, m, "rmtargetmap")
    BY <1>2, ToIs DEF Steps
  <1>4. Goes(l, m)
    BY <1>1, <1>2, <1>3
    DEF Keeps, Goes, Learns, Follows, Measures, InStep, Made, HasUid, HasSrc, Creates, Deletes,
         Looking, Preparing, Unmapped, Filling, Removing, Expanding
  <1>5. ArrayStep(l, m)
    BY <1>1, <1>3 DEF ArrayStep, Keeps
  <1> QED
    BY <1>1, <1>2, <1>4, <1>5, GoesOn

LEMMA RemoveTargetMapAdvances ==
  ASSUME Sound, NEW t \in Threads, RemoveTargetMap(t)
  PROVE  Advance(t)
  <1> PICK l : l = loc[t]
    OBVIOUS
  <1> PICK m : m = [l EXCEPT !.pc = "rmvolume"]
    OBVIOUS
  <1>1. /\ l.pc = "rmtargetmap" /\ Bounds /\ Then(t, m)
        /\ IF Mapped(l.name) THEN RmFcmap(l.name, TRUE) ELSE UNCHANGED arrayVars
    BY DEF RemoveTargetMap, Then
  <1>2. l \in LocRecs /\ InStep(l) /\ Steady(l) /\ l.name \in Names
    BY <1>1, LocIs DEF Steady, Bounds
  <1>3. Keeps(l, m, "rmvolume")
    BY <1>2, ToIs DEF Steps
  <1>4. ~Mapped(l.name)'
    <2>1. fcmap \in [Names -> {NoMap} \cup Fcmaps]
      BY DEF Sound, Arrayed
    <2> QED
      BY <1>1, <1>2, <2>1 DEF RmFcmap, Mapped, arrayVars
  <1>5. Goes(l, m)
    BY <1>1, <1>2, <1>3, <1>4
    DEF Keeps, Goes, Learns, Follows, Measures, InStep, Made, HasUid, HasSrc, Creates, Deletes,
         Looking, Preparing, Unmapped, Filling, Removing, Expanding
  <1>6. ArrayStep(l, m)
    BY <1>1, <1>3 DEF ArrayStep, Keeps
  <1> QED
    BY <1>1, <1>2, <1>5, <1>6, GoesOn

LEMMA RemoveVolumeAdvances ==
  ASSUME Sound, NEW t \in Threads, RemoveVolume(t)
  PROVE  Advance(t)
  <1> PICK l : l = loc[t]
    OBVIOUS
  <1>1. l.pc = "rmvolume" /\ Bounds
    BY DEF RemoveVolume
  <1>2. /\ l \in LocRecs /\ InStep(l) /\ Steady(l) /\ l.name \in Names /\ Binds(l.uid, l.name) /\ l.uid \in Nat
        /\ l.undo = "none" <=> l.call.op \in Deletes
    BY <1>1, LocIs DEF Steady, Bounds, InStep, Made, Creates, Looking, Preparing, Unmapped, Filling, Removing, Expanding, Deletes, RPCs
  <1>3. ASSUME ~Exists(l.name)', \A n \in Names \ {l.name} : Exists(n)' <=> Exists(n),
               \A n \in Names \ {l.name} : vdisk'[n] = vdisk[n]
        PROVE  Fails(l) /\ (l.call.op \in Deletes => EndsOk(l, l.uid))
    <2>1. NamesOf(l.uid)' = {}
      BY <1>2, <1>3 DEF NamesOf, Binds
    <2>2. l.call.op \in Deletes => EndsOk(l, l.uid)
      BY <1>1, <1>2, <2>1 DEF EndsOk, Creates, Deletes
    <2>3. Fails(l)
      BY <1>1, <1>3 DEF Fails, EndsBadly
    <2> QED
      BY <2>2, <2>3
  <1>4. CASE Removable(l.name)
    <2>1. /\ RmVolume(l.name)
          /\ IF l.undo = "none" THEN Reply(t, "OK", l.uid) ELSE UndoNext(t, TRUE, "OK")
      BY <1>4 DEF RemoveVolume
    <2>2. Plain(l) /\ ArrayStep(l, Idle)
      BY <1>1, <1>4, <2>1, IdleIs DEF Plain, ArrayStep
    <2>3. /\ ~Exists(l.name)' /\ \A n \in Names \ {l.name} : Exists(n)' <=> Exists(n)
          /\ \A n \in Names \ {l.name} : vdisk'[n] = vdisk[n]
      BY <1>2, <2>1 DEF RmVolume, Exists, Sound, Arrayed
    <2>4. Fails(l) /\ (l.call.op \in Deletes => EndsOk(l, l.uid))
      BY <1>3, <2>3
    <2>5. CASE l.undo = "none"
      BY <1>2, <2>1, <2>2, <2>4, <2>5, EndsNow DEF Ends, Statuses
    <2>6. CASE l.undo # "none"
      BY <1>1, <1>2, <2>1, <2>2, <2>4, <2>6, UndoNextAdvances
    <2> QED
      BY <2>5, <2>6
  <1>5. CASE ~Removable(l.name)
    <2>1. UNCHANGED arrayVars /\ IF Exists(l.name) THEN Raise(t, "INTERNAL") ELSE Absent(t)
      BY <1>5 DEF RemoveVolume
    <2>2. Plain(l)
      BY <2>1 DEF Plain, ArrayStep
    <2>3. CASE Exists(l.name)
      <3>1. Fails(l)
        BY <1>1, <1>5, <2>3 DEF Fails, EndsBadly, Removable
      <3> QED
        BY <1>1, <1>2, <2>1, <2>2, <2>3, <3>1, RaiseAdvances DEF Statuses
    <2>4. CASE ~Exists(l.name)
      <3>1. ~Exists(l.name)' /\ \A n \in Names \ {l.name} : (Exists(n)' <=> Exists(n)) /\ vdisk'[n] = vdisk[n]
        BY <2>1, <2>4 DEF Exists, arrayVars
      <3> QED
        BY <1>1, <1>2, <1>3, <2>1, <2>2, <2>4, <3>1, AbsentAdvances
    <2> QED
      BY <2>3, <2>4
  <1> QED
    BY <1>4, <1>5

LEMMA ExpandLookupAdvances ==
  ASSUME Sound, NEW t \in Threads, ExpandLookup(t)
  PROVE  Advance(t)
  <1> PICK l : l = loc[t]
    OBVIOUS
  <1>1. l.pc = "xlook" /\ ReadOnly
    BY DEF ExpandLookup
  <1>2. /\ l \in LocRecs /\ InStep(l) /\ Steady(l) /\ Plain(l) /\ ArrayStep(l, Idle) /\ l.uid \in Nat
        /\ l.call.op = "Expand" /\ ~Made(l) /\ l.undo = "none"
    BY <1>1, LocIs, ReadsOnly DEF InStep, Made, Creates, Looking, Preparing, Unmapped, Filling, Removing, Expanding
  <1>3. CASE \E status \in {"NOT_FOUND", "OUT_OF_RANGE"} : Reply(t, status, NoUid)
    BY <1>1, <1>2, <1>3, EarlyFails, FailsNow DEF Statuses
  <1>4. CASE Reply(t, "OK", l.uid)
    <2>1. Ends(l, "OK", l.uid)
      BY <1>1, <1>2 DEF Ends, EndsOk, Creates
    <2> QED
      BY <1>2, <1>4, <2>1, EndsNow DEF Statuses
  <1>5. CASE Then(t, [l EXCEPT !.pc = "find"])
    <2> PICK m : m = [l EXCEPT !.pc = "find"]
      OBVIOUS
    <2>1. Keeps(l, m, "find")
      BY <1>2, ToIs DEF Steps
    <2>2. Goes(l, m)
      BY <1>1, <1>2, <2>1
      DEF Keeps, Goes, Learns, Follows, Measures, InStep, Made, HasUid, HasSrc, Creates, Deletes,
         Looking, Preparing, Unmapped, Filling, Removing, Expanding
    <2> QED
      BY <1>2, <1>5, <2>1, <2>2, GoesOn DEF Keeps, Plain
  <1> QED
    BY <1>3, <1>4, <1>5 DEF ExpandLookup

LEMMA ExpandVolumeAdvances ==
  ASSUME Sound, NEW t \in Threads, ExpandVolume(t)
  PROVE  Advance(t)
  <1> PICK l : l = loc[t]
    OBVIOUS
  <1>1. l.pc = "expand" /\ Bounds
    BY DEF ExpandVolume
  <1>2. /\ l \in LocRecs /\ InStep(l) /\ Steady(l) /\ l.call.op = "Expand" /\ ~Made(l) /\ l.undo = "none"
    BY <1>1, LocIs DEF Steady, Bounds, InStep, Made, Creates, Looking, Preparing, Unmapped, Filling, Removing, Expanding
  <1>3. CASE Removable(l.name) /\ Convert(l.call.size) > l.cap
    <2> PICK m : m = [l EXCEPT !.pc = "xafter"]
      OBVIOUS
    <2>1. ExpandVdisk(l.name, Convert(l.call.size) - l.cap) /\ Then(t, m)
      BY <1>3 DEF ExpandVolume, Then
    <2>2. Keeps(l, m, "xafter")
      BY <1>2, ToIs DEF Steps
    <2>3. Goes(l, m)
      BY <1>1, <1>2, <2>2
      DEF Keeps, Goes, Learns, Follows, Measures, InStep, Made, HasUid, HasSrc, Creates, Deletes,
         Looking, Preparing, Unmapped, Filling, Removing, Expanding
    <2>4. ArrayStep(l, m)
      BY <1>1, <1>3, <2>1, <2>2 DEF ArrayStep, Keeps
    <2> QED
      BY <1>2, <2>1, <2>3, <2>4, GoesOn
  <1>4. CASE ~(Removable(l.name) /\ Convert(l.call.size) > l.cap)
    <2> PICK status : status = IF Exists(l.name) THEN "INTERNAL" ELSE "NOT_FOUND"
      OBVIOUS
    <2>1. UNCHANGED arrayVars /\ Reply(t, status, NoUid) /\ status \in Statuses \ {"OK"}
      BY <1>4 DEF ExpandVolume, Statuses
    <2>2. ArrayStep(l, Idle)
      BY <2>1, IdleIs DEF ArrayStep
    <2> QED
      BY <1>1, <1>2, <2>1, <2>2, EarlyFails, FailsNow
  <1> QED
    BY <1>3, <1>4

LEMMA ExpandAfterAdvances ==
  ASSUME Sound, NEW t \in Threads, ExpandAfter(t)
  PROVE  Advance(t)
  <1> PICK l : l = loc[t]
    OBVIOUS
  <1>1. l.pc = "xafter" /\ ReadOnly
    BY DEF ExpandAfter
  <1>2. /\ l \in LocRecs /\ InStep(l) /\ Steady(l) /\ ArrayStep(l, Idle) /\ l.uid \in Nat
        /\ l.call.op = "Expand" /\ ~Made(l) /\ l.undo = "none"
    BY <1>1, LocIs, ReadsOnly DEF InStep, Made, Creates, Looking, Preparing, Unmapped, Filling, Removing, Expanding
  <1>3. CASE Reply(t, "NOT_FOUND", NoUid)
    BY <1>1, <1>2, <1>3, EarlyFails, FailsNow DEF Statuses
  <1>4. CASE Reply(t, "OK", l.uid)
    <2>1. Ends(l, "OK", l.uid)
      BY <1>1, <1>2 DEF Ends, EndsOk, Creates
    <2> QED
      BY <1>2, <1>4, <2>1, EndsNow DEF Statuses
  <1> QED
    BY <1>3, <1>4 DEF ExpandAfter

-----------------------------------------------------------------------------
\* A command that fails does nothing to the array.
LEMMA FaultIs ==
  ASSUME Sound, NEW t \in Threads, NEW l, l = loc[t], NEW pcs, FaultAt(t, pcs), "idle" \notin pcs
  PROVE  /\ l.pc \in pcs /\ Steady(l) /\ Plain(l) /\ ArrayStep(l, Idle) /\ faults' # faults /\ Fails(l)
         /\ l \in LocRecs /\ InStep(l)
  <1>1. l.pc \in pcs /\ faults < MaxFaults /\ faults' = faults + 1 /\ UNCHANGED <<arrayVars, deleting, calls, crashes>>
    BY DEF FaultAt
  <1>2. faults' # faults
    BY <1>1 DEF Sound, Counted
  <1>3. Steady(l)
    BY <1>1 DEF Steady
  <1>4. Plain(l)
    BY <1>1 DEF Plain, ArrayStep
  <1> QED
    BY <1>1, <1>2, <1>3, <1>4, LocIs, IdleIs DEF Plain, Fails

LEMMA FaultRaisedAdvances ==
  ASSUME Sound, NEW t \in Threads, FaultRaised(t)
  PROVE  Advance(t)
  <1> PICK l : l = loc[t]
    OBVIOUS
  <1> PICK pcs : pcs = {"lookup", "origin", "created", "sverify", "ssource", "find", "target",
                        "sources", "rmvolume", "xlook", "expand", "xafter"}
    OBVIOUS
  <1>1. FaultAt(t, pcs) /\ Raise(t, "INTERNAL") /\ "idle" \notin pcs
    BY DEF FaultRaised
  <1>2. Steady(l) /\ Plain(l) /\ Fails(l) /\ faults' # faults
    BY <1>1, FaultIs
  <1> QED
    BY <1>1, <1>2, RaiseAdvances DEF Statuses

\* A creation that goes on after a failure.
LEMMA FaultGoes ==
  ASSUME Sound, NEW t \in Threads, NEW l, l = loc[t], Steady(l), Plain(l), faults' # faults,
         NEW pc \in {"unmap", "ssource", "rmtargetmap", "rmvolume"},
         pc = "unmap" => l.pc \in {"mkfcmap", "startfcmap"} \/ (l.pc = "mkvolume" /\ l.call.op = "CreateSnapshot"),
         pc = "ssource" => l.pc = "slook",
         pc = "rmtargetmap" => l.pc = "stop",
         pc = "rmvolume" => l.pc = "rmtargetmap",
         Then(t, [l EXCEPT !.pc = pc])
  PROVE  Advance(t)
  <1>1. l \in LocRecs /\ InStep(l)
    BY LocIs
  <1> PICK m : m = [l EXCEPT !.pc = pc]
    OBVIOUS
  <1>2. pc \in Steps
    BY DEF Steps
  <1>3. Keeps(l, m, pc)
    BY <1>1, <1>2, ToIs
  <1>4. Goes(l, m)
    BY <1>1, <1>3
    DEF Keeps, Goes, Learns, HasSrc, InStep, Made, Creates, Looking, Preparing, Unmapped, Filling, Removing, Expanding
  <1> QED
    BY <1>3, <1>4, GoesOn DEF Keeps, Plain

LEMMA FaultUndoneAdvances ==
  ASSUME Sound, NEW t \in Threads, FaultUndone(t)
  PROVE  Advance(t)
  <1> PICK l : l = loc[t]
    OBVIOUS
  <1> PICK pcs : pcs = {"findSource", "names", "fcid", "mkvolume", "mkfcmap", "startfcmap"}
    OBVIOUS
  <1>1. FaultAt(t, pcs) /\ "idle" \notin pcs
    BY DEF FaultUndone
  <1>2. /\ l.pc \in pcs /\ Steady(l) /\ Plain(l) /\ Fails(l) /\ faults' # faults /\ ArrayStep(l, Idle)
    BY <1>1, FaultIs
  <1>3. CASE /\ l.pc \in {"mkfcmap", "startfcmap"} \/ (l.pc = "mkvolume" /\ l.call.op = "CreateSnapshot")
             /\ Then(t, [l EXCEPT !.pc = "unmap"])
    BY <1>2, <1>3, FaultGoes
  <1>4. CASE Reply(t, "INTERNAL", NoUid)
    BY <1>2, <1>4, FailsNow DEF Statuses
  <1>5. CASE l.pc \in {"findSource", "names", "fcid"} /\ l.call.op = "CreateVolume" /\ Then(t, Undo(l, "INTERNAL", 1))
    <2>1. MayBackOut(l) /\ "INTERNAL" \in Statuses \ {"OK"} /\ 1 \in 0..2
      BY <1>2, <1>5, LocIs DEF MayBackOut, Statuses, InStep
    <2> QED
      BY <1>2, <1>5, <2>1, UndoAdvances
  <1> QED
    BY <1>2, <1>3, <1>4, <1>5, LocIs DEF FaultUndone, InStep, Creates, Looking, Preparing, Unmapped, Filling

LEMMA FaultAsAbsentAdvances ==
  ASSUME Sound, NEW t \in Threads, FaultAsAbsent(t)
  PROVE  Advance(t)
  <1> PICK l : l = loc[t]
    OBVIOUS
  <1> PICK pcs : pcs = {"slook", "unmap", "origin", "sverify"}
    OBVIOUS
  <1>1. FaultAt(t, pcs) /\ "idle" \notin pcs
    BY DEF FaultAsAbsent
  <1>2. /\ l.pc \in pcs /\ Steady(l) /\ Plain(l) /\ Fails(l) /\ faults' # faults /\ ArrayStep(l, Idle)
    BY <1>1, FaultIs
  <1>3. CASE l.pc = "slook" /\ Then(t, [l EXCEPT !.pc = "ssource"])
    BY <1>2, <1>3, FaultGoes
  <1>4. CASE Reply(t, "INTERNAL", NoUid)
    BY <1>2, <1>4, FailsNow DEF Statuses
  <1>5. CASE l.pc = "unmap" /\ Then(t, AfterUnmap(l))
    BY <1>2, <1>5, AfterUnmapAdvances
  <1>6. CASE Reply(t, "ALREADY_EXISTS", NoUid)
    BY <1>2, <1>6, FailsNow DEF Statuses
  <1>7. CASE l.pc = "origin" /\ Reply(t, "OK", l.uid)
    <2>1. l.uid \in Nat /\ l.undo = "none" /\ l.call.op = "CreateVolume"
      BY <1>7, LocIs DEF InStep, Removing
    <2>2. Ends(l, "OK", l.uid)
      BY <1>2, <1>7, <2>1 DEF Ends, EndsOk
    <2> QED
      BY <1>2, <1>7, <2>1, <2>2, EndsNow DEF Statuses
  <1> QED
    BY <1>2, <1>3, <1>4, <1>5, <1>6, <1>7 DEF FaultAsAbsent, HandleExisting

LEMMA FaultIgnoredAdvances ==
  ASSUME Sound, NEW t \in Threads, FaultIgnored(t)
  PROVE  Advance(t)
  <1> PICK l : l = loc[t]
    OBVIOUS
  <1> PICK pcs : pcs = {"rmfcmap", "rmmaps", "stop", "rmtargetmap", "rmtarget"}
    OBVIOUS
  <1>1. FaultAt(t, pcs) /\ "idle" \notin pcs
    BY DEF FaultIgnored
  <1>2. /\ l.pc \in pcs /\ Steady(l) /\ Plain(l) /\ Fails(l) /\ faults' # faults
    BY <1>1, FaultIs
  <1>3. CASE l.pc = "rmfcmap" /\ Then(t, AfterUnmap(l))
    BY <1>2, <1>3, AfterUnmapAdvances
  <1>4. CASE l.pc = "rmmaps" /\ \E x \in l.maps : Then(t, AfterMaps([l EXCEPT !.maps = l.maps \ {x}]))
    <2> PICK x \in l.maps : Then(t, AfterMaps([l EXCEPT !.maps = l.maps \ {x}]))
      BY <1>4
    <2> PICK M : M = l.maps \ {x}
      OBVIOUS
    <2>1. M \in SUBSET Names /\ Then(t, AfterMaps([l EXCEPT !.maps = M]))
      BY LocIs
    <2> QED
      BY <1>2, <1>4, <2>1, AfterMapsAdvances
  <1>5. CASE l.pc = "stop" /\ Then(t, [l EXCEPT !.pc = "rmtargetmap"])
    BY <1>2, <1>5, FaultGoes
  <1>6. CASE l.pc = "rmtargetmap" /\ Then(t, [l EXCEPT !.pc = "rmvolume"])
    BY <1>2, <1>6, FaultGoes
  <1>7. CASE l.pc = "rmtarget" /\ RetryRemoveTarget(t)
    BY <1>2, <1>7, RetryRemoveTargetAdvances
  <1> QED
    BY <1>3, <1>4, <1>5, <1>6, <1>7 DEF FaultIgnored

LEMMA CommandAdvances ==
  ASSUME Sound, NEW t \in Threads, Command(t) \/ CliFault(t)
  PROVE  Advance(t)
  <1>1. CASE Command(t)
    BY <1>1, LookupAdvances, OriginAdvances, MakeVolumeAdvances, CreatedAdvances, FindSourceAdvances,
       ResolveNamesAdvances, CreateFcmapAdvances, ReadFcIdAdvances, StartCopyAdvances, UnmapAdvances,
       RemoveUnstartedAdvances, RemoveTargetAdvances, SnapshotLookupAdvances, VerifySnapshotAdvances,
       SnapshotSourceAdvances, FindObjectAdvances, ReadTargetMapAdvances, ReadSourceMapsAdvances,
       RemoveMapAdvances, StopTargetMapAdvances, RemoveTargetMapAdvances, RemoveVolumeAdvances,
       ExpandLookupAdvances, ExpandVolumeAdvances, ExpandAfterAdvances DEF Command
  <1>2. CASE CliFault(t)
    BY <1>2, FaultRaisedAdvances, FaultUndoneAdvances, FaultAsAbsentAdvances, FaultIgnoredAdvances DEF CliFault
  <1> QED
    BY <1>1, <1>2

-----------------------------------------------------------------------------
(***************************************************************************)
(* What one command does to the array: it touches one volume and the       *)
(* mapping whose target it is.                                             *)
(***************************************************************************)

DiskStep(l, m, n) ==
    /\ Exists(n)' /\ ~Exists(n) => /\ m.pc = "created" /\ n = l.name /\ vdisk'[n].uid = nextUid
                                   /\ vdisk'[n].size = Convert(l.cap)
    /\ Exists(n) /\ ~Exists(n)' => l.pc \in {"rmtarget", "rmvolume"} /\ n = l.name
    /\ Exists(n) /\ Exists(n)' => vdisk'[n].uid = vdisk[n].uid
    /\ Exists(n) /\ Exists(n)' /\ vdisk'[n].size # vdisk[n].size =>
          /\ l.pc = "expand" /\ m.pc = "xafter" /\ n = l.name
          /\ vdisk'[n].size = vdisk[n].size + (Convert(l.call.size) - l.cap)
    /\ Exists(n) /\ Exists(n)' /\ vdisk'[n].copyOf # vdisk[n].copyOf =>
          \/ l.pc = "startfcmap" /\ n \in l.fc /\ Mapped(n) /\ vdisk'[n].copyOf = vdisk[fcmap[n].src].uid
          \/ l.pc \in {"stop", "rmtargetmap"} /\ n = l.name

MapStep(l, m, n) ==
    /\ Mapped(n)' =>
          \/ fcmap'[n] = fcmap[n] /\ vdisk'[n].copyOf = vdisk[n].copyOf
          \/ /\ l.pc = "mkfcmap" /\ m.pc = "fcid" /\ n = l.name /\ Exists(l.src) /\ Exists(n)
             /\ fcmap'[n] = [src |-> l.src, rate0 |-> l.call.op = "CreateSnapshot", status |-> "idle"]
          \/ /\ l.pc = "startfcmap" /\ m = Idle /\ n \in l.fc /\ Mapped(n)
             /\ fcmap'[n] = [fcmap[n] EXCEPT !.status = "copying"]
             /\ fcmap[n].status # "copying" => vdisk'[n].copyOf = vdisk[fcmap[n].src].uid
             /\ fcmap[n].status = "copying" => vdisk'[n].copyOf = vdisk[n].copyOf
          \/ /\ l.pc = "stop" /\ m.pc = "rmtargetmap" /\ n = l.name /\ Mapped(n) /\ fcmap[n].status = "copying"
             /\ fcmap'[n] = [fcmap[n] EXCEPT !.status = "stopped"]
    /\ Mapped(n) /\ ~Mapped(n)' =>
          \/ l.pc = "rmfcmap" /\ n \in l.fc /\ fcmap[n].status # "copying"
          \/ l.pc = "rmmaps" /\ n \in l.maps /\ fcmap[n].status # "copying"
          \/ l.pc = "rmtargetmap" /\ n = l.name

Effects(l, m) ==
    /\ Arrayed'
    /\ nextUid' = IF m.pc = "created" THEN nextUid + 1 ELSE nextUid
    /\ m.pc = "created" => l.pc = "mkvolume" /\ ~Exists(l.name) /\ Exists(l.name)'
    /\ \A n \in Names : DiskStep(l, m, n) /\ MapStep(l, m, n)

LEMMA ArrayedIs ==
  ASSUME Sound
  PROVE  /\ nextUid \in Nat /\ nextUid # NoUid
         /\ vdisk \in [Names -> {NoDisk} \cup Disks]
         /\ fcmap \in [Names -> {NoMap} \cup Fcmaps]
         /\ \A n \in Names : Exists(n) => Binds(vdisk[n].uid, n) /\ vdisk[n] \in Disks /\ vdisk[n].uid \in Nat
         /\ \A n \in Names : Mapped(n) => Exists(n) /\ Exists(fcmap[n].src) /\ fcmap[n] \in Fcmaps /\ fcmap[n].src \in Names
  BY DEF Sound, Arrayed, Exists, Mapped, Fcmaps, Disks, NoUid

LEMMA DiskRecs ==
  /\ \A d \in Disks : d # NoDisk /\ d.uid \in Nat /\ d.size \in Nat /\ d.copyOf \in Nat /\ d.uid # NoUid
  /\ \A f \in Fcmaps : f # NoMap /\ f.src \in Names
  <1>1. \A d \in Disks : d.uid \in Nat /\ d.size \in Nat /\ d.copyOf \in Nat /\ d.uid # NoUid
    BY DEF Disks
  <1>2. \A d \in Disks : d # NoDisk
    BY <1>1 DEF NoDisk
  <1>3. \A f \in Fcmaps : f.status \in MapStatus /\ f.src \in Names
    BY DEF Fcmaps
  <1>4. NoMap.status = "none" /\ "none" \notin MapStatus
    BY DEF NoMap, MapStatus
  <1> QED
    BY <1>1, <1>2, <1>3, <1>4

LEMMA PointEffects ==
  ASSUME Sound, NEW l, NEW m, NEW j \in Names, NEW d \in {NoDisk} \cup Disks, NEW f \in {NoMap} \cup Fcmaps,
         vdisk' = [vdisk EXCEPT ![j] = d], fcmap' = [fcmap EXCEPT ![j] = f],
         nextUid' = IF m.pc = "created" THEN nextUid + 1 ELSE nextUid,
         d # NoDisk /\ Exists(j) => d.uid = vdisk[j].uid,
         d # NoDisk /\ ~Exists(j) => d.uid = nextUid /\ m.pc = "created",
         d = NoDisk => FcIds(j) = {} /\ f = NoMap,
         f # NoMap => Exists(f.src),
         m.pc = "created" => l.pc = "mkvolume" /\ j = l.name /\ ~Exists(j) /\ d # NoDisk,
         DiskStep(l, m, j), MapStep(l, m, j)
  PROVE  Effects(l, m)
  <1>1. vdisk'[j] = d /\ fcmap'[j] = f /\ \A n \in Names : n # j => vdisk'[n] = vdisk[n] /\ fcmap'[n] = fcmap[n]
    BY ArrayedIs
  <1>2. (Exists(j)' <=> d # NoDisk) /\ \A n \in Names : n # j => (Exists(n)' <=> Exists(n))
    BY <1>1 DEF Exists
  <1>3. (Mapped(j)' <=> f # NoMap) /\ \A n \in Names : n # j => (Mapped(n)' <=> Mapped(n))
    BY <1>1 DEF Mapped
  <1>4. nextUid \in Nat /\ nextUid' \in Nat /\ nextUid <= nextUid'
    BY ArrayedIs
  <1>5. vdisk' \in [Names -> {NoDisk} \cup Disks] /\ fcmap' \in [Names -> {NoMap} \cup Fcmaps]
    BY ArrayedIs
  <1>6. ASSUME NEW n \in Names, Mapped(n)'
        PROVE  Exists(n)' /\ fcmap'[n].src \in Names /\ \A x \in Names : x = fcmap'[n].src => Exists(x)'
    <2>1. CASE n = j
      <3>1. f # NoMap /\ d # NoDisk /\ f \in Fcmaps /\ Exists(f.src)
        BY <1>3, <1>6, <2>1
      <3> QED
        BY <1>1, <1>2, <2>1, <3>1, DiskRecs
    <2>2. CASE n # j
      <3>1. Mapped(n) /\ Exists(n) /\ Exists(fcmap[n].src) /\ fcmap[n].src \in Names
        BY <1>3, <1>6, <2>2, ArrayedIs
      <3>2. d = NoDisk => fcmap[n].src # j
        BY <3>1 DEF FcIds
      <3> QED
        BY <1>1, <1>2, <2>2, <3>1, <3>2
    <2> QED
      BY <2>1, <2>2
  <1>7. ASSUME NEW n \in Names, Exists(n)'
        PROVE  \/ vdisk'[n].uid = nextUid /\ n = j /\ ~Exists(j)
               \/ Exists(n) /\ vdisk'[n].uid = vdisk[n].uid /\ vdisk[n].uid < nextUid
    <2>1. \A x \in Names : Exists(x) => vdisk[x].uid < nextUid /\ vdisk[x].uid \in Nat
      BY ArrayedIs DEF Binds
    <2>2. CASE n = j /\ ~Exists(j)
      BY <1>1, <1>2, <1>4, <1>7, <2>2
    <2>3. CASE n # j \/ Exists(j)
      BY <1>1, <1>2, <1>4, <1>7, <2>1, <2>3
    <2> QED
      BY <2>2, <2>3
  <1>8. ASSUME NEW n \in Names, Exists(n)' PROVE Binds(vdisk[n].uid, n)'
    <2>1. ASSUME NEW x \in Names, Exists(x)', vdisk'[x].uid = vdisk'[n].uid PROVE x = n
      <3>1. CASE Exists(x) /\ Exists(n) /\ vdisk[x].uid = vdisk[n].uid
        BY <3>1, ArrayedIs DEF Binds
      <3>2. CASE ~(Exists(x) /\ Exists(n) /\ vdisk[x].uid = vdisk[n].uid)
        BY <1>4, <1>7, <1>8, <2>1, <3>2
      <3> QED
        BY <3>1, <3>2
    <2>2. vdisk'[n].uid < nextUid'
      <3>1. CASE vdisk'[n].uid = nextUid /\ n = j /\ ~Exists(j)
        BY <1>2, <1>4, <1>8, <3>1
      <3>2. CASE Exists(n) /\ vdisk'[n].uid = vdisk[n].uid /\ vdisk[n].uid < nextUid
        BY <1>4, <3>2, ArrayedIs
      <3> QED
        BY <1>7, <1>8, <3>1, <3>2
    <2> QED
      BY <2>1, <2>2 DEF Binds
  <1>9. Arrayed'
    <2>1. (\A n \in Names : Mapped(n) => Exists(n) /\ Exists(fcmap[n].src))'
      BY <1>6
    <2>2. (\A n \in Names : Exists(n) => Binds(vdisk[n].uid, n))'
      BY <1>8
    <2>3. nextUid' \in Nat \ {0, 1}
      BY <1>4 DEF Sound, Arrayed
    <2> QED
      BY <1>5, <2>1, <2>2, <2>3 DEF Arrayed
  <1>10. ASSUME NEW n \in Names PROVE DiskStep(l, m, n) /\ MapStep(l, m, n)
    <2>1. CASE n # j
      <3>1. vdisk'[n] = vdisk[n] /\ fcmap'[n] = fcmap[n] /\ (Exists(n)' <=> Exists(n)) /\ (Mapped(n)' <=> Mapped(n))
        BY <1>1, <1>2, <1>3, <2>1
      <3> QED
        BY <3>1 DEF DiskStep, MapStep
    <2> QED
      BY <2>1
  <1> QED
    BY <1>2, <1>9, <1>10 DEF Effects

\* A name without a volume has no mapping.
LEMMA NoDiskNoMap ==
  ASSUME Sound, NEW n \in Names, ~Exists(n)
  PROVE  fcmap[n] = NoMap /\ FcIds(n) = {}
  BY ArrayedIs DEF FcIds, Mapped

LEMMA UnchangedEffects ==
  ASSUME Sound, NEW l, NEW m, m.pc # "created", UNCHANGED arrayVars
  PROVE  Effects(l, m)
  <1>1. nextUid' = nextUid /\ vdisk' = vdisk /\ fcmap' = fcmap
    BY DEF arrayVars
  <1>2. \A n : (Exists(n)' <=> Exists(n)) /\ (Mapped(n)' <=> Mapped(n))
    BY <1>1 DEF Exists, Mapped
  <1>3. Arrayed'
    <2>1. \A u, n : Binds(u, n) => Binds(u, n)'
      BY <1>1, <1>2 DEF Binds
    <2> QED
      BY <1>1, <1>2, <2>1 DEF Sound, Arrayed
  <1> QED
    BY <1>1, <1>2, <1>3 DEF Effects, DiskStep, MapStep

\* _convert_size_bytes rounds up, to a size that it leaves alone.
LEMMA ConvertIs ==
  ASSUME NEW z \in Nat
  PROVE  Convert(z) \in Nat /\ Convert(z) >= z /\ Convert(z) % BlockSize = 0
  <1>1. BlockSize \in Nat /\ BlockSize > 0
    BY ArrayAssumption
  <1> PICK r : r = z % BlockSize
    OBVIOUS
  <1> PICK q : q = z \div BlockSize
    OBVIOUS
  <1>2. r \in Nat /\ r < BlockSize /\ q \in Nat /\ z = q * BlockSize + r
    BY <1>1
  <1>3. ASSUME NEW k \in Nat PROVE (k * BlockSize) % BlockSize = 0
    BY <1>1
  <1>4. CASE r > 0
    <2>1. Convert(z) = (z - r) + BlockSize
      BY <1>4 DEF Convert
    <2>2. Convert(z) \in Nat /\ Convert(z) >= z
      BY <1>1, <1>2, <2>1
    <2>3. z - r = q * BlockSize
      BY <1>1, <1>2
    <2>4. (q + 1) * BlockSize = q * BlockSize + BlockSize
      BY <1>1, <1>2
    <2>5. Convert(z) = (q + 1) * BlockSize
      BY <2>1, <2>3, <2>4
    <2> QED
      BY <1>2, <1>3, <2>2, <2>5
  <1>5. CASE ~(r > 0)
    BY <1>2, <1>5 DEF Convert
  <1> QED
    BY <1>4, <1>5

LEMMA MkVolumeEffects ==
  ASSUME Sound, NEW l \in LocRecs, NEW m, m.pc = "created", l.pc = "mkvolume", ~Exists(l.name),
         MkVolume(l.name, Convert(l.cap))
  PROVE  Effects(l, m)
  <1> PICK j : j = l.name
    OBVIOUS
  <1>0. j \in Names /\ l.cap \in Nat
    BY DEF LocRecs
  <1>1. Convert(l.cap) \in Nat
    BY <1>0, ConvertIs
  <1> PICK z \in Nat : z = Convert(l.cap)
    BY <1>1
  <1> PICK d : d = [uid |-> nextUid, size |-> z, copyOf |-> NoUid]
    OBVIOUS
  <1>2. d \in Disks /\ d # NoDisk /\ d.uid = nextUid /\ d.size = Convert(l.cap)
    <2>1. d \in Disks
      BY ArrayedIs DEF Disks, NoUid
    <2> QED
      BY <2>1, DiskRecs
  <1>3. vdisk' = [vdisk EXCEPT ![j] = d] /\ fcmap' = fcmap /\ nextUid' = nextUid + 1
    BY DEF MkVolume
  <1>4. vdisk'[j] = d /\ fcmap'[j] = NoMap /\ fcmap[j] = NoMap
    BY <1>0, <1>3, NoDiskNoMap, ArrayedIs
  <1>5. fcmap' = [fcmap EXCEPT ![j] = NoMap]
    BY <1>0, <1>3, <1>4, ArrayedIs
  <1>6. DiskStep(l, m, j) /\ MapStep(l, m, j)
    BY <1>2, <1>4 DEF DiskStep, MapStep, Exists, Mapped
  <1> QED
    BY <1>0, <1>2, <1>3, <1>5, <1>6, PointEffects

LEMMA MkFcmapEffects ==
  ASSUME Sound, NEW l \in LocRecs, NEW m, m.pc = "fcid", l.pc = "mkfcmap", Mappable(l.src, l.name),
         MkFcmap(l.src, l.name, l.call.op = "CreateSnapshot")
  PROVE  Effects(l, m)
  <1> PICK j : j = l.name
    OBVIOUS
  <1> PICK f : f = [src |-> l.src, rate0 |-> l.call.op = "CreateSnapshot", status |-> "idle"]
    OBVIOUS
  <1>0. j \in Names /\ l.src \in Names /\ Exists(l.src) /\ Exists(j) /\ ~Mapped(j)
    BY DEF LocRecs, Mappable
  <1>1. f \in Fcmaps /\ f # NoMap /\ f.src = l.src
    <2>1. f \in Fcmaps
      BY <1>0 DEF Fcmaps, MapStatus
    <2> QED
      BY <2>1, DiskRecs
  <1>2. fcmap' = [fcmap EXCEPT ![j] = f] /\ vdisk' = vdisk /\ nextUid' = nextUid
    BY DEF MkFcmap
  <1>3. vdisk' = [vdisk EXCEPT ![j] = vdisk[j]] /\ vdisk[j] \in Disks /\ vdisk[j] # NoDisk
    BY <1>0, <1>2, ArrayedIs DEF Exists
  <1>4. fcmap'[j] = f /\ Mapped(j)' /\ (Exists(j)' <=> Exists(j)) /\ vdisk'[j] = vdisk[j]
    BY <1>0, <1>1, <1>2, ArrayedIs DEF Mapped, Exists
  <1>5. DiskStep(l, m, j) /\ MapStep(l, m, j)
    BY <1>0, <1>4 DEF DiskStep, MapStep
  <1> QED
    BY <1>0, <1>1, <1>2, <1>3, <1>5, PointEffects

\* The commands on the mapping of an existing volume j.
LEMMA StartFcmapEffects ==
  ASSUME Sound, NEW l \in LocRecs, NEW m, m = Idle, l.pc = "startfcmap", NEW j \in Names, j \in l.fc, Mapped(j),
         StartFcmap(j)
  PROVE  Effects(l, m)
  <1>0. /\ Exists(j) /\ Exists(fcmap[j].src) /\ fcmap[j] \in Fcmaps /\ fcmap[j].src \in Names
        /\ vdisk[j] \in Disks /\ vdisk[j] # NoDisk /\ vdisk[fcmap[j].src].uid \in Nat
    BY ArrayedIs, DiskIs DEF Exists
  <1> PICK f : f = [fcmap[j] EXCEPT !.status = "copying"]
    OBVIOUS
  <1> PICK d : d = IF fcmap[j].status = "copying" THEN vdisk[j] ELSE [vdisk[j] EXCEPT !.copyOf = vdisk[fcmap[j].src].uid]
    OBVIOUS
  <1>1. f \in Fcmaps /\ f # NoMap /\ f.src = fcmap[j].src
    <2>1. f \in Fcmaps
      BY <1>0 DEF Fcmaps, MapStatus
    <2> QED
      BY <1>0, <2>1, DiskRecs DEF Fcmaps
  <1>2. /\ d \in Disks /\ d # NoDisk /\ d.uid = vdisk[j].uid /\ d.size = vdisk[j].size
        /\ fcmap[j].status # "copying" => d.copyOf = vdisk[fcmap[j].src].uid
        /\ fcmap[j].status = "copying" => d.copyOf = vdisk[j].copyOf
    <2>1. CASE fcmap[j].status = "copying"
      BY <1>0, <2>1
    <2>2. CASE fcmap[j].status # "copying"
      <3>1. d \in Disks /\ d.uid = vdisk[j].uid /\ d.size = vdisk[j].size /\ d.copyOf = vdisk[fcmap[j].src].uid
        BY <1>0, <2>2 DEF Disks
      <3> QED
        BY <2>2, <3>1, DiskRecs
    <2> QED
      BY <2>1, <2>2
  <1>3. fcmap' = [fcmap EXCEPT ![j] = f] /\ vdisk' = [vdisk EXCEPT ![j] = d] /\ nextUid' = nextUid
    <2>1. CASE fcmap[j].status = "copying"
      <3>1. vdisk' = vdisk
        BY <2>1 DEF StartFcmap
      <3>2. vdisk = [vdisk EXCEPT ![j] = vdisk[j]]
        BY ArrayedIs
      <3> QED
        BY <2>1, <3>1, <3>2 DEF StartFcmap
    <2>2. CASE fcmap[j].status # "copying"
      BY <2>2 DEF StartFcmap
    <2> QED
      BY <2>1, <2>2
  <1>4. fcmap'[j] = f /\ vdisk'[j] = d /\ Mapped(j)' /\ Exists(j)'
    BY <1>1, <1>2, <1>3, ArrayedIs DEF Mapped, Exists
  <1>5. DiskStep(l, m, j)
    BY <1>0, <1>2, <1>4 DEF DiskStep
  <1>6. MapStep(l, m, j)
    BY <1>0, <1>2, <1>4 DEF MapStep
  <1>7. m.pc # "created"
    BY IdleIs
  <1> QED
    BY <1>0, <1>1, <1>2, <1>3, <1>5, <1>6, <1>7, PointEffects

\* What the loss of its mapping does to the volume j.
LEMMA BrokenIs ==
  ASSUME Sound, NEW j \in Names, Mapped(j), vdisk' = Broken(j)
  PROVE  \E d \in Disks : /\ vdisk' = [vdisk EXCEPT ![j] = d] /\ d.uid = vdisk[j].uid /\ d.size = vdisk[j].size
                          /\ fcmap[j].status # "copying" => d = vdisk[j]
  <1>0. Exists(j) /\ vdisk[j] \in Disks
    BY ArrayedIs
  <1>1. CASE fcmap[j].status = "copying"
    <2> PICK d : d = [vdisk[j] EXCEPT !.copyOf = NoUid]
      OBVIOUS
    <2>1. d \in Disks /\ d.uid = vdisk[j].uid /\ d.size = vdisk[j].size
      BY <1>0 DEF Disks, NoUid
    <2>2. vdisk' = [vdisk EXCEPT ![j] = d]
      BY <1>0, <1>1 DEF Broken
    <2> QED
      BY <1>1, <2>1, <2>2
  <1>2. CASE fcmap[j].status # "copying"
    <2>1. vdisk' = vdisk
      BY <1>2 DEF Broken
    <2>2. vdisk = [vdisk EXCEPT ![j] = vdisk[j]]
      BY ArrayedIs
    <2> QED
      BY <1>0, <2>1, <2>2
  <1> QED
    BY <1>1, <1>2

LEMMA RmFcmapEffects ==
  ASSUME Sound, NEW l \in LocRecs, NEW m, m.pc # "created", NEW j \in Names, Mapped(j),
         NEW force \in BOOLEAN, RmFcmap(j, force), force => l.pc = "rmtargetmap" /\ j = l.name,
         ~force => (l.pc = "rmfcmap" /\ j \in l.fc) \/ (l.pc = "rmmaps" /\ j \in l.maps)
  PROVE  Effects(l, m)
  <1>1. CASE ~(force \/ fcmap[j].status # "copying")
    <2>1. UNCHANGED arrayVars
      BY <1>1 DEF RmFcmap, arrayVars
    <2> QED
      BY <2>1, UnchangedEffects
  <1>2. CASE force \/ fcmap[j].status # "copying"
    <2>1. fcmap' = [fcmap EXCEPT ![j] = NoMap] /\ vdisk' = Broken(j) /\ nextUid' = nextUid
      BY <1>2 DEF RmFcmap
    <2> PICK d \in Disks : /\ vdisk' = [vdisk EXCEPT ![j] = d] /\ d.uid = vdisk[j].uid /\ d.size = vdisk[j].size
                           /\ fcmap[j].status # "copying" => d = vdisk[j]
      BY <2>1, BrokenIs
    <2>2. d # NoDisk /\ Exists(j)
      BY DiskRecs, ArrayedIs
    <2>3. fcmap'[j] = NoMap /\ vdisk'[j] = d /\ ~Mapped(j)' /\ Exists(j)'
      BY <2>1, <2>2, ArrayedIs DEF Mapped, Exists
    <2>4. DiskStep(l, m, j)
      BY <1>2, <2>2, <2>3 DEF DiskStep
    <2>5. MapStep(l, m, j)
      BY <1>2, <2>3 DEF MapStep
    <2> QED
      BY <2>1, <2>2, <2>4, <2>5, PointEffects
  <1> QED
    BY <1>1, <1>2

LEMMA StopFcmapEffects ==
  ASSUME Sound, NEW l \in LocRecs, NEW m, m.pc = "rmtargetmap", l.pc = "stop", NEW j \in Names, j = l.name,
         Mapped(j), StopFcmap(j)
  PROVE  Effects(l, m)
  <1>1. CASE fcmap[j].status # "copying"
    <2>1. UNCHANGED arrayVars
      BY <1>1 DEF StopFcmap, Broken, arrayVars
    <2> QED
      BY <2>1, UnchangedEffects
  <1>2. CASE fcmap[j].status = "copying"
    <2> PICK f : f = [fcmap[j] EXCEPT !.status = "stopped"]
      OBVIOUS
    <2>0. /\ Exists(j) /\ Exists(fcmap[j].src) /\ fcmap[j] \in Fcmaps /\ fcmap[j].src \in Names
      BY ArrayedIs
    <2>1. fcmap' = [fcmap EXCEPT ![j] = f] /\ vdisk' = Broken(j) /\ nextUid' = nextUid
      BY <1>2 DEF StopFcmap
    <2>2. f \in Fcmaps /\ f # NoMap /\ f.src = fcmap[j].src
      <3>1. f \in Fcmaps
        BY <2>0 DEF Fcmaps, MapStatus
      <3> QED
        BY <2>0, <3>1, DiskRecs DEF Fcmaps
    <2> PICK d \in Disks : /\ vdisk' = [vdisk EXCEPT ![j] = d] /\ d.uid = vdisk[j].uid /\ d.size = vdisk[j].size
                           /\ fcmap[j].status # "copying" => d = vdisk[j]
      BY <2>1, BrokenIs
    <2>3. d # NoDisk
      BY DiskRecs
    <2>4. fcmap'[j] = f /\ vdisk'[j] = d /\ Mapped(j)' /\ Exists(j)'
      BY <2>1, <2>2, <2>3, ArrayedIs DEF Mapped, Exists
    <2>5. DiskStep(l, m, j) /\ MapStep(l, m, j)
      BY <1>2, <2>0, <2>4 DEF DiskStep, MapStep
    <2> QED
      BY <2>0, <2>1, <2>2, <2>3, <2>5, PointEffects
  <1> QED
    BY <1>1, <1>2

LEMMA RmVolumeEffects ==
  ASSUME Sound, NEW l \in LocRecs, NEW m, m.pc # "created", l.pc \in {"rmtarget", "rmvolume"}, NEW j \in Names, j = l.name,
         Removable(j), RmVolume(j)
  PROVE  Effects(l, m)
  <1>1. Exists(j) /\ FcIds(j) = {} /\ ~Mapped(j)
    BY DEF Removable, FcIds
  <1>2. vdisk' = [vdisk EXCEPT ![j] = NoDisk] /\ fcmap' = fcmap /\ nextUid' = nextUid
    BY DEF RmVolume
  <1>3. fcmap' = [fcmap EXCEPT ![j] = NoMap]
    BY <1>1, <1>2, ArrayedIs DEF Mapped
  <1>4. vdisk'[j] = NoDisk /\ ~Exists(j)' /\ ~Mapped(j)'
    BY <1>1, <1>2, ArrayedIs DEF Exists, Mapped
  <1>5. DiskStep(l, m, j) /\ MapStep(l, m, j)
    BY <1>1, <1>4 DEF DiskStep, MapStep
  <1> QED
    BY <1>1, <1>2, <1>3, <1>5, PointEffects

LEMMA ExpandVdiskEffects ==
  ASSUME Sound, NEW l \in LocRecs, NEW m, m.pc = "xafter", l.pc = "expand", NEW j \in Names, j = l.name,
         Removable(j), Convert(l.call.size) > l.cap, ExpandVdisk(j, Convert(l.call.size) - l.cap)
  PROVE  Effects(l, m)
  <1>1. Exists(j) /\ FcIds(j) = {} /\ ~Mapped(j) /\ vdisk[j] \in Disks /\ vdisk[j].size \in Nat
    BY DiskIs DEF Removable, FcIds
  <1>2. Convert(l.call.size) \in Nat /\ l.cap \in Nat
    <2>1. l.call.size \in Nat /\ l.cap \in Nat
      BY DEF LocRecs, CallRecs
    <2> QED
      BY <2>1, ConvertIs
  <1> PICK z : z = vdisk[j].size + (Convert(l.call.size) - l.cap)
    OBVIOUS
  <1>3. z \in Nat
    BY <1>1, <1>2
  <1> PICK d : d = [vdisk[j] EXCEPT !.size = z]
    OBVIOUS
  <1>4. d \in Disks /\ d.uid = vdisk[j].uid /\ d.copyOf = vdisk[j].copyOf /\ d.size = z
    BY <1>1, <1>3 DEF Disks
  <1>5. vdisk' = [vdisk EXCEPT ![j] = d] /\ fcmap' = fcmap /\ nextUid' = nextUid
    BY DEF ExpandVdisk
  <1>6. fcmap' = [fcmap EXCEPT ![j] = NoMap]
    BY <1>1, <1>5, ArrayedIs DEF Mapped
  <1>7. d # NoDisk
    BY <1>4, DiskRecs
  <1>8. vdisk'[j] = d /\ Exists(j)' /\ ~Mapped(j)'
    BY <1>1, <1>5, <1>7, ArrayedIs DEF Exists, Mapped
  <1>9. DiskStep(l, m, j) /\ MapStep(l, m, j)
    BY <1>1, <1>4, <1>8 DEF DiskStep, MapStep
  <1> QED
    BY <1>1, <1>4, <1>5, <1>6, <1>7, <1>9, PointEffects

LEMMA ArrayEffects ==
  ASSUME Sound, NEW t \in Threads, NEW l, l = loc[t], l.pc # "idle", NEW m, ArrayStep(l, m)
  PROVE  Effects(l, m)
  <1>1. l \in LocRecs /\ l.name \in Names /\ l.fc \subseteq Names /\ l.maps \subseteq Names
    BY LocIs
  <1>2. CASE m.pc = "created" /\ l.pc = "mkvolume" /\ ~Exists(l.name) /\ MkVolume(l.name, Convert(l.cap))
    BY <1>1, <1>2, MkVolumeEffects
  <1>3. CASE m.pc # "created" /\ UNCHANGED arrayVars
    BY <1>3, UnchangedEffects
  <1>4. CASE /\ l.pc = "mkfcmap" /\ m.pc = "fcid" /\ Mappable(l.src, l.name)
             /\ MkFcmap(l.src, l.name, l.call.op = "CreateSnapshot")
    BY <1>1, <1>4, MkFcmapEffects
  <1>5. CASE l.pc = "startfcmap" /\ m = Idle /\ \E x \in l.fc : Mapped(x) /\ StartFcmap(x)
    BY <1>1, <1>5, StartFcmapEffects
  <1>6. CASE m.pc # "created" /\ l.pc = "rmfcmap" /\ \E x \in l.fc : Mapped(x) /\ RmFcmap(x, FALSE)
    BY <1>1, <1>6, RmFcmapEffects
  <1>7. CASE m.pc # "created" /\ l.pc = "rmmaps" /\ \E x \in l.maps : Mapped(x) /\ RmFcmap(x, FALSE)
    BY <1>1, <1>7, RmFcmapEffects
  <1>8. CASE l.pc = "stop" /\ m.pc = "rmtargetmap" /\ Mapped(l.name) /\ StopFcmap(l.name)
    BY <1>1, <1>8, StopFcmapEffects
  <1>9. CASE l.pc = "rmtargetmap" /\ m.pc = "rmvolume" /\ Mapped(l.name) /\ RmFcmap(l.name, TRUE)
    BY <1>1, <1>9, RmFcmapEffects
  <1>10. CASE m.pc # "created" /\ l.pc \in {"rmtarget", "rmvolume"} /\ Removable(l.name) /\ RmVolume(l.name)
    BY <1>1, <1>10, RmVolumeEffects
  <1>11. CASE /\ l.pc = "expand" /\ m.pc = "xafter" /\ Removable(l.name) /\ Convert(l.call.size) > l.cap
              /\ ExpandVdisk(l.name, Convert(l.call.size) - l.cap)
    BY <1>1, <1>11, ExpandVdiskEffects
  <1> QED
    BY <1>2, <1>3, <1>4, <1>5, <1>6, <1>7, <1>8, <1>9, <1>10, <1>11 DEF ArrayStep

-----------------------------------------------------------------------------
(***************************************************************************)
(* Sound is kept.                                                          *)
(***************************************************************************)

\* Ids are not used again and do not move; what was answered and asked for stays.
Ages ==
    /\ nextUid' \in Nat /\ nextUid <= nextUid'
    /\ \A n \in Names : Exists(n)' /\ vdisk'[n].uid < nextUid => Exists(n) /\ vdisk'[n].uid = vdisk[n].uid
    /\ answers \subseteq answers' /\ deleting \subseteq deleting'

LEMMA BindsStays ==
  ASSUME Sound, Ages, NEW u \in Nat, NEW n, Binds(u, n)
  PROVE  Binds(u, n)'
  <1>1. u < nextUid /\ u < nextUid'
    BY ArrayedIs DEF Ages, Binds
  <1>2. ASSUME NEW m \in Names, Exists(m)', vdisk'[m].uid = u PROVE m = n
    <2>1. Exists(m) /\ vdisk[m].uid = u
      BY <1>1, <1>2 DEF Ages
    <2> QED
      BY <2>1 DEF Binds
  <1> QED
    BY <1>1, <1>2 DEF Binds

LEMMA GoneStays ==
  ASSUME Sound, Ages, NEW u \in Nat, u < nextUid, NamesOf(u) = {}
  PROVE  NamesOf(u)' = {} /\ u < nextUid'
  <1>1. u < nextUid'
    BY ArrayedIs DEF Ages
  <1>2. ASSUME NEW m \in Names, Exists(m)', vdisk'[m].uid = u PROVE FALSE
    <2>1. Exists(m) /\ vdisk[m].uid = u
      BY <1>2 DEF Ages
    <2> QED
      BY <2>1 DEF NamesOf
  <1> QED
    BY <1>1, <1>2 DEF NamesOf

\* What is known: from the start, or from an answer.
LEMMA KnownIs ==
  ASSUME NEW k
  PROVE  k \in Known <=> \/ k = [uid |-> 1, name |-> Source, op |-> "CreateVolume"]
                         \/ \E a \in answers : /\ a.call.op \in Creates /\ a.status = "OK"
                                               /\ k = [uid |-> a.uid, name |-> a.call.name, op |-> a.call.op]
  BY DEF Known

LEMMA KnownGrows ==
  ASSUME answers \subseteq answers'
  PROVE  Known \subseteq Known' /\ \A ops : OkTo(ops) \subseteq OkTo(ops)'
  BY DEF Known, OkTo

LEMMA NewKnown ==
  ASSUME NEW a, answers' = answers \cup {a}, NEW k, k \in Known', k \notin Known
  PROVE  /\ a.call.op \in Creates /\ a.status = "OK"
         /\ k = [uid |-> a.uid, name |-> a.call.name, op |-> a.call.op]
  BY DEF Known

LEMMA SameKnown ==
  ASSUME answers' = answers
  PROVE  Known' = Known /\ \A ops : OkTo(ops)' = OkTo(ops)
  BY DEF Known, OkTo

LEMMA LocStays ==
  ASSUME Sound, Ages, NEW l, LocOK(l)
  PROVE  LocOK(l)'
  <1>1. l \in LocRecs /\ InStep(l) /\ l.uid \in Nat
    BY DEF LocOK, LocRecs
  <1>2. Binds(l.uid, l.call.name)'
    BY <1>1, BindsStays DEF LocOK
  <1>3. CallOK(l.call)'
    <2>1. Known \subseteq Known' /\ deleting \subseteq deleting'
      BY KnownGrows DEF Ages
    <2>2. Asks(l.call)'
      BY <2>1 DEF LocOK, CallOK, Asks
    <2> QED
      BY <2>1, <2>2 DEF LocOK, CallOK
  <1> QED
    BY <1>1, <1>2, <1>3 DEF LocOK

LEMMA AnswerStays ==
  ASSUME Sound, Ages, NEW a, AnswerOK(a)
  PROVE  AnswerOK(a)'
  <1>1. a \in AnswerRecs /\ a.call.uid \in Nat
    BY DEF AnswerOK, AnswerRecs, CallRecs
  <1> QED
    BY <1>1, GoneStays DEF AnswerOK

LEMMA LocsStay ==
  ASSUME Sound, Ages, NEW t \in Threads, NEW m, loc' = [loc EXCEPT ![t] = m], LocOK(m)'
  PROVE  loc' \in [Threads -> LocRecs] /\ (\A u \in Threads : LocOK(loc[u]))'
  <1>1. m \in LocRecs
    BY DEF LocOK
  <1>2. loc' \in [Threads -> LocRecs]
    BY <1>1 DEF Sound
  <1>3. ASSUME NEW u \in Threads PROVE LocOK(loc[u])'
    <2> PICK l : l = loc'[u]
      OBVIOUS
    <2>1. l = m \/ l = loc[u]
      BY DEF Sound
    <2>2. LocOK(l)'
      BY <2>1, LocStays DEF Sound
    <2> QED
      BY <2>2
  <1> QED
    BY <1>2, <1>3

LEMMA EffectsAge ==
  ASSUME Sound, NEW l, NEW m, Effects(l, m), answers \subseteq answers', deleting \subseteq deleting'
  PROVE  Ages
  <1>1. nextUid' \in Nat /\ nextUid <= nextUid'
    BY ArrayedIs DEF Effects
  <1>2. ASSUME NEW n \in Names, Exists(n)', vdisk'[n].uid < nextUid
        PROVE  Exists(n) /\ vdisk'[n].uid = vdisk[n].uid
    <2>1. DiskStep(l, m, n)
      BY DEF Effects
    <2>2. vdisk'[n].uid # nextUid
      BY <1>2, ArrayedIs
    <2> QED
      BY <1>2, <2>1, <2>2 DEF DiskStep
  <1> QED
    BY <1>1, <1>2 DEF Ages

\* No object has the id NoUid.
LEMMA BindsNone ==
  ASSUME Sound, NEW n
  PROVE  Binds(NoUid, n)
  BY ArrayedIs, DiskIs DEF Binds, NoUid

LEMMA IdleOK ==
  ASSUME Sound
  PROVE  LocOK(Idle)
  <1>1. InStep(Idle)
    BY IdleIs DEF InStep, Creates, Looking, Preparing, Unmapped, Filling, Removing, Expanding
  <1>2. CallOK(NoCall)
    BY IdleIs DEF CallOK, Asks, Creates, Deletes
  <1> QED
    BY <1>1, <1>2, IdleIs, BindsNone DEF LocOK

LEMMA GoesOK ==
  ASSUME Sound, NEW t \in Threads, NEW l, l = loc[t], NEW m, Goes(l, m), Ages
  PROVE  LocOK(m)'
  <1>1. LocOK(l) /\ l \in LocRecs /\ l.uid \in Nat /\ l.name \in Names /\ l.name = l.call.name
    BY LocIs DEF Sound
  <1>2. LocOK(l)'
    BY <1>1, LocStays
  <1>3. m \in LocRecs /\ InStep(m) /\ m.call = l.call
    BY DEF Goes
  <1>4. Binds(m.uid, m.call.name)'
    <2>1. CASE m.uid = l.uid
      BY <1>2, <1>3, <2>1 DEF LocOK
    <2>2. CASE Exists(l.name) /\ m.uid = vdisk[l.name].uid
      <3>1. Binds(m.uid, m.call.name) /\ m.uid \in Nat
        BY <1>1, <1>3, <2>2, ArrayedIs
      <3> QED
        BY <3>1, BindsStays
    <2> QED
      BY <2>1, <2>2 DEF Goes, Learns
  <1> QED
    BY <1>2, <1>3, <1>4 DEF LocOK

\* What a step of a thread does, gathered.
LEMMA StepIs ==
  ASSUME Sound, NEW t \in Threads, NEW l, l = loc[t], NEW m, Step(t, l, m)
  PROVE  /\ l \in LocRecs /\ m \in LocRecs /\ LocOK(l) /\ l.pc # "idle" /\ Effects(l, m) /\ Ages
         /\ loc' \in [Threads -> LocRecs] /\ loc'[t] = m /\ LocOK(m)'
         /\ \A u \in Threads : u # t => loc'[u] = loc[u]
         /\ Known \subseteq Known'
  <1>1. /\ l \in LocRecs /\ LocOK(l) /\ l.pc # "idle" /\ loc' = [loc EXCEPT ![t] = m]
        /\ Goes(l, m) \/ m = Idle
    BY DEF Sound, Step
  <1>2. m \in LocRecs
    BY <1>1, IdleIs DEF Goes
  <1>3. Effects(l, m)
    BY <1>1, ArrayEffects DEF Step
  <1>4. answers \subseteq answers' /\ deleting \subseteq deleting'
    BY DEF Step
  <1>5. Ages
    BY <1>3, <1>4, EffectsAge
  <1>6. LocOK(m)'
    <2>1. CASE m = Idle
      BY <1>5, <2>1, IdleOK, LocStays
    <2>2. CASE Goes(l, m)
      BY <1>5, <2>2, GoesOK
    <2> QED
      BY <1>1, <2>1, <2>2
  <1>7. loc' \in [Threads -> LocRecs] /\ loc'[t] = m /\ \A u \in Threads : u # t => loc'[u] = loc[u]
    BY <1>1, <1>2 DEF Sound
  <1> QED
    BY <1>1, <1>2, <1>3, <1>4, <1>5, <1>6, <1>7, KnownGrows

LEMMA EndsOK ==
  ASSUME Sound, NEW t \in Threads, NEW l, l = loc[t], l.pc # "idle", Ages,
         NEW status \in Statuses, NEW u \in Nat, Ends(l, status, u),
         NEW a, a = [call |-> l.call, status |-> status, uid |-> u]
  PROVE  AnswerOK(a)'
  <1>1. LocOK(l) /\ l \in LocRecs /\ l.call \in CallRecs /\ InStep(l) /\ LocOK(l)'
    BY LocIs, LocStays DEF Sound
  <1>2. a \in AnswerRecs /\ a.call = l.call /\ a.status = status /\ a.uid = u
    BY <1>1 DEF AnswerRecs
  <1>3. CASE status = "OK" /\ l.call.op = "DeleteVolume"
    <2>1. l.uid = l.call.uid /\ NamesOf(l.uid)' = {}
      BY <1>1, <1>3 DEF Ends, EndsOk, InStep, Creates
    <2>2. l.uid < nextUid'
      BY <1>1 DEF LocOK, Binds
    <2> QED
      BY <1>2, <2>1, <2>2 DEF AnswerOK
  <1>4. CASE ~(status = "OK" /\ l.call.op = "DeleteVolume")
    BY <1>2, <1>4 DEF AnswerOK
  <1> QED
    BY <1>3, <1>4

\* The id of an object that is answered as created.
LEMMA AnsweredUid ==
  ASSUME Sound, NEW t \in Threads, NEW l, l = loc[t], l.pc # "idle", l.call.op \in Creates, NEW u \in Nat, EndsOk(l, u)
  PROVE  u # NoUid /\ Binds(u, l.call.name)
  <1>1. LocOK(l) /\ InStep(l) /\ l.name \in Names /\ l.name = l.call.name
    BY LocIs DEF Sound
  <1>2. CASE Exists(l.name) /\ u = vdisk[l.name].uid
    BY <1>1, <1>2, ArrayedIs, DiskIs
  <1>3. CASE u = l.uid /\ l.pc \in {"startfcmap", "origin", "sverify"}
    BY <1>1, <1>3 DEF LocOK, InStep
  <1> QED
    BY <1>2, <1>3 DEF EndsOk

LEMMA AdvanceSound ==
  ASSUME Sound, NEW t \in Threads, Advance(t)
  PROVE  Sound'
  <1> PICK l \in LocRecs, m \in LocRecs : l = loc[t] /\ Step(t, l, m)
    BY DEF Advance
  <1>1. /\ Effects(l, m) /\ Ages /\ LocOK(m)' /\ l.pc # "idle" /\ Known \subseteq Known'
        /\ loc' = [loc EXCEPT ![t] = m]
    BY StepIs DEF Step
  <1>2. Arrayed'
    BY <1>1 DEF Effects
  <1>3. Counted'
    BY DEF Step, Sound, Counted
  <1>4. loc' \in [Threads -> LocRecs] /\ (\A u \in Threads : LocOK(loc[u]))'
    BY <1>1, LocsStay
  <1>5. ASSUME NEW a \in answers' PROVE AnswerOK(a)'
    <2>1. CASE a \in answers
      BY <1>1, <2>1, AnswerStays DEF Sound
    <2>2. CASE a \notin answers
      <3> PICK status \in Statuses, u \in Nat :
             /\ answers' = answers \cup {[call |-> l.call, status |-> status, uid |-> u]}
             /\ Ends(l, status, u)
        BY <2>2 DEF Step
      <3>1. a = [call |-> l.call, status |-> status, uid |-> u]
        BY <1>5, <2>2
      <3> QED
        BY <1>1, <3>1, EndsOK
    <2> QED
      BY <2>1, <2>2
  <1>6. ASSUME NEW k \in Known' PROVE k \in KnownRecs /\ Binds(k.uid, k.name)'
    <2>1. CASE k \in Known
      <3>1. k \in KnownRecs /\ Binds(k.uid, k.name) /\ k.uid \in Nat
        BY <2>1 DEF Sound, KnownRecs
      <3> QED
        BY <1>1, <3>1, BindsStays
    <2>2. CASE k \notin Known
      <3>1. answers' # answers
        BY <1>6, <2>2, SameKnown
      <3> PICK status \in Statuses, u \in Nat :
             /\ answers' = answers \cup {[call |-> l.call, status |-> status, uid |-> u]}
             /\ Ends(l, status, u)
        BY <3>1 DEF Step
      <3> PICK a : a = [call |-> l.call, status |-> status, uid |-> u]
        OBVIOUS
      <3>2. a.call = l.call /\ a.status = status /\ a.uid = u /\ answers' = answers \cup {a}
        OBVIOUS
      <3>3. a.call.op \in Creates /\ a.status = "OK" /\ k = [uid |-> a.uid, name |-> a.call.name, op |-> a.call.op]
        BY <1>6, <2>2, <3>2, NewKnown
      <3>4. k = [uid |-> u, name |-> l.call.name, op |-> l.call.op] /\ l.call.op \in Creates /\ EndsOk(l, u)
        BY <3>2, <3>3 DEF Ends
      <3>5. u # NoUid /\ Binds(u, l.call.name)
        BY <1>1, <3>4, AnsweredUid
      <3>6. Binds(u, l.call.name)'
        BY <1>1, <3>5, BindsStays
      <3>7. l.call.name \in Names
        BY DEF LocRecs, CallRecs
      <3>8. k \in KnownRecs /\ k.uid = u /\ k.name = l.call.name
        BY <3>4, <3>5, <3>7 DEF KnownRecs
      <3> QED
        BY <3>6, <3>8
    <2> QED
      BY <2>1, <2>2
  <1>7. deleting' \subseteq {k.uid : k \in Known'}
    BY <1>1 DEF Step, Sound
  <1> QED
    BY <1>2, <1>3, <1>4, <1>5, <1>6, <1>7 DEF Sound

\* A call of the orchestrator, which asks of what it knows.
LEMMA CallsAre ==
  ASSUME Sound, NEW t \in Threads, Start(t)
  PROVE  \E c : Asks(c) /\ c.op \in RPCs /\ (c.op \in Creates => c.uid = NoUid) /\ Ask(t, c)
  <1> DEFINE Good(c) == Asks(c) /\ c.op \in RPCs /\ (c.op \in Creates => c.uid = NoUid)
  <1>1. /\ NoCall \in CallRecs /\ NoCall.uid = NoUid /\ NoCall.source = NoUid /\ NoCall.kind = "volume"
        /\ NoCall.size = 0 /\ NoCall.name \in Names /\ NoUid \in Nat
    BY ProvisioningAssumption, IdleIs DEF NoCall, NoUid
  <1>2. ASSUME NEW k \in Known PROVE k.uid \in Nat /\ k.uid # NoUid /\ k.name \in Names
    BY DEF Sound, KnownRecs
  <1>3. {"CreateVolume", "CreateSnapshot", "DeleteVolume", "DeleteSnapshot", "Expand"} \subseteq RPCs
    BY DEF RPCs, Creates, Deletes
  <1>4. ASSUME NEW n \in Names \ {Source}, NEW z \in Sizes, NEW c,
               c = [NoCall EXCEPT !.op = "CreateVolume", !.name = n, !.size = z]
        PROVE  Good(c)
    <2>1. z \in Nat
      BY ProvisioningAssumption
    <2>2. c \in CallRecs /\ c.op = "CreateVolume" /\ c.name = n /\ c.uid = NoUid /\ c.source = NoUid /\ c.size = z
      BY <1>1, <1>3, <1>4, <2>1 DEF CallRecs
    <2> QED
      BY <1>3, <2>2 DEF Asks, Creates, Deletes
  <1>5. ASSUME NEW n \in Names \ {Source}, NEW z \in Sizes, NEW k \in Known, NEW c,
               c = [NoCall EXCEPT !.op = "CreateVolume", !.name = n, !.size = z, !.source = k.uid,
                                  !.kind = IF k \in Volumes THEN "volume" ELSE "snapshot"]
        PROVE  Good(c)
    <2>1. z \in Nat /\ k.uid \in Nat
      BY <1>2, ProvisioningAssumption
    <2>2. c \in CallRecs /\ c.op = "CreateVolume" /\ c.name = n /\ c.uid = NoUid /\ c.source = k.uid /\ c.size = z
      BY <1>1, <1>3, <1>5, <2>1 DEF CallRecs
    <2> QED
      BY <1>3, <2>2 DEF Asks, Creates, Deletes
  <1>6. ASSUME NEW n \in Names \ {Source}, NEW k \in Volumes, NEW c,
               c = [NoCall EXCEPT !.op = "CreateSnapshot", !.name = n, !.source = k.uid]
        PROVE  Good(c)
    <2>1. k \in Known /\ k.uid \in Nat /\ k.uid # NoUid
      BY <1>2 DEF Volumes
    <2>2. c \in CallRecs /\ c.op = "CreateSnapshot" /\ c.name = n /\ c.uid = NoUid /\ c.source = k.uid
      BY <1>1, <1>3, <1>6, <2>1 DEF CallRecs
    <2> QED
      BY <1>3, <2>1, <2>2 DEF Asks, Creates, Deletes
  <1>7. ASSUME NEW k \in Known, NEW c,
               c = [NoCall EXCEPT !.op = IF k \in Volumes THEN "DeleteVolume" ELSE "DeleteSnapshot",
                                  !.name = k.name, !.uid = k.uid]
        PROVE  Good(c)
    <2>1. k.uid \in Nat /\ k.name \in Names
      BY <1>2
    <2>2. /\ c \in CallRecs /\ c.name = k.name /\ c.uid = k.uid /\ c.source = NoUid
          /\ c.op = IF k \in Volumes THEN "DeleteVolume" ELSE "DeleteSnapshot"
      BY <1>1, <1>3, <1>7, <2>1 DEF CallRecs
    <2>3. c.op \in {"DeleteVolume", "DeleteSnapshot"} /\ (c.op = "DeleteSnapshot" => k.op = "CreateSnapshot")
      BY <2>2 DEF Volumes, Sound, KnownRecs, Creates
    <2> QED
      BY <1>3, <2>2, <2>3 DEF Asks, Creates, Deletes
  <1>8. ASSUME NEW k \in Volumes, NEW z \in Sizes, NEW c,
               c = [NoCall EXCEPT !.op = "Expand", !.name = k.name, !.uid = k.uid, !.size = z]
        PROVE  Good(c)
    <2>1. k \in Known /\ k.uid \in Nat /\ k.name \in Names /\ z \in Nat
      BY <1>2, ProvisioningAssumption DEF Volumes
    <2>2. c \in CallRecs /\ c.op = "Expand" /\ c.name = k.name /\ c.uid = k.uid /\ c.source = NoUid /\ c.size = z
      BY <1>1, <1>3, <1>8, <2>1 DEF CallRecs
    <2> QED
      BY <1>3, <2>1, <2>2 DEF Asks, Creates, Deletes
  <1> HIDE DEF Good
  <1>9. \E c : Good(c) /\ Ask(t, c)
    BY <1>4, <1>5, <1>6, <1>7, <1>8 DEF Start
  <1> QED
    BY <1>9 DEF Good

\* A thread that takes up a call; the array does not change.
Opens(t, c, m) ==
    /\ loc[t] = Idle /\ loc' = [loc EXCEPT ![t] = m] /\ m \in LocRecs /\ InStep(m)
    /\ m.pc \in {"lookup", "slook", "find", "xlook"} /\ m.call = c /\ m.uid = c.uid /\ m.name = c.name
    /\ ~Made(m)
    /\ deleting' = IF c.op \in Deletes THEN deleting \cup {c.uid} ELSE deleting
    /\ Overlap \/ \A o \in Threads : loc[o] # Idle => loc[o].call.name # c.name
    /\ ReuseNames \/ c.op \notin Creates \/ \A k \in Known : k.name = c.name => k.uid \notin deleting
    /\ UNCHANGED <<vdisk, fcmap, nextUid, answers, faults, crashes>>

LEMMA StartOpens ==
  ASSUME Sound, NEW t \in Threads, Start(t)
  PROVE  \E c, m : Asks(c) /\ c.op \in RPCs /\ (c.op \in Creates => c.uid = NoUid) /\ Opens(t, c, m) /\ calls' = calls + 1
  <1> PICK c : Asks(c) /\ c.op \in RPCs /\ (c.op \in Creates => c.uid = NoUid) /\ Ask(t, c)
    BY CallsAre
  <1> PICK m : m = [Idle EXCEPT !.call = c, !.name = c.name, !.uid = c.uid, !.pc = FirstStep[c.op]]
    OBVIOUS
  <1>1. /\ c.op = "CreateVolume" => FirstStep[c.op] = "lookup"
        /\ c.op = "CreateSnapshot" => FirstStep[c.op] = "slook"
        /\ c.op \in Deletes => FirstStep[c.op] = "find"
        /\ c.op = "Expand" => FirstStep[c.op] = "xlook"
    BY DEF FirstStep, Deletes
  <1>2. /\ c \in CallRecs /\ c.uid \in Nat /\ c.name \in Names /\ c.op # "none"
        /\ c.op \in {"CreateVolume", "CreateSnapshot", "Expand"} \cup Deletes
    BY DEF Asks, CallRecs, RPCs, Creates, Deletes
  <1>3. FirstStep[c.op] \in {"lookup", "slook", "find", "xlook"}
    BY <1>1, <1>2
  <1>4. {"lookup", "slook", "find", "xlook"} \subseteq Steps
    BY DEF Steps
  <1>5. m \in LocRecs /\ m.pc = FirstStep[c.op] /\ m.call = c /\ m.uid = c.uid /\ m.name = c.name /\ m.undo = "none"
    BY <1>2, <1>3, <1>4, IdleIs DEF LocRecs
  <1>6. InStep(m) /\ ~Made(m)
    BY <1>1, <1>2, <1>3, <1>5
    DEF InStep, Made, Looking, Preparing, Unmapped, Filling, Removing, Expanding, Creates, Deletes
  <1>7. Opens(t, c, m) /\ calls' = calls + 1
    BY <1>3, <1>5, <1>6 DEF Opens, Ask, Then, Go, arrayVars
  <1> QED
    BY <1>7

\* The volumes and the answers stay.
Rests == UNCHANGED <<vdisk, nextUid, answers>> /\ deleting \subseteq deleting'

LEMMA RestsAge ==
  ASSUME Sound, Rests
  PROVE  /\ Ages /\ (fcmap' = fcmap => Arrayed') /\ Known' = Known
         /\ (\A n : Exists(n)' <=> Exists(n))
         /\ (\A u, n : Binds(u, n)' <=> Binds(u, n))
  <1>1. vdisk' = vdisk /\ nextUid' = nextUid /\ answers' = answers
    BY DEF Rests
  <1>2. \A n : Exists(n)' <=> Exists(n)
    BY <1>1 DEF Exists
  <1>3. fcmap' = fcmap => \A n : Mapped(n)' <=> Mapped(n)
    BY DEF Mapped
  <1>4. \A u, n : Binds(u, n)' <=> Binds(u, n)
    BY <1>1, <1>2 DEF Binds
  <1>5. fcmap' = fcmap => Arrayed'
    BY <1>1, <1>2, <1>3, <1>4 DEF Sound, Arrayed
  <1>6. Ages
    BY <1>1, <1>2, ArrayedIs DEF Ages, Rests
  <1> QED
    BY <1>1, <1>2, <1>4, <1>5, <1>6, SameKnown

LEMMA StartSound ==
  ASSUME Sound, NEW t \in Threads, Start(t)
  PROVE  Sound'
  <1> PICK c, m : Asks(c) /\ c.op \in RPCs /\ (c.op \in Creates => c.uid = NoUid) /\ Opens(t, c, m) /\ calls' = calls + 1
    BY StartOpens
  <1>1. Rests
    BY DEF Rests, Opens
  <1>2. Ages /\ Arrayed' /\ Known' = Known /\ \A u, n : Binds(u, n)' <=> Binds(u, n)
    BY <1>1, RestsAge DEF Opens
  <1>3. c.op \notin Creates => \E k \in Known : k.uid = c.uid /\ k.name = c.name
    BY DEF Asks, RPCs, Creates, Deletes
  <1>4. Binds(c.uid, c.name)
    BY <1>3, BindsNone DEF Sound
  <1>5. LocOK(m)'
    <2>1. Asks(c)'
      BY <1>2 DEF Asks
    <2>2. CallOK(c)'
      BY <2>1 DEF CallOK, Opens
    <2>3. Binds(c.uid, c.name)'
      BY <1>2, <1>4
    <2> QED
      BY <2>2, <2>3 DEF LocOK, Opens
  <1>6. loc' \in [Threads -> LocRecs] /\ (\A u \in Threads : LocOK(loc[u]))'
    BY <1>2, <1>5, LocsStay DEF Opens
  <1>7. ASSUME NEW a \in answers' PROVE AnswerOK(a)'
    BY <1>2, <1>7, AnswerStays DEF Sound, Opens
  <1>8. Counted'
    BY DEF Sound, Counted, Opens
  <1>9. deleting' \subseteq {k.uid : k \in Known'}
    BY <1>2, <1>3 DEF Sound, Opens, Deletes, Creates
  <1>10. \A k \in Known' : k \in KnownRecs /\ Binds(k.uid, k.name)'
    BY <1>2 DEF Sound
  <1> QED
    BY <1>2, <1>6, <1>7, <1>8, <1>9, <1>10 DEF Sound

LEMMA CrashSound ==
  ASSUME Sound, Crash
  PROVE  Sound'
  <1>1. Rests /\ fcmap' = fcmap /\ answers' = answers /\ deleting' = deleting
    BY DEF Rests, Crash, arrayVars
  <1>2. Ages /\ Arrayed' /\ Known' = Known /\ \A u, n : Binds(u, n)' <=> Binds(u, n)
    BY <1>1, RestsAge
  <1>3. LocOK(Idle)'
    BY <1>2, IdleOK, LocStays
  <1>4. loc' = [t \in Threads |-> Idle]
    BY DEF Crash
  <1>5. loc' \in [Threads -> LocRecs]
    BY <1>4, IdleIs
  <1>6. ASSUME NEW u \in Threads PROVE LocOK(loc[u])'
    <2> PICK l : l = Idle
      OBVIOUS
    <2>1. LocOK(l)' /\ loc'[u] = l
      BY <1>3, <1>4
    <2> QED
      BY <2>1
  <1>7. \A a \in answers' : AnswerOK(a)'
    BY <1>1, <1>2, AnswerStays DEF Sound
  <1>8. Counted'
    BY DEF Sound, Counted, Crash
  <1>9. \A k \in Known' : k \in KnownRecs /\ Binds(k.uid, k.name)'
    BY <1>2 DEF Sound
  <1> QED
    BY <1>1, <1>2, <1>5, <1>6, <1>7, <1>8, <1>9 DEF Sound

\* The array finishes a copy.
LEMMA CopyDoneIs ==
  ASSUME Sound, BackgroundCopy
  PROVE  \E j \in Names :
            /\ Mapped(j) /\ Mapped(j)' /\ fcmap[j].status = "copying" /\ ~fcmap[j].rate0
            /\ fcmap'[j].src = fcmap[j].src /\ fcmap'[j].status = "copied"
            /\ fcmap'[j].rate0 = fcmap[j].rate0
            /\ fcmap' \in [Names -> {NoMap} \cup Fcmaps]
            /\ \A n \in Names : n # j => fcmap'[n] = fcmap[n]
            /\ UNCHANGED <<vdisk, nextUid, loc, answers, deleting, calls, faults, crashes>>
  <1> PICK j \in Names : CopyDone(j)
    BY DEF BackgroundCopy
  <1>1. /\ Mapped(j) /\ fcmap[j].status = "copying" /\ ~fcmap[j].rate0
        /\ fcmap' = [fcmap EXCEPT ![j].status = "copied"] /\ UNCHANGED <<vdisk, nextUid>>
    BY DEF CopyDone
  <1>2. fcmap[j] \in Fcmaps
    BY <1>1, ArrayedIs
  <1>3. fcmap'[j] = [fcmap[j] EXCEPT !.status = "copied"] /\ \A n \in Names : n # j => fcmap'[n] = fcmap[n]
    BY <1>1, ArrayedIs
  <1>4. /\ fcmap'[j].src = fcmap[j].src /\ fcmap'[j].status = "copied"
        /\ fcmap'[j].rate0 = fcmap[j].rate0 /\ fcmap'[j] \in Fcmaps
    BY <1>2, <1>3 DEF Fcmaps, MapStatus
  <1>5. fcmap' \in [Names -> {NoMap} \cup Fcmaps]
    BY <1>1, <1>3, <1>4, ArrayedIs
  <1>6. Mapped(j)'
    BY <1>4, DiskRecs DEF Mapped
  <1> QED
    BY <1>1, <1>3, <1>4, <1>5, <1>6 DEF BackgroundCopy, Bounds

LEMMA BackgroundCopySound ==
  ASSUME Sound, BackgroundCopy
  PROVE  Sound'
  <1> PICK j \in Names :
            /\ Mapped(j) /\ Mapped(j)' /\ fcmap[j].status = "copying" /\ ~fcmap[j].rate0
            /\ fcmap'[j].src = fcmap[j].src /\ fcmap'[j].status = "copied"
            /\ fcmap'[j].rate0 = fcmap[j].rate0
            /\ fcmap' \in [Names -> {NoMap} \cup Fcmaps]
            /\ \A n \in Names : n # j => fcmap'[n] = fcmap[n]
            /\ UNCHANGED <<vdisk, nextUid, loc, answers, deleting, calls, faults, crashes>>
    BY CopyDoneIs
  <1>1. Rests
    BY DEF Rests
  <1>2. Ages /\ Known' = Known /\ (\A n : Exists(n)' <=> Exists(n)) /\ \A u, n : Binds(u, n)' <=> Binds(u, n)
    BY <1>1, RestsAge
  <1>3. (\A n \in Names : Mapped(n) => Exists(n) /\ Exists(fcmap[n].src))'
    <2>1. ASSUME NEW n \in Names, Mapped(n)'
          PROVE  Exists(n) /\ Exists(fcmap'[n].src) /\ fcmap'[n].src = fcmap[n].src
      BY <2>1, ArrayedIs DEF Mapped
    <2> QED
      BY <1>2, <2>1
  <1>4. Arrayed'
    BY <1>2, <1>3 DEF Sound, Arrayed
  <1>5. ASSUME NEW u \in Threads PROVE LocOK(loc[u])'
    <2> PICK l : l = loc[u]
      OBVIOUS
    <2>1. LocOK(l)' /\ loc'[u] = l
      BY <1>2, LocStays DEF Sound
    <2> QED
      BY <2>1
  <1>6. \A a \in answers' : AnswerOK(a)'
    BY <1>2, AnswerStays DEF Sound
  <1>7. Counted'
    BY DEF Sound, Counted
  <1>8. \A k \in Known' : k \in KnownRecs /\ Binds(k.uid, k.name)'
    BY <1>2 DEF Sound
  <1> QED
    BY <1>2, <1>4, <1>5, <1>6, <1>7, <1>8 DEF Sound

LEMMA InitKnown == Init => Known = {[uid |-> 1, name |-> Source, op |-> "CreateVolume"]}
  BY DEF Init, Known

LEMMA SoundInit == Init => Sound
  <1> SUFFICES ASSUME Init PROVE Sound
    OBVIOUS
  <1> PICK v : v = [uid |-> 1, size |-> BlockSize, copyOf |-> NoUid]
    OBVIOUS
  <1>1. v \in Disks /\ v # NoDisk /\ v.uid = 1
    <2>1. v \in Disks
      BY ArrayAssumption DEF Disks, NoUid
    <2> QED
      BY <2>1, DiskRecs
  <1>2. vdisk = [n \in Names |-> IF n = Source THEN v ELSE NoDisk]
    BY DEF Init
  <1>3. fcmap = [n \in Names |-> NoMap] /\ nextUid = 2 /\ loc = [t \in Threads |-> Idle] /\ answers = {} /\ deleting = {}
    BY DEF Init
  <1>4. \A n \in Names : (Exists(n) <=> n = Source) /\ (n = Source => vdisk[n].uid = 1)
    BY <1>1, <1>2 DEF Exists
  <1>5. Binds(1, Source)
    BY <1>3, <1>4 DEF Binds
  <1>6. ASSUME NEW n PROVE Binds(NoUid, n)
    <2>1. \A x \in Names : Exists(x) => vdisk[x].uid = 1
      BY <1>4
    <2>2. NoUid # 1 /\ NoUid < nextUid
      BY <1>3 DEF NoUid
    <2> QED
      BY <2>1, <2>2 DEF Binds
  <1>7. Arrayed
    <2>1. \A n \in Names : ~Mapped(n)
      BY <1>3 DEF Mapped
    <2>2. vdisk \in [Names -> {NoDisk} \cup Disks] /\ fcmap \in [Names -> {NoMap} \cup Fcmaps]
      BY <1>1, <1>2, <1>3
    <2>3. \A n \in Names : Exists(n) => Binds(vdisk[n].uid, n)
      BY <1>4, <1>5
    <2> QED
      BY <1>3, <2>1, <2>2, <2>3 DEF Arrayed
  <1>8. Counted
    BY DEF Init, Counted
  <1>9. LocOK(Idle)
    <2>1. InStep(Idle)
      BY IdleIs DEF InStep, Creates, Looking, Preparing, Unmapped, Filling, Removing, Expanding
    <2>2. CallOK(NoCall)
      BY IdleIs DEF CallOK, Asks, Creates, Deletes
    <2> QED
      BY <1>6, <2>1, <2>2, IdleIs DEF LocOK
  <1>10. \A k \in Known : k \in KnownRecs /\ Binds(k.uid, k.name)
    <2> SUFFICES ASSUME NEW k, k = [uid |-> 1, name |-> Source, op |-> "CreateVolume"]
                 PROVE  k \in KnownRecs /\ Binds(k.uid, k.name)
      BY InitKnown
    <2> QED
      BY <1>5, ProvisioningAssumption DEF KnownRecs, NoUid, Creates
  <1> QED
    BY <1>3, <1>7, <1>8, <1>9, <1>10, IdleIs DEF Sound

LEMMA SoundStutters == Sound /\ UNCHANGED vars => Sound'
  <1> SUFFICES ASSUME Sound, UNCHANGED vars PROVE Sound'
    OBVIOUS
  <1>1. UNCHANGED <<vdisk, fcmap, nextUid, loc, answers, deleting, calls, faults, crashes>>
    BY DEF vars, arrayVars
  <1>2. Rests
    BY <1>1 DEF Rests
  <1>3. Ages /\ Arrayed' /\ Known' = Known /\ \A u, n : Binds(u, n)' <=> Binds(u, n)
    BY <1>1, <1>2, RestsAge
  <1>4. ASSUME NEW u \in Threads PROVE LocOK(loc[u])'
    <2> PICK l : l = loc[u]
      OBVIOUS
    <2>1. LocOK(l)' /\ loc'[u] = l
      BY <1>1, <1>3, LocStays DEF Sound
    <2> QED
      BY <2>1
  <1>5. \A a \in answers' : AnswerOK(a)'
    BY <1>1, <1>3, AnswerStays DEF Sound
  <1>6. \A k \in Known' : k \in KnownRecs /\ Binds(k.uid, k.name)'
    BY <1>3 DEF Sound
  <1> QED
    BY <1>1, <1>3, <1>4, <1>5, <1>6 DEF Sound, Counted

LEMMA SoundNext == Sound /\ [Next]_vars => Sound'
  BY CommandAdvances, AdvanceSound, StartSound, CrashSound, BackgroundCopySound, SoundStutters DEF Next

\* At every step of a call the id it holds is that of the object it names, or of
\* none any more, whatever overlaps, fails or is restarted.
THEOREM SoundAlways == Spec => []Sound
  <1>1. Init => Sound
    BY SoundInit
  <1>2. Sound /\ [Next]_vars => Sound'
    BY SoundNext
  <1> QED
    BY <1>1, <1>2, PTL DEF Spec

-----------------------------------------------------------------------------
(***************************************************************************)
(* What holds whatever overlaps: types, deleted volumes, and that nothing  *)
(* is removed by mistake.                                                  *)
(***************************************************************************)

LEMMA SoundTypeOK == Sound => TypeOK
  <1> SUFFICES ASSUME Sound PROVE TypeOK
    OBVIOUS
  <1>1. ArrayTypeOK
    <2>1. \A m \in Names : Mapped(m) => Exists(m) /\ Exists(fcmap[m].src)
      BY ArrayedIs
    <2>2. Disks = [uid: Nat \ {NoUid}, size: Nat, copyOf: Nat] /\ Fcmaps = [src: Names, rate0: BOOLEAN, status: MapStatus]
      BY DEF Disks, Fcmaps
    <2>3. nextUid \in Nat \ {NoUid}
      BY ArrayedIs
    <2> QED
      BY <2>1, <2>2, <2>3, ArrayedIs DEF ArrayTypeOK
  <1>2. ASSUME NEW t \in Threads
        PROVE  loc[t].pc \in Steps /\ loc[t].tries \in 0..RollbackTries /\ loc[t].maps \subseteq Names
    <2>1. loc[t] \in LocRecs
      BY DEF Sound
    <2> QED
      BY <2>1 DEF LocRecs
  <1>3. ASSUME NEW a \in answers PROVE a.status \in Statuses
    <2>1. a \in AnswerRecs
      BY DEF Sound, AnswerOK
    <2> QED
      BY <2>1 DEF AnswerRecs
  <1>4. ASSUME NEW u \in deleting PROVE u \in 1..nextUid
    <2> PICK k \in Known : u = k.uid
      BY DEF Sound
    <2>1. k.uid \in Nat /\ k.uid # NoUid /\ k.uid < nextUid
      BY DEF Sound, KnownRecs, Binds
    <2> QED
      BY <2>1, ArrayedIs DEF NoUid
  <1> QED
    BY <1>1, <1>2, <1>3, <1>4 DEF TypeOK

LEMMA SoundVolumeGone == Sound => VolumeGone
  <1> SUFFICES ASSUME Sound, NEW a \in OkTo({"DeleteVolume"}) PROVE NamesOf(a.call.uid) = {}
    BY DEF VolumeGone
  <1>1. a \in answers /\ a.call.op = "DeleteVolume" /\ a.status = "OK"
    BY DEF OkTo
  <1> QED
    BY <1>1 DEF Sound, AnswerOK

\* A DeleteVolume that was answered OK has removed the volume for good, whatever
\* overlaps, fails or is restarted: rmvolume by the name removes the id the call
\* was about, and the array gives no id twice.
THEOREM DeletedVolumesAreGone == Spec => []VolumeGone
  <1>1. Sound => VolumeGone
    BY SoundVolumeGone
  <1> QED
    BY <1>1, SoundAlways, PTL

\* A snapshot's rollback that knows no id is that of a call whose mkvolume failed.
Blamed == \A t \in Threads :
    loc[t].pc \in {"unmap", "rmfcmap", "rmtarget"} /\ loc[t].uid = NoUid => faults > 0

LEMMA AdvanceBlamed ==
  ASSUME Sound, Blamed, NEW t \in Threads, Advance(t)
  PROVE  Blamed'
  <1> PICK l \in LocRecs, m \in LocRecs : l = loc[t] /\ Step(t, l, m)
    BY DEF Advance
  <1>1. /\ loc' = [loc EXCEPT ![t] = m] /\ faults \in Nat
        /\ faults' = faults \/ faults' = faults + 1
        /\ m # Idle => Goes(l, m)
    BY DEF Step, Sound, Counted
  <1>2. faults > 0 => faults' > 0
    BY <1>1
  <1>3. \A u \in Threads : loc'[u] = IF u = t THEN m ELSE loc[u]
    BY <1>1 DEF Sound
  <1>4. ASSUME m.pc \in {"unmap", "rmfcmap", "rmtarget"}, m.uid = NoUid PROVE faults' > 0
    <2>1. Goes(l, m) /\ InStep(l) /\ l.call.op = m.call.op
      BY <1>1, <1>4, IdleIs, LocIs DEF Goes
    <2>2. CASE faults' = faults
      <3>1. HasUid(m) /\ m.call.op = "CreateSnapshot"
        BY <1>4, <2>1 DEF Goes, InStep, HasUid, Made, Filling, Unmapped, Creates
      <3>2. HasUid(l) /\ l.uid = NoUid
        BY <1>4, <2>1, <2>2, <3>1, LocIs, ArrayedIs, DiskIs DEF Goes, Follows, Disks
      <3>3. l.pc \in {"unmap", "rmfcmap", "rmtarget"}
        BY <2>1, <3>1, <3>2 DEF InStep, HasUid, Made, Filling, Unmapped, Removing
      <3> QED
        BY <1>2, <3>2, <3>3 DEF Blamed
    <2> QED
      BY <1>1, <2>2
  <1> QED
    BY <1>2, <1>3, <1>4 DEF Blamed

LEMMA BlamedNext == Sound /\ Blamed /\ [Next]_vars => Blamed'
  <1> SUFFICES ASSUME Sound, Blamed, [Next]_vars PROVE Blamed'
    OBVIOUS
  <1>1. ASSUME NEW t \in Threads, Start(t) PROVE Blamed'
    <2> PICK c, m : Opens(t, c, m)
      BY <1>1, StartOpens
    <2>1. m.pc \notin {"unmap", "rmfcmap", "rmtarget"} /\ faults' = faults
      BY DEF Opens
    <2>2. \A u \in Threads : loc'[u] = IF u = t THEN m ELSE loc[u]
      BY DEF Opens, Sound
    <2> QED
      BY <2>1, <2>2 DEF Blamed
  <1>2. CASE Crash
    BY <1>2, IdleIs DEF Crash, Blamed
  <1>3. CASE BackgroundCopy
    BY <1>3 DEF BackgroundCopy, Bounds, Blamed
  <1>4. CASE UNCHANGED vars
    BY <1>4 DEF vars, Blamed
  <1> QED
    BY <1>1, <1>2, <1>3, <1>4, CommandAdvances, AdvanceBlamed DEF Next

\* The object of a command by name is the call's own, or its own is gone, or it
\* never made one.
LEMMA OnPurpose ==
  ASSUME Sound, Blamed, NEW t \in Threads, NEW l, l = loc[t],
         l.pc \in {"rmtarget", "rmvolume", "stop", "rmtargetmap"}, NEW n, n = l.name, Exists(n)
  PROVE  vdisk[n].uid \in deleting \/ RollsBack(t, n) \/ Overtaken(t, n) \/ Unmade(t, n)
  <1>1. LocOK(l) /\ InStep(l) /\ l.name = l.call.name /\ l.name \in Names /\ Binds(l.uid, n)
    BY LocIs DEF Sound
  <1>2. Undoing(t) \/ l.call.op \in Deletes
    BY <1>1 DEF InStep, Undoing, Removing, Creates, Deletes, LocOK, LocRecs, CallRecs, RPCs
  <1>3. CASE vdisk[n].uid = l.uid
    BY <1>1, <1>2, <1>3 DEF RollsBack, LocOK, CallOK, InStep, Creates, Deletes
  <1>4. CASE vdisk[n].uid # l.uid /\ l.uid # NoUid
    <2>1. NamesOf(l.uid) = {}
      BY <1>1, <1>4 DEF NamesOf, Binds
    <2> QED
      BY <1>1, <1>2, <1>4, <2>1 DEF Overtaken
  <1>5. CASE vdisk[n].uid # l.uid /\ l.uid = NoUid
    <2>1. l.call.op \notin Deletes
      <3>1. ASSUME l.call.op \in Deletes PROVE FALSE
        <4>1. PICK k \in Known : k.uid = l.call.uid
          BY <1>1, <3>1 DEF LocOK, CallOK, Asks
        <4>2. l.uid = l.call.uid
          BY <1>1, <3>1 DEF InStep, Creates, Deletes
        <4> QED
          BY <1>5, <4>1, <4>2 DEF Sound, KnownRecs
      <3> QED
        BY <3>1
    <2>2. l.pc = "rmtarget"
      BY <1>1, <1>2, <1>5, <2>1 DEF Undoing, InStep
    <2> QED
      BY <1>1, <1>5, <2>2 DEF Unmade, Blamed
  <1> QED
    BY <1>3, <1>4, <1>5

Deliberate ==
    \A n \in Names :
        Exists(n) /\ (\/ vdisk'[n].uid # vdisk[n].uid
                      \/ vdisk[n].copyOf # NoUid /\ vdisk'[n].copyOf = NoUid)
            => \/ vdisk[n].uid \in deleting
               \/ \E t \in Threads : RollsBack(t, n) \/ Overtaken(t, n) \/ Unmade(t, n)

LEMMA SameDisksDeliberate == vdisk' = vdisk => Deliberate
  BY DEF Deliberate

LEMMA AdvanceDeliberate ==
  ASSUME Sound, Blamed, NEW t \in Threads, Advance(t)
  PROVE  Deliberate
  <1> PICK l \in LocRecs, m \in LocRecs : l = loc[t] /\ Step(t, l, m)
    BY DEF Advance
  <1> SUFFICES ASSUME NEW n \in Names, Exists(n),
                      \/ vdisk'[n].uid # vdisk[n].uid
                      \/ vdisk[n].copyOf # NoUid /\ vdisk'[n].copyOf = NoUid
               PROVE  \/ vdisk[n].uid \in deleting
                      \/ \E u \in Threads : RollsBack(u, n) \/ Overtaken(u, n) \/ Unmade(u, n)
    BY DEF Deliberate
  <1>1. DiskStep(l, m, n)
    BY StepIs DEF Effects
  <1>2. l.pc \in {"rmtarget", "rmvolume", "stop", "rmtargetmap"} /\ n = l.name
    <2>1. CASE ~Exists(n)'
      BY <1>1, <2>1 DEF DiskStep
    <2>2. CASE Exists(n)'
      <3>1. vdisk'[n].uid = vdisk[n].uid /\ vdisk'[n].copyOf # vdisk[n].copyOf /\ vdisk'[n].copyOf = NoUid
        BY <1>1, <2>2 DEF DiskStep
      <3>2. Mapped(n) => vdisk[fcmap[n].src].uid # NoUid
        BY ArrayedIs, DiskIs
      <3> QED
        BY <1>1, <2>2, <3>1, <3>2 DEF DiskStep
    <2> QED
      BY <2>1, <2>2
  <1> QED
    BY <1>2, OnPurpose

\* Whatever overlaps, fails or is restarted, a volume disappears or loses the data it
\* was a copy of only by the deletion of its id, by the rollback of the call that read
\* it back as its own, or by its name: of a deletion or rollback whose own object
\* another call removed, or of the rollback of a CreateSnapshot whose mkvolume failed.
THEOREM NothingElseIsRemoved == Spec => RemovedOnPurpose
  <1>1. Sound /\ Blamed /\ [Next]_vars => [Deliberate]_vars
    <2> SUFFICES ASSUME Sound, Blamed, Next PROVE Deliberate
      OBVIOUS
    <2>1. ASSUME NEW t \in Threads, Start(t) PROVE Deliberate
      BY <2>1, StartOpens, SameDisksDeliberate DEF Opens
    <2>2. CASE Crash
      BY <2>2, SameDisksDeliberate DEF Crash, arrayVars
    <2>3. CASE BackgroundCopy
      BY <2>3, CopyDoneIs, SameDisksDeliberate
    <2> QED
      BY <2>1, <2>2, <2>3, CommandAdvances, AdvanceDeliberate DEF Next
  <1>2. Init => Blamed
    BY IdleIs DEF Init, Blamed
  <1>3. Sound /\ Blamed /\ [Next]_vars => Blamed'
    BY BlamedNext
  <1> QED
    BY <1>1, <1>2, <1>3, SoundAlways, PTL DEF Spec, RemovedOnPurpose, Deliberate

-----------------------------------------------------------------------------
(***************************************************************************)
(* Calls about one name one after the other, without failures: what is     *)
(* being made is the call's own, and what is known stays.                  *)
(***************************************************************************)

On(l, m) == Goes(l, m) /\ Follows(l, m) /\ Measures(l, m) /\ UNCHANGED answers

Off(l, m, status, u) ==
    /\ m = Idle /\ answers' = answers \cup {[call |-> l.call, status |-> status, uid |-> u]}
    /\ status = "OK" => EndsOk(l, u)
    /\ status # "OK" => EndsBadly(l)

LEMMA CalmStep ==
  ASSUME Calm, Sound, NEW t \in Threads, NEW l, l = loc[t], NEW m, Step(t, l, m)
  PROVE  /\ On(l, m) \/ \E status \in Statuses, u \in Nat : Off(l, m, status, u)
         /\ deleting' = deleting /\ crashes' = crashes /\ faults' = faults
  <1>1. faults' = faults
    BY DEF Step, Calm, Sound, Counted
  <1> QED
    BY <1>1 DEF Step, On, Off, Goes, Ends, Fails

LEMMA OnKnown ==
  ASSUME NEW l, NEW m, On(l, m)
  PROVE  Known' = Known /\ m.pc # "idle" /\ m.call = l.call /\ InStep(m) /\ m \in LocRecs /\ m.name = l.call.name
         /\ \A ops : OkTo(ops)' = OkTo(ops)
  BY SameKnown DEF On, Goes, InStep

\* What a call that ends makes known.
LEMMA OffKnown ==
  ASSUME NEW l \in LocRecs, NEW m, NEW status \in Statuses, NEW u \in Nat, Off(l, m, status, u), NEW k \in Known'
  PROVE  \/ k \in Known
         \/ /\ k.uid = u /\ k.name = l.call.name /\ k.op = l.call.op /\ l.call.op \in Creates
            /\ status = "OK" /\ EndsOk(l, u)
  <1> PICK a : a = [call |-> l.call, status |-> status, uid |-> u]
    OBVIOUS
  <1>1. a.call = l.call /\ a.status = status /\ a.uid = u /\ answers' = answers \cup {a}
    BY DEF Off
  <1>2. CASE k \notin Known
    <2>1. a.call.op \in Creates /\ a.status = "OK" /\ k = [uid |-> a.uid, name |-> a.call.name, op |-> a.call.op]
      BY <1>1, <1>2, NewKnown
    <2> QED
      BY <1>1, <2>1 DEF Off
  <1> QED
    BY <1>2

LEMMA KnownTypes ==
  ASSUME Sound, NEW k \in Known
  PROVE  k.uid \in Nat /\ k.uid # NoUid /\ k.name \in Names /\ k.uid < nextUid /\ Binds(k.uid, k.name)
  BY DEF Sound, KnownRecs, Binds

LEMMA LocsAre ==
  ASSUME Alone, NEW t \in Threads
  PROVE  LocAlone(loc[t]) /\ LocMaps(loc[t])
  BY DEF Alone

LEMMA KnownAt ==
  ASSUME Sound, Alone, NEW k \in Known, Exists(k.name)
  PROVE  vdisk[k.name].uid = k.uid
  <1>1. k.name \in Names
    BY KnownTypes
  <1>2. CASE \E j \in Known : j.uid = vdisk[k.name].uid /\ j.name = k.name
    BY <1>2 DEF Alone, OneUid
  <1>3. CASE \E t \in Threads : Made(loc[t]) /\ loc[t].call.name = k.name
    <2> PICK t \in Threads : Made(loc[t]) /\ loc[t].call.name = k.name
      BY <1>3
    <2>1. Fresh(k.name)
      BY LocsAre, LocIs DEF LocAlone
    <2> QED
      BY <2>1 DEF Fresh
  <1> QED
    BY <1>1, <1>2, <1>3 DEF Alone, Owned

\* A volume that nobody knows is no source.
LEMMA FreshFcIds ==
  ASSUME Sound, Alone, NEW n \in Names, Fresh(n)
  PROVE  /\ FcIds(n) \subseteq {n} /\ MapsFrom(n) = {} /\ FcId(n) \subseteq {n}
         /\ Mapped(n) <=> n \in FcIds(n)
         /\ Mapped(n) => FcId(n) = {n}
  <1>1. \A x \in Names : Mapped(x) => fcmap[x].src # n
    BY DEF Alone, FromKnown
  <1>2. FcIds(n) \subseteq {n} /\ MapsFrom(n) = {} /\ (Mapped(n) <=> n \in FcIds(n))
    BY <1>1 DEF FcIds, MapsFrom
  <1>3. FcId(n) \subseteq FcIds(n)
    BY DEF FcId
  <1>4. ASSUME Mapped(n) PROVE FcId(n) = {n}
    <2>1. FcIds(n) = {n}
      BY <1>2, <1>4
    <2> QED
      BY <2>1 DEF FcId
  <1> QED
    BY <1>2, <1>3, <1>4

\* The calls that touch a known name are deletions of it.
LEMMA OwnName ==
  ASSUME Sound, Alone, NEW t \in Threads, NEW l, l = loc[t], NEW k \in Known
  PROVE  /\ l.pc \in Preparing \/ Made(l) => l.name # k.name
         /\ l.pc \in Filling => Made(l)
         /\ l.pc = "startfcmap" => k.name \notin l.fc
         /\ l.pc \in {"stop", "rmtargetmap", "rmvolume"} /\ l.name = k.name =>
               l.call.op \in Deletes /\ k.uid = l.call.uid /\ l.uid = k.uid /\ k.uid \in deleting
  <1>1. InStep(l) /\ LocOK(l) /\ l.name = l.call.name /\ LocAlone(l) /\ LocMaps(l) /\ l.call.op \in RPCs \cup {"none"}
    BY LocIs, LocsAre DEF Sound
  <1>2. l.pc \in Preparing \/ Made(l) => l.name # k.name
    BY <1>1 DEF LocAlone, Fresh
  <1>3. l.pc \in Filling => Made(l)
    BY <1>1 DEF InStep, Made
  <1>4. l.pc = "startfcmap" => k.name \notin l.fc
    BY <1>1, <1>2, <1>3 DEF LocMaps, Filling
  <1>5. ASSUME l.pc \in {"stop", "rmtargetmap", "rmvolume"}, l.name = k.name
        PROVE  l.call.op \in Deletes /\ k.uid = l.call.uid /\ l.uid = k.uid /\ k.uid \in deleting
    <2>1. l.call.op \in Deletes /\ l.call.op \notin Creates
      BY <1>1, <1>2, <1>5 DEF InStep, Made, Removing, RPCs, Creates, Deletes
    <2>2. l.call.uid \in deleting /\ l.uid = l.call.uid /\ \E j \in Known : j.uid = l.call.uid /\ j.name = l.call.name
      BY <1>1, <2>1 DEF LocOK, CallOK, Asks, InStep
    <2> QED
      BY <1>1, <1>5, <2>1, <2>2 DEF Alone, OneUid
  <1> QED
    BY <1>2, <1>3, <1>4, <1>5

\* What is known and not being deleted is left alone.
LEMMA Undisturbed ==
  ASSUME Sound, Alone, NEW t \in Threads, NEW l, l = loc[t], NEW m, Effects(l, m), NEW k \in Known, k.uid \notin deleting
  PROVE  /\ Exists(k.name) /\ vdisk[k.name].uid = k.uid
         /\ Exists(k.name)' /\ vdisk'[k.name].uid = k.uid /\ vdisk'[k.name].copyOf = vdisk[k.name].copyOf
         /\ Mapped(k.name)' => Mapped(k.name) /\ fcmap'[k.name] = fcmap[k.name]
  <1> PICK n : n = k.name
    OBVIOUS
  <1>1. n \in Names /\ Exists(n) /\ vdisk[n].uid = k.uid
    BY KnownTypes DEF Alone, Stays
  <1>2. /\ l.pc \in {"rmtarget", "rmvolume", "stop", "rmtargetmap", "mkfcmap"} => n # l.name
        /\ l.pc = "startfcmap" => n \notin l.fc
    BY OwnName DEF Filling, Unmapped
  <1>3. DiskStep(l, m, n) /\ MapStep(l, m, n)
    BY <1>1 DEF Effects
  <1>4. Exists(n)' /\ vdisk'[n].uid = k.uid
    BY <1>1, <1>2, <1>3 DEF DiskStep
  <1>5. vdisk'[n].copyOf = vdisk[n].copyOf
    BY <1>1, <1>2, <1>3, <1>4 DEF DiskStep
  <1>6. Mapped(n)' => fcmap'[n] = fcmap[n]
    BY <1>2, <1>3 DEF MapStep
  <1> QED
    BY <1>1, <1>4, <1>5, <1>6 DEF Mapped

\* The source of a mapping that stays is the same volume.
LEMMA SrcStays ==
  ASSUME Sound, NEW l, NEW m, Effects(l, m), NEW s \in Names, Exists(s), NEW n \in Names, Mapped(n)', fcmap'[n].src = s
  PROVE  Exists(s)' /\ vdisk'[s].uid = vdisk[s].uid
  <1>1. Exists(s)'
    <2>1. (\A x \in Names : Mapped(x) => Exists(x) /\ Exists(fcmap[x].src))'
      BY DEF Effects, Arrayed
    <2> QED
      BY <2>1
  <1>2. DiskStep(l, m, s)
    BY DEF Effects
  <1> QED
    BY <1>1, <1>2 DEF DiskStep

\* What is answered as created is there.
LEMMA AnsweredIsThere ==
  ASSUME Sound, Alone, NEW t \in Threads, NEW l, l = loc[t], l.pc # "idle", l.call.op \in Creates, NEW m, Effects(l, m),
         NEW u \in Nat, EndsOk(l, u)
  PROVE  /\ Exists(l.name) /\ vdisk[l.name].uid = u /\ Exists(l.name)' /\ vdisk'[l.name].uid = u
         /\ Made(l) \/ l.pc \in {"origin", "sverify"}
         /\ l.pc = "startfcmap" => Mapped(l.name) /\ StartFcmap(l.name) /\ l.fc \subseteq {l.name}
  <1>1. InStep(l) /\ LocAlone(l) /\ LocMaps(l) /\ l.name \in Names
    BY LocIs, LocsAre
  <1>2. /\ l.pc \in {"created", "startfcmap", "origin", "sverify"}
        /\ Made(l) \/ l.pc \in {"origin", "sverify"}
    BY DEF EndsOk, Made, Filling, Unmapped
  <1>3. l.pc = "startfcmap" => Mapped(l.name) /\ StartFcmap(l.name) /\ l.fc \subseteq {l.name}
    BY <1>1, <1>2 DEF EndsOk, LocMaps
  <1>4. Exists(l.name) /\ vdisk[l.name].uid = u
    <2>1. CASE l.pc = "created"
      BY <2>1 DEF EndsOk
    <2>2. CASE l.pc = "startfcmap"
      <3>1. HasUid(l) /\ u = l.uid
        BY <1>2, <2>2 DEF HasUid, EndsOk
      <3> QED
        BY <1>1, <1>3, <2>2, <3>1, ArrayedIs DEF LocAlone
    <2>3. CASE l.pc \in {"origin", "sverify"}
      BY <1>1, <2>3 DEF LocAlone, EndsOk
    <2> QED
      BY <1>2, <2>1, <2>2, <2>3
  <1>5. DiskStep(l, m, l.name)
    BY <1>1 DEF Effects
  <1> QED
    BY <1>2, <1>3, <1>4, <1>5 DEF DiskStep

-----------------------------------------------------------------------------
\* Another thread's call.
LEMMA OtherAlone ==
  ASSUME Sound, Alone, NEW t \in Threads, NEW l, l = loc[t], l.pc # "idle", NEW m, Effects(l, m), deleting' = deleting,
         NEW o \in Threads, o # t, NEW r, r = loc[o], Known \subseteq Known',
         \A k \in Known' : k \in Known \/ k.name = l.call.name
  PROVE  LocAlone(r)' /\ LocMaps(r)'
  <1>1. LocAlone(r) /\ LocMaps(r) /\ r.name \in Names /\ r.call.name = r.name /\ l.call.name = l.name /\ InStep(r)
    BY LocIs, LocsAre
  <1>2. CASE r.pc = "idle"
    BY <1>2
    DEF LocAlone, LocMaps, Made, HasUid, HasSrc, Looking, Preparing, Filling, Unmapped, Removing
  <1>3. CASE r.pc # "idle"
    <2>1. r.name # l.name
      BY <1>1, <1>3 DEF Alone, Apart
    <2>2. DiskStep(l, m, r.name) /\ MapStep(l, m, r.name)
      BY <1>1 DEF Effects
    <2>3. /\ Exists(r.name)' <=> Exists(r.name)
          /\ Exists(r.name) => vdisk'[r.name].uid = vdisk[r.name].uid
      BY <2>1, <2>2 DEF DiskStep
    <2>4. LocAlone(r)'
      <3>1. Fresh(r.name) => Fresh(r.name)'
        BY <1>1, <2>1 DEF Fresh
      <3>2. (\A k \in Known : k.name = r.name => k.uid \notin deleting) =>
            \A k \in Known' : k.name = r.name => k.uid \notin deleting'
        BY <1>1, <2>1
      <3> QED
        BY <1>1, <2>3, <3>1, <3>2 DEF LocAlone
    <2>5. Mapped(r.name)' => Mapped(r.name) /\ fcmap'[r.name] = fcmap[r.name]
      <3>1. l.pc = "startfcmap" => l.fc \subseteq {l.name}
        <4>1. LocMaps(l) /\ InStep(l)
          BY LocIs, LocsAre
        <4> QED
          BY <4>1 DEF LocMaps, Made, InStep, Filling
      <3> QED
        BY <2>1, <2>2, <3>1 DEF MapStep, Mapped
    <2>6. LocMaps(r)'
      <3>1. ASSUME Mapped(r.name)'
            PROVE  vdisk'[fcmap'[r.name].src].uid = vdisk[fcmap[r.name].src].uid
        <4> PICK s : s = fcmap[r.name].src
          OBVIOUS
        <4>1. Mapped(r.name) /\ s \in Names /\ Exists(s) /\ fcmap'[r.name].src = s
          BY <1>1, <2>5, <3>1, ArrayedIs
        <4> QED
          BY <1>1, <3>1, <4>1, SrcStays
      <3> QED
        BY <1>1, <2>5, <3>1 DEF LocMaps
    <2> QED
      BY <2>4, <2>6
  <1> QED
    BY <1>2, <1>3

\* The thread's own call.
LEMMA MineAlone ==
  ASSUME Sound, Alone, NEW t \in Threads, NEW l, l = loc[t], l.pc # "idle", NEW m, Effects(l, m), deleting' = deleting, On(l, m)
  PROVE  LocAlone(m)'
  <1>1. /\ LocAlone(l) /\ l.name \in Names /\ l.call.name = l.name /\ InStep(l) /\ LocOK(l)
        /\ m.name = l.name /\ InStep(m) /\ m.call = l.call /\ Known' = Known /\ m.pc # "idle"
    BY LocIs, LocsAre, OnKnown DEF Sound
  <1>2. DiskStep(l, m, l.name)
    BY <1>1 DEF Effects
  <1>3. m.pc \in Looking => \A k \in Known' : k.name = m.name => k.uid \notin deleting'
    BY <1>1 DEF LocAlone, On, Follows, Looking
  <1>4. m.pc \in Preparing \/ Made(m) => Fresh(m.name)'
    <2>1. Fresh(l.name) => Fresh(m.name)'
      BY <1>1 DEF Fresh
    <2>2. ASSUME l.pc \in {"lookup", "slook"}, ~Exists(l.name) PROVE Fresh(l.name)
      BY <1>1, <2>2 DEF LocAlone, Looking, Alone, Stays, Fresh
    <2>3. m.pc \in Preparing => Fresh(l.name)
      BY <1>1, <2>2 DEF LocAlone, On, Follows, Preparing
    <2>4. Made(m) => Fresh(l.name)
      BY <1>1 DEF LocAlone, On, Follows, Effects, Preparing
    <2> QED
      BY <2>1, <2>3, <2>4
  <1>5. m.pc \in {"origin", "sverify"} => Exists(m.name)' /\ vdisk'[m.name].uid = m.uid
    <2> SUFFICES ASSUME m.pc \in {"origin", "sverify"} PROVE Exists(m.name)' /\ vdisk'[m.name].uid = m.uid
      OBVIOUS
    <2>1. Exists(l.name) /\ m.uid = vdisk[l.name].uid
      BY DEF On, Goes, Learns
    <2>2. l.pc \in {"lookup", "slook"}
      BY DEF On, Follows, Looking
    <2> QED
      BY <1>1, <1>2, <2>1, <2>2 DEF DiskStep
  <1>6. HasUid(m) /\ Exists(m.name)' => vdisk'[m.name].uid = m.uid
    <2> SUFFICES ASSUME HasUid(m), Exists(m.name)' PROVE vdisk'[m.name].uid = m.uid
      OBVIOUS
    <2>1. m.pc # "created"
      BY DEF HasUid
    <2>2. Exists(l.name) /\ vdisk'[l.name].uid = vdisk[l.name].uid
      BY <1>1, <1>2, <2>1 DEF DiskStep
    <2>3. CASE HasUid(l) /\ m.uid = l.uid
      BY <1>1, <2>2, <2>3 DEF LocAlone
    <2>4. CASE m.uid = vdisk[l.name].uid
      BY <1>1, <2>2, <2>4
    <2> QED
      BY <2>3, <2>4 DEF On, Follows
  <1>7. HasSrc(m) => \E k \in Known' : k.uid = m.call.source /\ k.name = m.src
    <2> SUFFICES ASSUME HasSrc(m) PROVE \E k \in Known : k.uid = l.call.source /\ k.name = m.src
      BY <1>1
    <2>1. CASE HasSrc(l) /\ m.src = l.src
      BY <1>1, <2>1 DEF LocAlone
    <2>2. CASE m.src \in NamesOf(l.call.source)
      <3>1. m.src \in Names /\ Exists(m.src) /\ vdisk[m.src].uid = l.call.source
        BY <2>2 DEF NamesOf
      <3>2. l.call.source # NoUid
        BY <3>1, DiskIs
      <3>3. l.call.op \in Creates
        BY <1>1 DEF HasSrc, InStep, Filling, Unmapped, Creates
      <3> PICK k \in Known : k.uid = l.call.source
        BY <1>1, <3>2, <3>3 DEF LocOK, CallOK, Asks
      <3> QED
        BY <3>1, KnownTypes DEF Binds
    <2> QED
      BY <2>1, <2>2 DEF On, Goes, Learns
  <1> QED
    BY <1>3, <1>4, <1>5, <1>6, <1>7 DEF LocAlone

LEMMA MineMaps ==
  ASSUME Sound, Alone, NEW t \in Threads, NEW l, l = loc[t], l.pc # "idle", NEW m, Effects(l, m), On(l, m)
  PROVE  LocMaps(m)'
  <1>1. /\ LocAlone(l) /\ LocMaps(l) /\ l.name \in Names /\ l.call.name = l.name /\ InStep(l) /\ LocOK(l) /\ l \in LocRecs
        /\ m.name = l.name /\ InStep(m) /\ m.call = l.call /\ m.pc # "idle" /\ Follows(l, m)
    BY LocIs, LocsAre, OnKnown DEF Sound, On
  <1> PICK n : n = l.name
    OBVIOUS
  <1>2. MapStep(l, m, n)
    BY <1>1 DEF Effects
  <1> SUFFICES ASSUME Made(m) PROVE LocMaps(m)'
    BY DEF LocMaps
  <1>3. m # Idle
    BY <1>1, IdleIs
  <1>4. CASE m.pc = "created"
    <2>1. l.pc = "mkvolume" /\ ~Exists(n)
      BY <1>4 DEF Effects
    <2>2. ~Mapped(n)
      BY <1>1, <2>1, ArrayedIs
    <2>3. ~Mapped(n)'
      BY <1>2, <2>1, <2>2 DEF MapStep, Mapped
    <2> QED
      BY <1>1, <1>4, <2>3 DEF LocMaps
  <1>5. CASE m.pc # "created"
    <2>1. Made(l) /\ Fresh(n)
      BY <1>1, <1>5 DEF Follows, LocAlone
    <2>2. FcIds(n) \subseteq {n} /\ MapsFrom(n) = {} /\ FcId(n) \subseteq {n} /\ (Mapped(n) => FcId(n) = {n} /\ n \in FcIds(n))
      BY <1>1, <2>1, FreshFcIds
    <2>3. ASSUME ~Mapped(n), m.pc # "fcid" PROVE ~Mapped(n)'
      BY <1>2, <2>3 DEF MapStep, Mapped
    <2>4. ASSUME Mapped(n)'
          PROVE  /\ fcmap'[n].status = "idle" /\ fcmap'[n].rate0 = (m.call.op = "CreateSnapshot")
                 /\ vdisk'[fcmap'[n].src].uid = m.call.source
      <3>1. CASE fcmap'[n] = fcmap[n]
        <4> PICK s : s = fcmap[n].src
          OBVIOUS
        <4>1. Mapped(n) /\ s \in Names /\ Exists(s) /\ fcmap'[n].src = s
          BY <1>1, <2>4, <3>1, ArrayedIs DEF Mapped
        <4>2. vdisk'[s].uid = vdisk[s].uid
          BY <1>1, <2>4, <4>1, SrcStays
        <4> QED
          BY <1>1, <2>1, <3>1, <4>1, <4>2 DEF LocMaps
      <3>2. CASE /\ l.pc = "mkfcmap" /\ Exists(l.src)
                 /\ fcmap'[n] = [src |-> l.src, rate0 |-> l.call.op = "CreateSnapshot", status |-> "idle"]
        <4>1. fcmap'[n].src = l.src /\ fcmap'[n].rate0 = (l.call.op = "CreateSnapshot") /\ fcmap'[n].status = "idle"
          BY <3>2
        <4>2. l.src \in Names
          BY <1>1 DEF LocRecs
        <4>3. HasSrc(l)
          BY <3>2 DEF HasSrc
        <4> PICK k \in Known : k.uid = l.call.source /\ k.name = l.src
          BY <1>1, <4>3 DEF LocAlone
        <4>4. vdisk[l.src].uid = l.call.source
          BY <3>2, KnownAt
        <4>5. vdisk'[l.src].uid = vdisk[l.src].uid
          BY <1>1, <2>4, <3>2, <4>1, <4>2, SrcStays
        <4> QED
          BY <1>1, <4>1, <4>4, <4>5
      <3>3. ~(l.pc = "stop" /\ Mapped(n) /\ fcmap[n].status = "copying")
        BY <1>1, <2>1 DEF LocMaps
      <3> QED
        BY <1>2, <1>3, <2>4, <3>1, <3>2, <3>3 DEF MapStep
    <2>5. m.pc \in Unmapped => ~Mapped(n)'
      <3>1. m.pc \in Unmapped => ~Mapped(n) /\ m.pc # "fcid"
        BY <1>1, <1>5, <2>1 DEF LocMaps, Follows, Unmapped
      <3> QED
        BY <2>3, <3>1
    <2>6. m.pc = "rmtarget" => ~Mapped(n)'
      <3> SUFFICES ASSUME m.pc = "rmtarget" PROVE ~Mapped(n)'
        OBVIOUS
      <3>1. CASE l.pc = "unmap" /\ (~Exists(l.name) \/ FcIds(l.name) = {})
        <4>1. ~Mapped(n)
          BY <1>1, <2>2, <3>1, ArrayedIs
        <4> QED
          BY <2>3, <4>1
      <3>2. CASE l.pc = "rmfcmap"
        <4>1. Mapped(n)' => Mapped(n)
          BY <2>3
        <4>2. Mapped(n) => n \in l.fc /\ fcmap[n].status = "idle"
          BY <1>1, <2>1, <3>2 DEF LocMaps
        <4>3. n \in l.fc /\ Mapped(n)' => fcmap[n].status = "copying"
          BY <1>1, <3>2 DEF Follows
        <4> QED
          BY <4>1, <4>2, <4>3
      <3> QED
        BY <1>1, <3>1, <3>2 DEF Follows
    <2>7. m.pc = "rmvolume" => ~Mapped(n)'
      <3> SUFFICES ASSUME m.pc = "rmvolume" PROVE ~Mapped(n)'
        OBVIOUS
      <3>1. CASE l.pc = "rmtargetmap"
        BY <1>1, <3>1 DEF Follows
      <3>2. CASE l.pc \in {"sources", "rmmaps"} /\ l.target = "no"
        BY <1>1, <2>1, <2>3, <3>2 DEF LocMaps
      <3> QED
        BY <1>1, <3>1, <3>2 DEF Follows
    <2>8. m.pc = "sources" /\ m.target = "no" => ~Mapped(n)'
      BY <1>1, <2>3 DEF Follows
    <2>9. m.pc # "rmmaps"
      BY <1>1, <2>1, <2>2 DEF Follows, LocMaps, Made, Creates
    <2>10. m.pc \in {"startfcmap", "rmfcmap"} => m.fc \subseteq {n}
      BY <1>1, <2>2 DEF Follows
    <2>11. m.pc = "rmfcmap" /\ Mapped(n)' => n \in m.fc
      BY <1>1, <2>2, <2>3 DEF Follows
    <2> QED
      BY <1>1, <2>4, <2>5, <2>6, <2>7, <2>8, <2>9, <2>10, <2>11 DEF LocMaps
  <1> QED
    BY <1>4, <1>5

\* What one step of a thread makes known.
LEMMA NewlyKnown ==
  ASSUME Calm, Sound, Alone, NEW t \in Threads, NEW l, l = loc[t], NEW m, Step(t, l, m), NEW k \in Known', k \notin Known
  PROVE  /\ l.call.op \in Creates /\ k.op = l.call.op /\ k.name = l.call.name /\ l.pc # "idle"
         /\ Exists(l.name) /\ vdisk[l.name].uid = k.uid /\ Exists(l.name)' /\ vdisk'[l.name].uid = k.uid
         /\ k.uid \in Nat /\ EndsOk(l, k.uid)
         /\ (Made(l) /\ Fresh(l.name)) \/ l.pc \in {"origin", "sverify"}
         /\ l.pc = "startfcmap" => Mapped(l.name) /\ StartFcmap(l.name) /\ l.fc \subseteq {l.name}
         /\ \A j \in Known : j.name = k.name => j.uid = k.uid /\ j.uid \notin deleting
  <1>1. l \in LocRecs /\ l.pc # "idle" /\ Effects(l, m) /\ LocAlone(l) /\ l.call.name = l.name
    BY StepIs, LocIs, LocsAre
  <1>2. ~On(l, m)
    BY OnKnown
  <1> PICK status \in Statuses, u \in Nat : Off(l, m, status, u)
    BY <1>2, CalmStep
  <1>3. k.uid = u /\ k.name = l.call.name /\ k.op = l.call.op /\ l.call.op \in Creates /\ EndsOk(l, u)
    BY <1>1, OffKnown
  <1>4. /\ Exists(l.name) /\ vdisk[l.name].uid = u /\ Exists(l.name)' /\ vdisk'[l.name].uid = u
        /\ Made(l) \/ l.pc \in {"origin", "sverify"}
        /\ l.pc = "startfcmap" => Mapped(l.name) /\ StartFcmap(l.name) /\ l.fc \subseteq {l.name}
    BY <1>1, <1>3, AnsweredIsThere
  <1>5. Made(l) => Fresh(l.name)
    BY <1>1 DEF LocAlone
  <1>6. ASSUME NEW j \in Known, j.name = k.name PROVE j.uid = k.uid /\ j.uid \notin deleting
    <2>1. l.pc \in {"origin", "sverify"}
      BY <1>1, <1>3, <1>4, <1>5, <1>6 DEF Fresh
    <2>2. j.uid \notin deleting
      BY <1>1, <1>3, <1>6, <2>1 DEF LocAlone, Looking
    <2> QED
      BY <1>1, <1>3, <1>4, <1>6, <2>2 DEF Alone, Stays
  <1> QED
    BY <1>1, <1>3, <1>4, <1>5, <1>6

\* A call that has made its object does not end badly as long as the object is there.
LEMMA MadeEnds ==
  ASSUME Sound, Alone, NEW t \in Threads, NEW l, l = loc[t], Made(l), Exists(l.name), EndsBadly(l)
  PROVE  ~Exists(l.name)'
  <1>1. l.name \in Names /\ LocAlone(l) /\ LocMaps(l)
    BY LocIs, LocsAre
  <1>2. FcIds(l.name) \subseteq {l.name} /\ MapsFrom(l.name) = {} /\ (Mapped(l.name) <=> l.name \in FcIds(l.name))
    BY <1>1, FreshFcIds DEF LocAlone
  <1>3. ~(l.pc = "find" /\ NamesOf(l.uid) = {})
    <2>1. l.pc = "find" => l.name \in NamesOf(l.uid)
      BY <1>1 DEF LocAlone, HasUid, NamesOf
    <2> QED
      BY <2>1
  <1>4. ~(l.pc \in {"rmvolume", "rmtarget"} /\ FcIds(l.name) # {})
    BY <1>1, <1>2 DEF LocMaps
  <1> QED
    BY <1>2, <1>3, <1>4 DEF EndsBadly

LEMMA IdleAlone == LocAlone(Idle) /\ LocMaps(Idle) /\ ~Made(Idle)
  BY IdleIs DEF LocAlone, LocMaps, Made, HasUid, HasSrc, Looking, Preparing, Filling, Unmapped, Removing

LEMMA IdleAlonePrime == LocAlone(Idle)' /\ LocMaps(Idle)'
  BY IdleIs DEF LocAlone, LocMaps, Made, HasUid, HasSrc, Looking, Preparing, Filling, Unmapped, Removing

LEMMA AdvanceAlone ==
  ASSUME Calm, Sound, Alone, NEW t \in Threads, Advance(t)
  PROVE  Alone'
  <1> PICK l, m \in LocRecs : l = loc[t] /\ Step(t, l, m)
    BY DEF Advance
  <1>1. /\ l.pc # "idle" /\ Effects(l, m) /\ loc'[t] = m /\ (\A u \in Threads : u # t => loc'[u] = loc[u])
        /\ Known \subseteq Known' /\ deleting' = deleting
    BY StepIs, CalmStep
  <1>2. /\ LocAlone(l) /\ LocMaps(l) /\ InStep(l) /\ l.name \in Names /\ l.call.name = l.name
    BY LocIs, LocsAre
  <1>3. On(l, m) \/ \E status \in Statuses, u \in Nat : Off(l, m, status, u)
    BY CalmStep
  <1>4. m.pc = "idle" \/ m.call = l.call
    BY <1>3, IdleIs, OnKnown DEF Off
  <1>5. \A n \in Names : DiskStep(l, m, n) /\ MapStep(l, m, n)
    BY <1>1 DEF Effects
  <1>6. Apart'
    <2>1. \A x, y \in Threads : x # y /\ loc[x].pc # "idle" /\ loc[y].pc # "idle" => loc[x].call.name # loc[y].call.name
      BY DEF Alone, Apart
    <2> SUFFICES ASSUME NEW x \in Threads, NEW y \in Threads, x # y, loc'[x].pc # "idle", loc'[y].pc # "idle"
                 PROVE  loc'[x].call.name # loc'[y].call.name
      BY DEF Apart
    <2>2. \A z \in Threads : loc'[z].pc # "idle" => loc[z].pc # "idle" /\ loc'[z].call = loc[z].call
      BY <1>1, <1>4
    <2> QED
      BY <2>1, <2>2
  <1>7. Stays'
    <2> SUFFICES ASSUME NEW k \in Known', k.uid \notin deleting' PROVE Exists(k.name)' /\ vdisk'[k.name].uid = k.uid
      BY DEF Stays
    <2>1. CASE k \in Known
      BY <1>1, <2>1, Undisturbed
    <2>2. CASE k \notin Known
      BY <1>2, <2>2, NewlyKnown
    <2> QED
      BY <2>1, <2>2
  <1>8. OneUid'
    <2>1. ASSUME NEW k \in Known', k \notin Known
          PROVE  k.name = l.call.name /\ k.uid = vdisk[l.name].uid /\ \A j \in Known : j.name = k.name => j.uid = k.uid
      <3>1. k.name = l.call.name /\ vdisk[l.name].uid = k.uid
        BY <2>1, NewlyKnown
      <3>2. \A j \in Known : j.name = k.name => j.uid = k.uid /\ j.uid \notin deleting
        BY <2>1, NewlyKnown
      <3> QED
        BY <3>1, <3>2
    <2>2. \A j, k \in Known : j.name = k.name => j.uid = k.uid
      BY DEF Alone, OneUid
    <2> SUFFICES ASSUME NEW j \in Known', NEW k \in Known', j.name = k.name PROVE j.uid = k.uid
      BY DEF OneUid
    <2> QED
      BY <2>1, <2>2
  <1>9. Owned'
    <2> SUFFICES ASSUME NEW n \in Names, Exists(n)'
                 PROVE  \/ \E k \in Known' : k.uid = vdisk'[n].uid /\ k.name = n
                        \/ \E o \in Threads : Made(loc'[o]) /\ loc'[o].call.name = n
      BY DEF Owned, Made
    <2>1. CASE ~Exists(n)
      <3>1. m.pc = "created" /\ n = l.name
        BY <1>5, <2>1 DEF DiskStep
      <3>2. m # Idle /\ m.call = l.call
        BY <1>4, <3>1, IdleIs
      <3>3. InStep(m)
        BY <1>3, <3>2, OnKnown DEF Off
      <3>4. Made(m)
        BY <3>1, <3>3 DEF Made, InStep, Filling, Unmapped
      <3> QED
        BY <1>1, <1>2, <3>1, <3>2, <3>4
    <2>2. CASE Exists(n)
      <3>1. vdisk'[n].uid = vdisk[n].uid
        BY <1>5, <2>2 DEF DiskStep
      <3>2. CASE \E k \in Known : k.uid = vdisk[n].uid /\ k.name = n
        BY <1>1, <3>1, <3>2
      <3>3. CASE \E o \in Threads : Made(loc[o]) /\ loc[o].call.name = n
        <4> PICK o \in Threads : Made(loc[o]) /\ loc[o].call.name = n
          BY <3>3
        <4>1. CASE o # t
          BY <1>1, <4>1
        <4>2. CASE o = t
          <5>1. Made(l) /\ n = l.name /\ l.call.op \in Creates
            BY <1>2, <4>2 DEF Made
          <5>2. CASE On(l, m)
            <6>1. Made(m) /\ m.call = l.call
              BY <5>1, <5>2, OnKnown DEF On, Follows
            <6> QED
              BY <1>1, <4>2, <6>1
          <5>3. ASSUME NEW status \in Statuses, NEW u \in Nat, Off(l, m, status, u)
                PROVE  \E k \in Known' : k.uid = vdisk'[n].uid /\ k.name = n
            <6>1. status = "OK"
              BY <2>2, <5>1, <5>3, MadeEnds DEF Off
            <6>2. vdisk'[n].uid = u
              BY <1>1, <5>1, <5>3, <6>1, AnsweredIsThere DEF Off
            <6> PICK a : a = [call |-> l.call, status |-> status, uid |-> u]
              OBVIOUS
            <6> PICK k : k = [uid |-> a.uid, name |-> a.call.name, op |-> a.call.op]
              OBVIOUS
            <6>3. a \in answers' /\ a.call.op \in Creates /\ a.status = "OK"
              BY <5>1, <5>3, <6>1 DEF Off
            <6>4. k \in Known'
              BY <6>3 DEF Known
            <6> QED
              BY <1>2, <5>1, <6>2, <6>4
          <5> QED
            BY <1>3, <5>2, <5>3
        <4> QED
          BY <4>1, <4>2
      <3> QED
        BY <2>2, <3>2, <3>3 DEF Alone, Owned
    <2> QED
      BY <2>1, <2>2
  <1>10. FromKnown'
    <2>1. \A s : ~Fresh(s) => ~Fresh(s)'
      BY <1>1 DEF Fresh
    <2> SUFFICES ASSUME NEW x \in Names, Mapped(x)' PROVE ~Fresh(fcmap'[x].src)
      BY <2>1 DEF FromKnown, Fresh
    <2>2. MapStep(l, m, x)
      BY <1>5
    <2>3. Mapped(x) => fcmap[x] \in Fcmaps /\ ~Fresh(fcmap[x].src)
      BY ArrayedIs DEF Alone, FromKnown
    <2>4. CASE l.pc = "mkfcmap" /\ fcmap'[x] = [src |-> l.src, rate0 |-> l.call.op = "CreateSnapshot", status |-> "idle"]
      <3>1. \E k \in Known : k.name = l.src
        BY <1>2, <2>4 DEF LocAlone, HasSrc
      <3> QED
        BY <2>4, <3>1 DEF Fresh
    <2>5. CASE fcmap'[x] = fcmap[x]
      BY <2>3, <2>5 DEF Mapped
    <2>6. ASSUME Mapped(x), NEW s, fcmap'[x] = [fcmap[x] EXCEPT !.status = s] PROVE ~Fresh(fcmap'[x].src)
      BY <2>3, <2>6 DEF Fcmaps
    <2> QED
      BY <2>2, <2>4, <2>5, <2>6 DEF MapStep
  <1>11. ASSUME NEW o \in Threads PROVE (LocAlone(loc[o]) /\ LocMaps(loc[o]))'
    <2>1. CASE o # t
      <3> PICK r : r = loc[o]
        OBVIOUS
      <3>1. ASSUME NEW k \in Known', k \notin Known PROVE k.name = l.call.name
        BY <3>1, NewlyKnown
      <3>2. LocAlone(r)' /\ LocMaps(r)'
        BY <1>1, <2>1, <3>1, OtherAlone
      <3>3. loc'[o] = r
        BY <1>1, <2>1
      <3> QED
        BY <3>2, <3>3
    <2>2. CASE o = t
      <3>1. CASE On(l, m)
        <4>1. LocAlone(m)' /\ LocMaps(m)'
          BY <1>1, <3>1, MineAlone, MineMaps
        <4> QED
          BY <1>1, <2>2, <4>1
      <3>2. CASE m = Idle
        <4>1. LocAlone(m)' /\ LocMaps(m)'
          BY <3>2, IdleAlonePrime
        <4> QED
          BY <1>1, <2>2, <4>1
      <3> QED
        BY <1>3, <3>1, <3>2 DEF Off
    <2> QED
      BY <2>1, <2>2
  <1> QED
    BY <1>6, <1>7, <1>8, <1>9, <1>10, <1>11 DEF Alone

\* A new call is about a name no other call is about.
LEMMA StartAlone ==
  ASSUME Calm, Sound, Alone, NEW t \in Threads, Start(t)
  PROVE  Alone'
  <1> PICK c, m : Asks(c) /\ c.op \in RPCs /\ Opens(t, c, m)
    BY StartOpens
  <1>1. /\ loc[t] = Idle /\ m \in LocRecs /\ InStep(m) /\ m.call = c /\ m.name = c.name /\ ~Made(m)
        /\ m.pc \in {"lookup", "slook", "find", "xlook"}
        /\ deleting \subseteq deleting' /\ vdisk' = vdisk /\ fcmap' = fcmap /\ answers' = answers /\ nextUid' = nextUid
    BY DEF Opens
  <1>2. /\ \A o \in Threads : loc[o].pc # "idle" => loc[o].call.name # c.name
        /\ c.op \in Creates => \A k \in Known : k.name = c.name => k.uid \notin deleting
    BY IdleIs DEF Opens, Calm
  <1>3. loc'[t] = m /\ (\A u \in Threads : u # t => loc'[u] = loc[u]) /\ Known' = Known
    BY <1>1, SameKnown DEF Opens, Sound
  <1>4. (\A n : Exists(n)' <=> Exists(n)) /\ (\A n : Mapped(n)' <=> Mapped(n)) /\ (\A n : Fresh(n)' <=> Fresh(n))
    BY <1>1, <1>3 DEF Exists, Mapped, Fresh
  <1>5. Apart'
    BY <1>1, <1>2, <1>3 DEF Alone, Apart
  <1>6. Stays' /\ OneUid'
    BY <1>1, <1>3, <1>4 DEF Alone, Stays, OneUid
  <1>7. Owned'
    <2> SUFFICES ASSUME NEW n \in Names, Exists(n)
                 PROVE  \/ \E k \in Known' : k.uid = vdisk[n].uid /\ k.name = n
                        \/ \E o \in Threads : Made(loc'[o]) /\ loc'[o].call.name = n
      BY <1>1, <1>4 DEF Owned, Made
    <2>1. ~Made(loc[t])
      BY <1>1, IdleAlone
    <2> QED
      BY <1>3, <2>1 DEF Alone, Owned
  <1>8. FromKnown'
    BY <1>1, <1>4 DEF Alone, FromKnown
  <1>9. ASSUME NEW o \in Threads PROVE (LocAlone(loc[o]) /\ LocMaps(loc[o]))'
    <2>1. CASE o = t
      <3>1. m.pc \in Looking => \A k \in Known' : k.name = m.name => k.uid \notin deleting'
        <4> SUFFICES ASSUME m.pc \in Looking PROVE \A k \in Known : k.name = c.name => k.uid \notin deleting'
          BY <1>1, <1>3
        <4>1. c.op \in Creates /\ c.op \notin Deletes
          BY <1>1 DEF InStep, Looking, Creates, Deletes
        <4>2. deleting' = deleting
          BY <4>1 DEF Opens
        <4> QED
          BY <1>2, <4>1, <4>2
      <3>2. LocAlone(m)' /\ LocMaps(m)'
        BY <1>1, <3>1 DEF LocAlone, LocMaps, HasUid, HasSrc, Preparing, Made, Filling
      <3> QED
        BY <1>3, <2>1, <3>2
    <2>2. CASE o # t
      <3> PICK r : r = loc[o]
        OBVIOUS
      <3>1. LocAlone(r) /\ LocMaps(r) /\ r.call.name = r.name
        BY LocIs, LocsAre
      <3>2. r.pc \in Looking => \A k \in Known : k.name = r.name => k.uid \notin deleting'
        <4> SUFFICES ASSUME r.pc \in Looking, NEW k \in Known, k.name = r.name, k.uid \in deleting' PROVE FALSE
          OBVIOUS
        <4>1. k.uid \notin deleting /\ Exists(k.name) /\ vdisk[k.name].uid = k.uid
          BY <3>1 DEF LocAlone, Alone, Stays
        <4>2. c.op \in Deletes /\ k.uid = c.uid
          BY <4>1 DEF Opens
        <4> PICK j \in Known : j.uid = c.uid /\ j.name = c.name
          BY <4>2 DEF Asks
        <4>3. k.name = c.name
          BY <4>1, <4>2, KnownTypes DEF Binds
        <4>4. r.pc # "idle"
          BY DEF Looking
        <4> QED
          BY <1>2, <3>1, <4>3, <4>4
      <3>3. LocAlone(r)' /\ LocMaps(r)'
        BY <1>1, <1>3, <1>4, <3>1, <3>2 DEF LocAlone, LocMaps
      <3> QED
        BY <1>3, <2>2, <3>3
    <2> QED
      BY <2>1, <2>2
  <1> QED
    BY <1>5, <1>6, <1>7, <1>8, <1>9 DEF Alone

\* Only mappings change, and of those only the ones that are copying.
LEMMA CopyingAlone ==
  ASSUME Sound, Alone, UNCHANGED <<vdisk, loc, answers, deleting>>,
         \A n \in Names : /\ Mapped(n)' <=> Mapped(n)
                          /\ Mapped(n) => fcmap'[n].src = fcmap[n].src
                          /\ fcmap'[n] = fcmap[n] \/ (Mapped(n) /\ fcmap[n].status = "copying")
  PROVE  Alone'
  <1>1. Known' = Known /\ (\A n : Exists(n)' <=> Exists(n)) /\ (\A n : Fresh(n)' <=> Fresh(n))
    BY SameKnown DEF Exists, Fresh
  <1>2. Apart' /\ Stays' /\ OneUid'
    BY <1>1 DEF Alone, Apart, Stays, OneUid
  <1>3. Owned'
    BY <1>1 DEF Alone, Owned, Made
  <1>4. FromKnown'
    BY <1>1 DEF Alone, FromKnown
  <1>5. ASSUME NEW o \in Threads PROVE (LocAlone(loc[o]) /\ LocMaps(loc[o]))'
    <2> PICK r : r = loc[o]
      OBVIOUS
    <2>1. LocAlone(r) /\ LocMaps(r) /\ r.name \in Names
      BY LocIs, LocsAre
    <2>2. LocAlone(r)'
      BY <1>1, <2>1 DEF LocAlone
    <2>3. LocMaps(r)'
      BY <2>1 DEF LocMaps
    <2> QED
      BY <2>2, <2>3
  <1> QED
    BY <1>2, <1>3, <1>4, <1>5 DEF Alone

LEMMA CopyDoneMaps ==
  ASSUME Sound, BackgroundCopy
  PROVE  /\ UNCHANGED <<vdisk, nextUid, loc, answers, deleting, crashes>>
         /\ \A n \in Names : /\ Mapped(n)' <=> Mapped(n)
                             /\ Mapped(n) => fcmap'[n].src = fcmap[n].src /\ fcmap'[n].rate0 = fcmap[n].rate0
                             /\ \/ fcmap'[n] = fcmap[n]
                                \/ /\ Mapped(n) /\ fcmap[n].status = "copying" /\ ~fcmap[n].rate0
                                   /\ fcmap'[n].status = "copied"
  <1> PICK j \in Names :
            /\ Mapped(j) /\ Mapped(j)' /\ fcmap[j].status = "copying" /\ ~fcmap[j].rate0
            /\ fcmap'[j].src = fcmap[j].src /\ fcmap'[j].status = "copied"
            /\ fcmap'[j].rate0 = fcmap[j].rate0
            /\ \A n \in Names : n # j => fcmap'[n] = fcmap[n]
            /\ UNCHANGED <<vdisk, nextUid, loc, answers, deleting, crashes>>
    BY CopyDoneIs
  <1>1. \A n \in Names : n # j => (Mapped(n)' <=> Mapped(n))
    BY DEF Mapped
  <1> QED
    BY <1>1

LEMMA AloneInit == Init => Alone
  <1> SUFFICES ASSUME Init PROVE Alone
    OBVIOUS
  <1> PICK s : s = [uid |-> 1, name |-> Source, op |-> "CreateVolume"]
    OBVIOUS
  <1>1. Known = {s} /\ s.uid = 1 /\ s.name = Source
    BY InitKnown
  <1>2. \A t \in Threads : loc[t] = Idle
    BY DEF Init
  <1>3. \A n \in Names : ~Mapped(n)
    BY DEF Init, Mapped
  <1>4. vdisk[Source].uid = 1
    BY ProvisioningAssumption DEF Init
  <1>5. \A n \in Names : Exists(n) <=> n = Source
    <2>1. \A n \in Names : n # Source => vdisk[n] = NoDisk
      BY DEF Init
    <2>2. NoDisk.uid = 0
      BY DEF NoDisk, NoUid
    <2>3. vdisk[Source] # NoDisk
      BY <1>4, <2>2
    <2> QED
      BY <2>1, <2>3 DEF Exists
  <1>6. Apart
    BY <1>2, IdleIs DEF Apart
  <1>7. Stays /\ OneUid /\ Owned /\ FromKnown
    BY <1>1, <1>3, <1>4, <1>5, ProvisioningAssumption DEF Stays, OneUid, Owned, FromKnown
  <1> QED
    BY <1>2, <1>6, <1>7, IdleAlone DEF Alone

LEMMA AloneNext == Calm /\ Sound /\ Alone /\ [Next]_vars => Alone'
  <1> SUFFICES ASSUME Calm, Sound, Alone, [Next]_vars PROVE Alone'
    OBVIOUS
  <1>1. ASSUME NEW t \in Threads, Start(t) PROVE Alone'
    BY <1>1, StartAlone
  <1>2. ASSUME NEW t \in Threads, Command(t) \/ CliFault(t) PROVE Alone'
    BY <1>2, CommandAdvances, AdvanceAlone
  <1>3. ~Crash
    BY DEF Crash, Calm, Sound, Counted
  <1>4. CASE BackgroundCopy
    BY <1>4, CopyDoneMaps, CopyingAlone
  <1>5. CASE UNCHANGED vars
    BY <1>5, CopyingAlone DEF vars, arrayVars, Mapped
  <1> QED
    BY <1>1, <1>2, <1>3, <1>4, <1>5 DEF Next

-----------------------------------------------------------------------------
(***************************************************************************)
(* What was answered as created from a source reads as that source.        *)
(***************************************************************************)

LEMMA AnswerKnown ==
  ASSUME NEW a \in OkTo(Creates)
  PROVE  \E k \in Known : k.uid = a.uid /\ k.name = a.call.name /\ k.op = a.call.op
  <1> PICK k : k = [uid |-> a.uid, name |-> a.call.name, op |-> a.call.op]
    OBVIOUS
  <1>1. k \in Known
    BY KnownIs DEF OkTo
  <1> QED
    BY <1>1

LEMMA KnownAnswer ==
  ASSUME NEW k \in Known, k.op = "CreateSnapshot"
  PROVE  \E a \in OkTo({"CreateSnapshot"}) : k.uid = a.uid /\ k.name = a.call.name
  BY KnownIs DEF OkTo

\* The answer of a call that ends.
LEMMA NewAnswer ==
  ASSUME Calm, Sound, Alone, NEW t \in Threads, NEW l, l = loc[t], NEW m, Step(t, l, m), NEW a \in answers', a \notin answers
  PROVE  /\ m = Idle /\ a.call = l.call /\ a.uid \in Nat /\ a.status \in Statuses
         /\ a.status = "OK" => EndsOk(l, a.uid)
  <1>1. ~On(l, m)
    BY DEF On
  <1> PICK status \in Statuses, u \in Nat : Off(l, m, status, u)
    BY <1>1, CalmStep
  <1> QED
    BY DEF Off

\* A volume that a call has found is known.
LEMMA FoundKnown ==
  ASSUME Sound, Alone, NEW t \in Threads, NEW l, l = loc[t], l.pc \in {"origin", "sverify"}
  PROVE  \E j \in Known : j.name = l.name /\ j.uid = l.uid /\ j.uid \notin deleting
  <1>1. LocAlone(l) /\ l.name \in Names /\ l.call.name = l.name
    BY LocIs, LocsAre
  <1>2. Exists(l.name) /\ vdisk[l.name].uid = l.uid
    BY <1>1 DEF LocAlone
  <1>3. ASSUME NEW o \in Threads, Made(loc[o]), loc[o].call.name = l.name PROVE FALSE
    <2>1. loc[o].pc # "idle" /\ loc[o].pc \notin {"origin", "sverify"}
      BY <1>3 DEF Made, Filling, Unmapped, Removing
    <2> QED
      BY <1>1, <1>3, <2>1 DEF Alone, Apart
  <1> PICK j \in Known : j.uid = vdisk[l.name].uid /\ j.name = l.name
    BY <1>1, <1>2, <1>3 DEF Alone, Owned
  <1>4. j.uid \notin deleting
    BY <1>1 DEF LocAlone, Looking
  <1> QED
    BY <1>2, <1>4

LEMMA StartedStays ==
  ASSUME Sound, Alone, NEW t \in Threads, NEW l, l = loc[t], NEW m, Effects(l, m), NEW k \in Known, k.uid \notin deleting,
         Started(k.name)
  PROVE  Started(k.name)'
  <1> PICK n : n = k.name
    OBVIOUS
  <1>1. n \in Names /\ vdisk'[n].copyOf = vdisk[n].copyOf /\ (Mapped(n)' => Mapped(n) /\ fcmap'[n] = fcmap[n])
    BY Undisturbed, KnownTypes
  <1>2. ASSUME Mapped(n)' PROVE vdisk'[fcmap'[n].src].uid = vdisk[fcmap[n].src].uid
    <2> PICK s : s = fcmap[n].src
      OBVIOUS
    <2>1. Mapped(n) /\ s \in Names /\ Exists(s) /\ fcmap'[n].src = s
      BY <1>1, <1>2, ArrayedIs
    <2> QED
      BY <1>1, <1>2, <2>1, SrcStays
  <1> QED
    BY <1>1, <1>2 DEF Started

\* A copy that is started reads as its source.
LEMMA StartsCopy ==
  ASSUME Sound, Alone, NEW t \in Threads, NEW l, l = loc[t], NEW m, Effects(l, m), Made(l), Mapped(l.name), StartFcmap(l.name)
  PROVE  /\ vdisk'[l.name].copyOf = l.call.source /\ Started(l.name)' /\ Mapped(l.name)'
         /\ fcmap'[l.name].status = "copying" /\ fcmap'[l.name].rate0 = (l.call.op = "CreateSnapshot")
  <1> PICK n : n = l.name
    OBVIOUS
  <1> PICK s : s = fcmap[n].src
    OBVIOUS
  <1>1. /\ n \in Names /\ fcmap[n] \in Fcmaps /\ s \in Names /\ Exists(s) /\ vdisk[s].uid = l.call.source /\ Exists(n)
        /\ fcmap[n].status = "idle" /\ fcmap[n].rate0 = (l.call.op = "CreateSnapshot")
    BY LocIs, LocsAre, ArrayedIs DEF LocMaps
  <1>2. fcmap'[n] = [fcmap[n] EXCEPT !.status = "copying"]
    BY <1>1, ArrayedIs DEF StartFcmap
  <1>3. fcmap'[n].src = s /\ fcmap'[n].status = "copying" /\ fcmap'[n].rate0 = fcmap[n].rate0
    BY <1>1, <1>2 DEF Fcmaps
  <1>4. Mapped(n)'
    BY <1>3 DEF Mapped, NoMap
  <1>5. vdisk'[n].copyOf = vdisk[s].uid
    <2>1. vdisk' = [vdisk EXCEPT ![n].copyOf = vdisk[s].uid]
      BY <1>1 DEF StartFcmap
    <2>2. vdisk'[n] = [vdisk[n] EXCEPT !.copyOf = vdisk[s].uid]
      BY <1>1, <2>1, ArrayedIs
    <2>3. vdisk[n] \in Disks
      BY <1>1, DiskIs
    <2> QED
      BY <2>2, <2>3 DEF Disks
  <1>6. vdisk'[s].uid = vdisk[s].uid
    BY <1>1, <1>3, <1>4, SrcStays
  <1> QED
    BY <1>1, <1>3, <1>4, <1>5, <1>6 DEF Started

LEMMA AdvanceStarted ==
  ASSUME Calm, Sound, Alone, Copied, NEW t \in Threads, NEW l, l = loc[t], NEW m, Step(t, l, m),
         NEW k \in Known', k.uid \notin deleting'
  PROVE  Started(k.name)'
  <1>1. Effects(l, m) /\ deleting' = deleting /\ LocMaps(l) /\ l.name \in Names /\ l.call.name = l.name
    BY StepIs, CalmStep, LocIs, LocsAre
  <1>2. ASSUME NEW j \in Known, j.uid = k.uid, j.name = k.name PROVE Started(k.name)'
    <2>1. Started(j.name)
      BY <1>1, <1>2 DEF Copied
    <2>2. Started(j.name)'
      BY <1>1, <1>2, <2>1, StartedStays
    <2> QED
      BY <1>2, <2>2
  <1>3. CASE k \in Known
    BY <1>2, <1>3
  <1>4. CASE k \notin Known
    <2>1. /\ k.name = l.name /\ l.call.op \in Creates /\ EndsOk(l, k.uid)
          /\ Made(l) \/ l.pc \in {"origin", "sverify"}
          /\ l.pc = "startfcmap" => Mapped(l.name) /\ StartFcmap(l.name)
      <3>1. k.name = l.call.name /\ l.call.op \in Creates /\ EndsOk(l, k.uid)
        BY <1>4, NewlyKnown
      <3>2. /\ Made(l) \/ l.pc \in {"origin", "sverify"}
            /\ l.pc = "startfcmap" => Mapped(l.name) /\ StartFcmap(l.name)
        BY <1>4, NewlyKnown
      <3> QED
        BY <1>1, <3>1, <3>2
    <2>2. CASE l.pc = "created"
      <3>1. Made(l) /\ ~Mapped(l.name)
        BY <1>1, <2>1, <2>2 DEF LocMaps, Unmapped
      <3>2. MapStep(l, m, l.name)
        BY <1>1 DEF Effects
      <3>3. ~Mapped(l.name)'
        BY <2>2, <3>1, <3>2 DEF MapStep, Mapped
      <3> QED
        BY <2>1, <3>3 DEF Started
    <2>3. CASE l.pc = "startfcmap"
      BY <1>1, <2>1, <2>3, StartsCopy
    <2>4. CASE l.pc \in {"origin", "sverify"}
      <3>1. k.uid = l.uid
        BY <2>1, <2>4 DEF EndsOk
      <3> PICK j \in Known : j.name = l.name /\ j.uid = l.uid
        BY <2>4, FoundKnown
      <3> QED
        BY <1>2, <2>1, <3>1
    <2> QED
      BY <2>1, <2>2, <2>3, <2>4 DEF EndsOk
  <1> QED
    BY <1>3, <1>4

LEMMA AdvanceHolds ==
  ASSUME Calm, Sound, Alone, Copied, NEW t \in Threads, NEW l, l = loc[t], NEW m, Step(t, l, m), NEW a \in OkTo(Creates)'
  PROVE  Holds(a)'
  <1>1. /\ Effects(l, m) /\ deleting' = deleting /\ faults' = faults
        /\ LocMaps(l) /\ l.name \in Names /\ l.call.name = l.name /\ LocOK(l)
    BY StepIs, CalmStep, LocIs, LocsAre
  <1>2. a \in answers' /\ a.call.op \in Creates /\ a.status = "OK"
    BY DEF OkTo
  <1> SUFFICES ASSUME a.call.op = "CreateSnapshot" \/ a.call.source # NoUid, a.uid \notin deleting
               PROVE  vdisk'[a.call.name].copyOf = a.call.source
    BY <1>1 DEF Holds
  <1>3. CASE a \in answers
    <2>1. a \in OkTo(Creates)
      BY <1>2, <1>3 DEF OkTo
    <2> PICK k \in Known : k.uid = a.uid /\ k.name = a.call.name
      BY <2>1, AnswerKnown
    <2>2. vdisk[a.call.name].copyOf = a.call.source
      BY <2>1 DEF Copied, Holds
    <2>3. vdisk'[k.name].copyOf = vdisk[k.name].copyOf
      BY <1>1, Undisturbed
    <2> QED
      BY <2>2, <2>3
  <1>4. CASE a \notin answers
    <2>1. a.call = l.call /\ EndsOk(l, a.uid)
      BY <1>2, <1>4, NewAnswer
    <2>2. l.call.source # NoUid
      BY <1>1, <2>1 DEF LocOK, CallOK, Asks
    <2>3. CASE l.pc = "startfcmap"
      <3>1. l.pc # "idle"
        BY <2>3
      <3>2. Mapped(l.name) /\ StartFcmap(l.name) /\ Made(l)
        BY <1>1, <1>2, <2>1, <2>3, <3>1, NewAnswer, AnsweredIsThere, <1>4
      <3> QED
        BY <1>1, <2>1, <3>2, StartsCopy
    <2>4. CASE l.pc \in {"origin", "sverify"}
      <3>1. a.uid = l.uid /\ CopySource(l.name) = l.call.source
        BY <1>1, <1>2, <2>1, <2>4 DEF EndsOk
      <3>2. Mapped(l.name) /\ vdisk[fcmap[l.name].src].uid = l.call.source
        BY <2>2, <3>1 DEF CopySource
      <3> PICK j \in Known : j.name = l.name /\ j.uid = l.uid
        BY <2>4, FoundKnown
      <3>3. Started(l.name)
        BY <3>1 DEF Copied
      <3>4. vdisk[l.name].copyOf = l.call.source
        BY <3>2, <3>3 DEF Started
      <3> QED
        BY <1>1, <2>1, <3>1, <3>4, Undisturbed
    <2> QED
      BY <1>2, <2>1, <2>2, <2>3, <2>4 DEF EndsOk
  <1> QED
    BY <1>3, <1>4

\* A deletion that is about to remove the volume without its mapping does so, or fails.
LEMMA EndingEnds ==
  ASSUME Calm, Sound, Alone, NEW t \in Threads, NEW l, l = loc[t], NEW m, Step(t, l, m),
         NEW k \in Known, k.name = l.name, Exists(k.name), Exists(k.name)',
         l.call.op \in Deletes, l.pc \in {"rmtargetmap", "rmvolume"}
  PROVE  Ending(k.name)' \/ Failed(k.uid)'
  <1>1. /\ l.pc # "idle" /\ l.call.name = l.name /\ k.uid = l.call.uid /\ l.uid = k.uid /\ k.name \in Names
        /\ loc'[t] = m /\ Effects(l, m)
    <2>1. l.call.name = l.name /\ k.name \in Names
      BY LocIs, KnownTypes
    <2>2. k.uid = l.call.uid /\ l.uid = k.uid
      BY OwnName
    <2> QED
      BY <2>1, <2>2, StepIs
  <1>2. CASE On(l, m)
    <2>1. m.pc = "rmvolume" /\ m.call = l.call
      BY <1>2, OnKnown DEF On, Follows
    <2>2. Ending(k.name)'
      BY <1>1, <2>1 DEF Ending
    <2> QED
      BY <2>2
  <1>3. ASSUME NEW status \in Statuses, NEW u \in Nat, Off(l, m, status, u) PROVE Failed(k.uid)'
    <2>1. vdisk'[k.name].uid = k.uid
      <3>1. vdisk[k.name].uid = k.uid
        BY KnownAt
      <3>2. DiskStep(l, m, k.name)
        BY <1>1 DEF Effects
      <3> QED
        BY <3>1, <3>2 DEF DiskStep
    <2>2. (NamesOf(l.uid))' # {}
      <3>1. k.name \in NamesOf(l.uid)'
        BY <1>1, <2>1 DEF NamesOf
      <3> QED
        BY <3>1
    <2>3. status # "OK"
      BY <1>3, <2>2 DEF Off, EndsOk, Deletes
    <2> PICK b : b = [call |-> l.call, status |-> status, uid |-> u]
      OBVIOUS
    <2>4. b \in answers' /\ b.call = l.call /\ b.status # "OK"
      BY <1>3, <2>3 DEF Off
    <2> QED
      BY <1>1, <2>4 DEF Failed
  <1> QED
    BY <1>2, <1>3, CalmStep

LEMMA TakenStays ==
  ASSUME Calm, Sound, Alone, Copied, NEW t \in Threads, NEW l, l = loc[t], NEW m, Step(t, l, m),
         NEW a \in OkTo({"CreateSnapshot"})
  PROVE  Taken(a)'
  <1>0. m # Idle => On(l, m)
    <2>1. On(l, m) \/ \E status \in Statuses, u \in Nat : Off(l, m, status, u)
      BY CalmStep
    <2> QED
      BY <2>1 DEF Off
  <1> PICK n : n = a.call.name
    OBVIOUS
  <1>1. Taken(a) /\ a \in OkTo(Creates)
    BY DEF Copied, OkTo, Creates
  <1> PICK k \in Known : k.uid = a.uid /\ k.name = n
    BY <1>1, AnswerKnown
  <1>2. /\ Effects(l, m) /\ answers \subseteq answers' /\ l.call.name = l.name /\ n \in Names /\ loc'[t] = m
        /\ \A o \in Threads : o # t => loc'[o] = loc[o]
    <2>1. Effects(l, m) /\ answers \subseteq answers' /\ loc'[t] = m /\ \A o \in Threads : o # t => loc'[o] = loc[o]
      BY StepIs DEF Ages
    <2> QED
      BY <2>1, LocIs, KnownTypes
  <1>3. DiskStep(l, m, n) /\ MapStep(l, m, n)
    BY <1>2 DEF Effects
  <1> SUFFICES ASSUME Exists(n)'
               PROVE  \/ Mapped(n)' /\ fcmap'[n].rate0 /\ fcmap'[n].status = "copying"
                      \/ Failed(a.uid)' \/ Ending(n)'
    BY DEF Taken
  <1>4. Exists(n)
    <2>1. l.pc = "mkvolume" => l.name # n
      BY OwnName DEF Preparing
    <2> QED
      BY <1>2, <1>3, <2>1 DEF DiskStep, Effects
  <1>5. CASE Mapped(n) /\ fcmap[n].rate0 /\ fcmap[n].status = "copying"
    <2>1. l.pc = "mkfcmap" => l.name # n
      BY OwnName DEF Filling, Unmapped
    <2>2. l.pc = "startfcmap" => n \notin l.fc
      BY OwnName
    <2>3. ASSUME l.pc \in {"stop", "rmtargetmap"}, n = l.name, m.pc \in {"rmtargetmap", "rmvolume"} PROVE Ending(n)'
      <3>1. l.call.op \in Deletes
        BY <2>3, OwnName
      <3>2. m # Idle
        BY <2>3, IdleIs
      <3>3. On(l, m)
        BY <1>0, <3>2
      <3>4. m.call = l.call
        BY <3>3, OnKnown
      <3> QED
        BY <1>2, <2>3, <3>1, <3>4 DEF Ending
    <2>4. l.pc = "rmtargetmap" => m.pc = "rmvolume"
      BY CalmStep DEF On, Off, Follows, EndsOk, EndsBadly
    <2>5. CASE ~Mapped(n)'
      BY <1>3, <1>5, <2>3, <2>4, <2>5 DEF MapStep
    <2>6. CASE Mapped(n)'
      <3>1. CASE fcmap'[n] = fcmap[n]
        BY <1>5, <2>6, <3>1
      <3>2. CASE fcmap'[n] # fcmap[n]
        BY <1>3, <2>1, <2>2, <2>3, <2>6, <3>2 DEF MapStep
      <3> QED
        BY <3>1, <3>2
    <2> QED
      BY <2>5, <2>6
  <1>6. CASE Failed(a.uid)
    BY <1>2, <1>6 DEF Failed
  <1>7. CASE Ending(n)
    <2> PICK o \in Threads : loc[o].call.op \in Deletes /\ loc[o].call.name = n /\ loc[o].pc \in {"rmtargetmap", "rmvolume"}
      BY <1>7 DEF Ending
    <2>1. CASE o # t
      BY <1>2, <2>1 DEF Ending
    <2>2. CASE o = t
      <3>1. l.call.op \in Deletes /\ k.name = l.name /\ l.pc \in {"rmtargetmap", "rmvolume"} /\ Exists(k.name) /\ Exists(k.name)'
        BY <1>2, <1>4, <2>2
      <3>2. Ending(k.name)' \/ Failed(k.uid)'
        BY <3>1, EndingEnds
      <3> QED
        BY <3>2
    <2> QED
      BY <2>1, <2>2
  <1> QED
    BY <1>1, <1>4, <1>5, <1>6, <1>7 DEF Taken

LEMMA AdvanceTaken ==
  ASSUME Calm, Sound, Alone, Copied, NEW t \in Threads, NEW l, l = loc[t], NEW m, Step(t, l, m),
         NEW a \in OkTo({"CreateSnapshot"})'
  PROVE  Taken(a)'
  <1>1. Effects(l, m) /\ l.pc # "idle" /\ LocMaps(l) /\ l.name \in Names /\ l.call.name = l.name
    BY StepIs, LocIs, LocsAre
  <1>2. a \in answers' /\ a.call.op = "CreateSnapshot" /\ a.status = "OK"
    BY DEF OkTo
  <1>3. CASE a \in answers
    <2>1. a \in OkTo({"CreateSnapshot"})
      BY <1>2, <1>3 DEF OkTo
    <2> QED
      BY <2>1, TakenStays
  <1>4. CASE a \notin answers
    <2>1. a.call = l.call /\ EndsOk(l, a.uid) /\ a.uid \in Nat
      BY <1>2, <1>4, NewAnswer
    <2>2. l.call.op = "CreateSnapshot" /\ l.call.op \in Creates
      BY <1>2, <2>1 DEF Creates
    <2>3. CASE l.pc = "startfcmap"
      <3>1. Mapped(l.name) /\ StartFcmap(l.name) /\ Made(l)
        BY <1>1, <2>1, <2>2, <2>3, AnsweredIsThere
      <3>2. Mapped(l.name)' /\ fcmap'[l.name].status = "copying" /\ fcmap'[l.name].rate0
        BY <1>1, <2>2, <3>1, StartsCopy
      <3> QED
        BY <1>1, <2>1, <3>2 DEF Taken
    <2>4. CASE l.pc = "sverify"
      <3>1. a.uid = l.uid /\ Mapped(l.name) /\ fcmap[l.name].rate0
        BY <2>1, <2>2, <2>4 DEF EndsOk
      <3> PICK j \in Known : j.name = l.name /\ j.uid = l.uid /\ j.uid \notin deleting
        BY <2>4, FoundKnown
      <3>2. fcmap[l.name].status = "copying"
        BY <3>1 DEF Copied, Started
      <3>3. MapStep(l, m, l.name)
        BY <1>1 DEF Effects
      <3>4. Mapped(l.name)' /\ fcmap'[l.name] = fcmap[l.name]
        BY <2>4, <3>1, <3>3 DEF MapStep
      <3> QED
        BY <1>1, <2>1, <3>1, <3>2, <3>4 DEF Taken
    <2> QED
      BY <2>1, <2>2, <2>3, <2>4 DEF EndsOk
  <1> QED
    BY <1>3, <1>4

LEMMA AdvanceGone ==
  ASSUME Calm, Sound, Alone, Copied, NEW t \in Threads, NEW l, l = loc[t], NEW m, Step(t, l, m),
         NEW a \in OkTo({"DeleteSnapshot"})'
  PROVE  Gone(a.call.uid)' \/ Failed(a.call.uid)'
  <1>1. /\ Effects(l, m) /\ l.pc # "idle" /\ l.name \in Names /\ l.call.name = l.name /\ LocOK(l) /\ InStep(l) /\ Ages
        /\ answers \subseteq answers' /\ l.uid \in Nat /\ Binds(l.uid, l.name)
    BY StepIs, LocIs DEF Ages
  <1>2. a \in answers' /\ a.call.op = "DeleteSnapshot" /\ a.status = "OK"
    BY DEF OkTo
  <1>3. \A u : Failed(u) => Failed(u)'
    BY <1>1 DEF Failed
  <1>4. ASSUME NEW u \in Nat, Gone(u) PROVE Gone(u)'
    BY <1>1, <1>4, GoneStays DEF Gone
  <1>5. CASE a \in answers
    <2>1. a \in OkTo({"DeleteSnapshot"})
      BY <1>2, <1>5 DEF OkTo
    <2>2. a.call.uid \in Nat
      BY <1>5 DEF Sound, AnswerOK, AnswerRecs, CallRecs
    <2> QED
      BY <1>3, <1>4, <2>1, <2>2 DEF Copied
  <1>6. CASE a \notin answers
    <2>1. a.call = l.call /\ EndsOk(l, a.uid)
      BY <1>2, <1>6, NewAnswer
    <2>2. l.call.op = "DeleteSnapshot" /\ l.uid = l.call.uid
      BY <1>1, <1>2, <2>1 DEF InStep, Creates
    <2> PICK k \in Known : k.uid = l.call.uid /\ k.name = l.call.name /\ k.op = "CreateSnapshot"
      BY <1>1, <2>2 DEF LocOK, CallOK, Asks
    <2> PICK b \in OkTo({"CreateSnapshot"}) : b.uid = l.uid /\ b.call.name = l.name
      BY <1>1, <2>2, KnownAnswer
    <2>3. CASE NamesOf(l.uid)' = {}
      <3>1. l.uid < nextUid'
        BY <1>1, BindsStays DEF Binds
      <3> QED
        BY <2>1, <2>2, <2>3, <3>1 DEF Gone
    <2>4. CASE NamesOf(l.uid) = {}
      <3>1. Gone(l.uid)
        BY <1>1, <2>4 DEF Gone, Binds
      <3> QED
        BY <1>1, <1>4, <2>1, <2>2, <3>1
    <2>5. CASE NamesOf(l.uid) # {} /\ l.pc \in {"find", "target"} /\ ~Mapped(l.name)
      <3>1. Exists(l.name)
        BY <1>1, <2>5 DEF NamesOf, Binds
      <3>2. ~Ending(l.name)
        BY <1>1, <2>5 DEF Ending, Alone, Apart
      <3>3. Failed(l.uid)
        BY <2>5, <3>1, <3>2 DEF Copied, Taken
      <3> QED
        BY <1>3, <2>1, <2>2, <3>3
    <2>6. ASSUME NamesOf(l.uid) # {}, \A n \in NamesOf(l.uid) : FcIds(n) = {} PROVE ~Mapped(l.name)
      <3>1. l.name \in NamesOf(l.uid)
        BY <1>1, <2>6 DEF NamesOf, Binds
      <3> QED
        BY <1>1, <2>6, <3>1 DEF FcIds
    <2> QED
      BY <2>1, <2>2, <2>3, <2>4, <2>5, <2>6 DEF EndsOk
  <1> QED
    BY <1>5, <1>6

\* The volumes and the answers stay, a mapping at most completes its copy, and
\* no thread leaves the end of a deletion.
LEMMA QuietCopied ==
  ASSUME Sound, Alone, Copied, UNCHANGED <<vdisk, nextUid, answers>>, deleting \subseteq deleting',
         \A n : Ending(n) => Ending(n)',
         \A n \in Names : /\ Mapped(n)' <=> Mapped(n)
                          /\ Mapped(n) => fcmap'[n].src = fcmap[n].src /\ fcmap'[n].rate0 = fcmap[n].rate0
                          /\ \/ fcmap'[n] = fcmap[n]
                             \/ /\ Mapped(n) /\ fcmap[n].status = "copying" /\ ~fcmap[n].rate0
                                /\ fcmap'[n].status = "copied"
  PROVE  Copied'
  <1>1. Known' = Known /\ (\A ops : OkTo(ops)' = OkTo(ops)) /\ (\A n : Exists(n)' <=> Exists(n))
    BY SameKnown DEF Exists
  <1>2. ASSUME NEW k \in Known, k.uid \notin deleting' PROVE Started(k.name)'
    <2>1. Started(k.name) /\ k.name \in Names
      BY <1>2, KnownTypes DEF Copied
    <2> QED
      BY <2>1 DEF Started
  <1>3. ASSUME NEW a \in OkTo(Creates) PROVE Holds(a)'
    BY <1>3 DEF Copied, Holds
  <1>4. ASSUME NEW a \in OkTo({"CreateSnapshot"}) PROVE Taken(a)'
    <2>1. Taken(a)
      BY DEF Copied
    <2>2. a \in OkTo(Creates)
      BY DEF OkTo, Creates
    <2> PICK k \in Known : k.name = a.call.name
      BY <2>2, AnswerKnown
    <2>3. a.call.name \in Names
      BY KnownTypes
    <2>4. Failed(a.uid) => Failed(a.uid)'
      BY DEF Failed
    <2> QED
      BY <1>1, <2>1, <2>3, <2>4 DEF Taken
  <1>5. ASSUME NEW a \in OkTo({"DeleteSnapshot"}) PROVE Gone(a.call.uid)' \/ Failed(a.call.uid)'
    <2>1. Gone(a.call.uid) \/ Failed(a.call.uid)
      BY DEF Copied
    <2>2. Gone(a.call.uid) => Gone(a.call.uid)'
      BY <1>1 DEF Gone, NamesOf
    <2>3. Failed(a.call.uid) => Failed(a.call.uid)'
      BY DEF Failed
    <2> QED
      BY <2>1, <2>2, <2>3
  <1> QED
    BY <1>1, <1>2, <1>3, <1>4, <1>5 DEF Copied

LEMMA CopiedInit == Init => Copied
  <1> SUFFICES ASSUME Init PROVE Copied
    OBVIOUS
  <1>1. Known = {[uid |-> 1, name |-> Source, op |-> "CreateVolume"]} /\ \A ops : OkTo(ops) = {}
    BY InitKnown DEF Init, OkTo
  <1>2. \A n \in Names : ~Mapped(n)
    BY DEF Init, Mapped
  <1> QED
    BY <1>1, <1>2, ProvisioningAssumption DEF Copied, Started

LEMMA AdvanceCopied ==
  ASSUME Calm, Sound, Alone, Copied, NEW t \in Threads, Advance(t)
  PROVE  Copied'
  <1> PICK l, m \in LocRecs : l = loc[t] /\ Step(t, l, m)
    BY DEF Advance
  <1>1. \A k \in Known' : k.uid \notin deleting' => Started(k.name)'
    BY AdvanceStarted
  <1>2. \A a \in OkTo(Creates)' : Holds(a)'
    BY AdvanceHolds
  <1>3. \A a \in OkTo({"CreateSnapshot"})' : Taken(a)'
    BY AdvanceTaken
  <1>4. \A a \in OkTo({"DeleteSnapshot"})' : Gone(a.call.uid)' \/ Failed(a.call.uid)'
    BY AdvanceGone
  <1> QED
    BY <1>1, <1>2, <1>3, <1>4 DEF Copied

LEMMA CopiedNext == Calm /\ Sound /\ Alone /\ Copied /\ [Next]_vars => Copied'
  <1> SUFFICES ASSUME Calm, Sound, Alone, Copied, [Next]_vars PROVE Copied'
    OBVIOUS
  <1>1. ASSUME NEW t \in Threads, Start(t) PROVE Copied'
    <2> PICK c, m : Opens(t, c, m)
      BY <1>1, StartOpens
    <2>1. /\ loc[t] = Idle /\ loc' = [loc EXCEPT ![t] = m] /\ deleting \subseteq deleting'
          /\ UNCHANGED <<vdisk, fcmap, nextUid, answers>>
      BY DEF Opens
    <2>2. ASSUME NEW n, Ending(n) PROVE Ending(n)'
      <3> PICK o \in Threads : loc[o].call.op \in Deletes /\ loc[o].call.name = n /\ loc[o].pc \in {"rmtargetmap", "rmvolume"}
        BY <2>2 DEF Ending
      <3>1. o # t
        BY <2>1, IdleIs
      <3>2. loc'[o] = loc[o]
        BY <2>1, <3>1 DEF Sound
      <3> QED
        BY <3>2 DEF Ending
    <2>3. \A n \in Names : (Mapped(n)' <=> Mapped(n)) /\ fcmap'[n] = fcmap[n]
      BY <2>1 DEF Mapped
    <2> QED
      BY <2>1, <2>2, <2>3, QuietCopied
  <1>2. ASSUME NEW t \in Threads, Command(t) \/ CliFault(t) PROVE Copied'
    BY <1>2, CommandAdvances, AdvanceCopied
  <1>3. ~Crash
    BY DEF Crash, Calm, Sound, Counted
  <1>4. loc' = loc => \A n : Ending(n) => Ending(n)'
    BY DEF Ending
  <1>5. CASE BackgroundCopy
    BY <1>4, <1>5, CopyDoneMaps, QuietCopied
  <1>6. CASE UNCHANGED vars
    <2>1. /\ UNCHANGED <<vdisk, nextUid, answers>> /\ deleting \subseteq deleting' /\ loc' = loc
          /\ \A n \in Names : (Mapped(n)' <=> Mapped(n)) /\ fcmap'[n] = fcmap[n]
      BY <1>6 DEF vars, arrayVars, Mapped
    <2> QED
      BY <1>4, <2>1, QuietCopied
  <1> QED
    BY <1>1, <1>2, <1>3, <1>5, <1>6 DEF Next

-----------------------------------------------------------------------------
(***************************************************************************)
(* Volumes have the sizes that were asked for.                             *)
(***************************************************************************)

LEMMA AskedAgain ==
  ASSUME NEW z \in Nat, Asked(z)
  PROVE  Asked(Convert(z))
  <1> PICK s \in Sizes \cup {MinSize, BlockSize} : z = Convert(s)
    BY DEF Asked
  <1>1. s \in Nat
    BY ArrayAssumption, ProvisioningAssumption
  <1>2. Convert(z) = z
    BY <1>1, ConvertIs DEF Convert
  <1> QED
    BY <1>2

LEMMA AdvanceSized ==
  ASSUME Calm, Sound, Alone, Sized, NEW t \in Threads, Advance(t)
  PROVE  Sized'
  <1> PICK l, m \in LocRecs : l = loc[t] /\ Step(t, l, m)
    BY DEF Advance
  <1>1. /\ l.pc # "idle" /\ Effects(l, m) /\ loc'[t] = m /\ (\A u \in Threads : u # t => loc'[u] = loc[u])
    BY StepIs
  <1>2. InStep(l) /\ l.name \in Names /\ l.call.name = l.name /\ Asks(l.call) /\ l.cap \in Nat /\ l.call.size \in Nat
    BY LocIs DEF LocRecs, CallRecs, CallOK
  <1>3. \A n \in Names : DiskStep(l, m, n)
    BY <1>1 DEF Effects
  <1>4. ASSUME m # Idle PROVE On(l, m) /\ m.call = l.call /\ m.name = l.name /\ InStep(m)
    <2>1. On(l, m)
      BY <1>4, CalmStep DEF Off
    <2> QED
      BY <1>2, <2>1, OnKnown
  <1>5. ASSUME NEW n \in Names, Exists(n)' PROVE Asked(vdisk'[n].size)
    <2>1. CASE ~Exists(n)
      <3>1. vdisk'[n].size = Convert(l.cap) /\ l.pc = "mkvolume"
        BY <1>1, <1>3, <1>5, <2>1 DEF DiskStep, Effects
      <3> QED
        BY <3>1 DEF Sized
    <2>2. CASE Exists(n) /\ vdisk'[n].size = vdisk[n].size
      BY <2>2 DEF Sized
    <2>3. CASE Exists(n) /\ vdisk'[n].size # vdisk[n].size
      <3>1. l.pc = "expand" /\ n = l.name /\ vdisk'[n].size = vdisk[n].size + (Convert(l.call.size) - l.cap)
        BY <1>3, <1>5, <2>3 DEF DiskStep
      <3>2. l.call.op = "Expand" /\ l.call.size \in Sizes
        BY <1>2, <3>1 DEF InStep, Expanding, Asks
      <3>3. vdisk[n].size = l.cap
        BY <2>3, <3>1, <3>2 DEF Sized
      <3>4. Convert(l.call.size) \in Nat
        BY <1>2, ConvertIs
      <3>5. vdisk'[n].size = Convert(l.call.size)
        BY <1>2, <3>1, <3>3, <3>4
      <3> QED
        BY <3>2, <3>5 DEF Asked
    <2> QED
      BY <2>1, <2>2, <2>3
  <1>6. m.pc = "mkvolume" => Asked(Convert(m.cap))
    <2> SUFFICES ASSUME m.pc = "mkvolume" PROVE Asked(Convert(m.cap))
      OBVIOUS
    <2>1. On(l, m) /\ m.src \in Names
      BY <1>4, IdleIs DEF LocRecs
    <2>2. CASE m.cap \in {l.call.size, MinSize} /\ l.call.op = "CreateVolume"
      BY <1>2, <2>2 DEF Asks, Asked
    <2>3. CASE Exists(m.src) /\ m.cap = vdisk[m.src].size
      BY <2>1, <2>3, AskedAgain, DiskIs DEF Sized
    <2> QED
      BY <2>1, <2>2, <2>3 DEF On, Measures
  <1>7. ASSUME NEW r, NEW o \in Threads, r = loc'[o], r.call.op = "Expand",
               r.pc \in {"target", "sources", "rmmaps", "expand"}, Exists(r.name)'
        PROVE  vdisk'[r.name].size = r.cap
    <2>1. CASE o # t
      <3>1. r = loc[o] /\ r.name \in Names /\ r.call.name = r.name
        BY <1>1, <1>7, <2>1, LocIs
      <3>2. r.name # l.name
        BY <1>1, <1>2, <1>7, <2>1, <3>1 DEF Alone, Apart
      <3>3. Exists(r.name) /\ vdisk'[r.name].size = vdisk[r.name].size
        BY <1>3, <1>7, <3>1, <3>2 DEF DiskStep
      <3> QED
        BY <1>7, <3>1, <3>3 DEF Sized
    <2>2. CASE o = t
      <3>1. r = m /\ m # Idle /\ m.pc \notin {"created", "xafter"}
        BY <1>1, <1>7, <2>2, IdleIs
      <3>2. Exists(l.name) /\ vdisk'[l.name].size = vdisk[l.name].size
        BY <1>2, <1>3, <1>4, <1>7, <3>1 DEF DiskStep
      <3>3. CASE m.pc = "target"
        BY <1>4, <3>1, <3>2, <3>3 DEF On, Measures
      <3>4. CASE m.pc \in {"sources", "rmmaps", "expand"}
        <4>1. m.cap = l.cap /\ l.pc \in {"target", "sources", "rmmaps"} /\ m.call = l.call /\ m.name = l.name
          BY <1>4, <3>1, <3>4 DEF On, Measures
        <4> QED
          BY <1>7, <3>1, <3>2, <4>1 DEF Sized
      <3> QED
        BY <1>7, <3>1, <3>3, <3>4
    <2> QED
      BY <2>1, <2>2
  <1>8. ASSUME NEW o \in Threads, loc'[o].pc = "mkvolume" PROVE Asked(Convert(loc'[o].cap))
    BY <1>1, <1>6, <1>8 DEF Sized
  <1> QED
    BY <1>5, <1>7, <1>8 DEF Sized

LEMMA SizedInit == Init => Sized
  <1> SUFFICES ASSUME Init PROVE Sized
    OBVIOUS
  <1>1. \A t \in Threads : loc[t] = Idle
    BY DEF Init
  <1>2. \A n \in Names : Exists(n) => vdisk[n].size = BlockSize
    BY DEF Init, Exists
  <1>3. BlockSize = Convert(BlockSize)
    <2>1. BlockSize % BlockSize = 0
      BY ArrayAssumption
    <2> QED
      BY <2>1 DEF Convert
  <1> QED
    BY <1>1, <1>2, <1>3, IdleIs DEF Sized, Asked

LEMMA SizedNext == Calm /\ Sound /\ Alone /\ Sized /\ [Next]_vars => Sized'
  <1> SUFFICES ASSUME Calm, Sound, Alone, Sized, [Next]_vars PROVE Sized'
    OBVIOUS
  <1>1. ASSUME NEW t \in Threads, Start(t) PROVE Sized'
    <2> PICK c, m : Opens(t, c, m)
      BY <1>1, StartOpens
    <2>1. vdisk' = vdisk /\ \A n : Exists(n)' <=> Exists(n)
      BY DEF Opens, Exists
    <2>2. /\ m.pc \notin {"mkvolume", "target", "sources", "rmmaps", "expand"}
          /\ loc'[t] = m /\ \A o \in Threads : o # t => loc'[o] = loc[o]
      BY DEF Opens, Sound
    <2> QED
      BY <2>1, <2>2 DEF Sized
  <1>2. ASSUME NEW t \in Threads, Command(t) \/ CliFault(t) PROVE Sized'
    BY <1>2, CommandAdvances, AdvanceSized
  <1>3. ~Crash
    BY DEF Crash, Calm, Sound, Counted
  <1>4. CASE BackgroundCopy \/ UNCHANGED vars
    <2>1. vdisk' = vdisk /\ loc' = loc
      BY <1>4, CopyDoneMaps DEF vars, arrayVars
    <2>2. \A n : Exists(n)' <=> Exists(n)
      BY <2>1 DEF Exists
    <2> QED
      BY <2>1, <2>2 DEF Sized
  <1> QED
    BY <1>1, <1>2, <1>3, <1>4 DEF Next

-----------------------------------------------------------------------------
(***************************************************************************)
(* The theorems for calls that do not overlap.                             *)
(***************************************************************************)

Orderly == Alone /\ Copied /\ Sized

\* When calls about one name do not overlap and no command fails, what is being
\* made is the call's own, what is known stays, copies read as their sources and
\* sizes are those asked for.
THEOREM OrderlyAlways == Calm => (Spec => []Orderly)
  <1>1. Calm /\ Init => Orderly
    BY AloneInit, CopiedInit, SizedInit DEF Orderly
  <1>2. Calm /\ Sound /\ Orderly /\ [Next]_vars => Orderly'
    BY AloneNext, CopiedNext, SizedNext DEF Orderly
  <1>3. ASSUME Calm PROVE Spec => []Orderly
    <2>1. Init => Orderly
      BY <1>1, <1>3
    <2>2. Sound /\ Orderly /\ [Next]_vars => Orderly'
      BY <1>2, <1>3
    <2> QED
      BY <2>1, <2>2, SoundAlways, PTL DEF Spec
  <1> QED
    BY <1>3

LEMMA OrderlyHolds == Sound /\ Orderly => CopiedWhenOk
  <1> SUFFICES ASSUME Sound, Alone, Copied PROVE CopiedWhenOk
    BY DEF Orderly
  <1>1. ASSUME NEW a \in OkTo(Creates), a.call.op = "CreateSnapshot" \/ a.call.source # NoUid PROVE HoldsSource(a)
    <2> SUFFICES ASSUME NEW n \in Names, vdisk[n].uid = a.uid, a.uid \notin deleting
                 PROVE  vdisk[n].copyOf = a.call.source
      BY DEF HoldsSource
    <2> PICK k \in Known : k.uid = a.uid /\ k.name = a.call.name
      BY AnswerKnown
    <2>1. n = a.call.name
      BY KnownTypes, DiskIs DEF Binds
    <2>2. Holds(a)
      BY DEF Copied
    <2> QED
      BY <1>1, <2>1, <2>2 DEF Holds
  <1>2. SnapshotTaken
    BY <1>1 DEF SnapshotTaken, OkTo, Creates
  <1>3. CloneFilled
    BY <1>1 DEF CloneFilled, OkTo, Creates
  <1> QED
    BY <1>2, <1>3 DEF CopiedWhenOk

LEMMA OrderlyAgrees == Sound /\ Orderly => ArrayAgrees
  <1> SUFFICES ASSUME Sound, Alone, Copied, Sized PROVE ArrayAgrees
    BY DEF Orderly
  <1>1. TypeOK
    BY SoundTypeOK
  <1>2. AnsweredStays
    <2> SUFFICES ASSUME NEW a \in OkTo(Creates), a.uid \notin deleting PROVE NamesOf(a.uid) # {}
      BY DEF AnsweredStays
    <2> PICK k \in Known : k.uid = a.uid
      BY AnswerKnown
    <2>1. k.name \in NamesOf(a.uid)
      BY KnownTypes DEF Alone, Stays, NamesOf
    <2> QED
      BY <2>1
  <1>3. NoOrphans
    BY DEF NoOrphans, Alone, Owned, Made
  <1>4. SnapshotGone
    BY DEF SnapshotGone, Copied, Gone, Failed
  <1>5. NeverOversized
    <2> SUFFICES ASSUME NEW n \in Names, Exists(n)
                 PROVE  \E z \in Sizes \cup {MinSize, BlockSize} : vdisk[n].size <= Convert(z)
      BY DEF NeverOversized
    <2> PICK z \in Sizes \cup {MinSize, BlockSize} : vdisk[n].size = Convert(z)
      BY DEF Sized, Asked
    <2>1. vdisk[n].size <= Convert(z)
      BY DiskIs
    <2> QED
      BY <2>1
  <1> QED
    BY <1>1, <1>2, <1>3, <1>4, <1>5 DEF ArrayAgrees

\* What was answered as created from a source holds that source's data until its
\* own deletion is asked for, whatever is done to the source and to its other
\* copies, when calls about one name do not overlap and no command fails.
THEOREM CopiesHoldTheirSource == Calm => (Spec => []CopiedWhenOk)
  BY SoundAlways, OrderlyAlways, OrderlyHolds, PTL

\* The array agrees with the answers in the same case: what was answered is there,
\* what is there was answered or is being made, a deleted snapshot is gone, and no
\* expansion overshoots.
THEOREM AnswersMatchTheArray == Calm => (Spec => []ArrayAgrees)
  BY SoundAlways, OrderlyAlways, OrderlyAgrees, PTL

=============================================================================
