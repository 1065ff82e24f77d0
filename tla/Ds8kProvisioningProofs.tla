----------------------- MODULE Ds8kProvisioningProofs -----------------------
(***************************************************************************)
(* The safety of provisioning on a DS8K for any number of threads, calls,  *)
(* names, sizes, failures and restarts.                                    *)
(*                                                                         *)
(* Ids are never used again, so that the proofs go by id: Sound says what  *)
(* a running call and an answer may hold, Advance what one step of a       *)
(* thread may change (each action is shown once to be such a step), and    *)
(* the invariants above Sound follow from Advance alone.                   *)
(***************************************************************************)
EXTENDS Ds8kProvisioning, TLAPS

RPCs == Creates \cup Deletes \cup {"Expand"}

\* The steps of a call: up to the search, filling what was made, removing it.
Searching == {"lookup", "origin", "recheck", "create", "slook", "sverify", "ssource"}
Unflashed == {"readback", "findSource", "grow", "flash"}
Filling   == Unflashed \cup {"state", "withdraw", "final"}
Removing  == {"find", "ensure", "rmrels", "rmtargetrel", "rmvolume"}
Expanding == {"xlook", "extend", "xafter"}
Pcs       == {"idle", "rmtarget"} \cup Searching \cup Filling \cup Removing \cup Expanding

Sizeds     == [name : Names, size : Nat, copyOf : Nat]
CopyRecs   == [source : Ids, nocopy : BOOLEAN, state : CopyStates]
CallRecs   == [op : RPCs \cup {"none"}, name : Names, size : Nat, id : Nat, source : Nat,
               kind : {"volume", "snapshot"}]
LocRecs    == [pc : Pcs, call : CallRecs, id : Nat, size : Nat, checks : SUBSET Ids, rels : SUBSET Ids,
               target : BOOLEAN, undo : (Statuses \ {"OK"}) \cup {"none"}, tries : 0..Tries, rounds : 0..2]
AnswerRecs == [call : CallRecs, status : Statuses, id : Nat]

KnownIds == {1} \cup {a.id : a \in OkTo(Creates)}

\* A call that has made its object, and has not been answered.
Makes(l)   == l.call.op \in Creates /\ l.pc \in {"rmtarget"} \cup Filling \cup Removing
Unmarked(l) == l.call.op \in Creates /\ l.pc \in Unflashed

\* The array: the volumes so far, and relationships between those that exist.
Arrayed ==
    /\ nextId \in Nat \ {0, 1} /\ nextId <= MaxVolumes + 1
    /\ volume \in [Ids -> Sizeds \cup {NoVolume}]
    /\ flashcopy \in [Ids -> CopyRecs \cup {NoCopy}]
    /\ \A i \in Ids : Exists(i) => i < nextId /\ volume[i].copyOf \in {NoId} \cup Ids
    /\ \A i \in Ids : IsCopy(i) => Exists(i) /\ Exists(flashcopy[i].source)

\* A thread: its step is one of its call's.
InStep(l) ==
    /\ l.pc = "idle" => l = Idle
    /\ l.pc # "idle" => l.call.op # "none"
    /\ l.pc \in {"lookup", "origin", "findSource", "grow"} => l.call.op = "CreateVolume"
    /\ l.pc \in {"slook", "sverify", "ssource", "rmtarget"} => l.call.op = "CreateSnapshot"
    /\ l.pc \in Searching \cup Filling => l.call.op \in Creates /\ l.undo = "none"
    /\ l.pc \in Removing => l.call.op # "CreateSnapshot"
    /\ l.pc \in {"rmtargetrel", "rmvolume"} => l.call.op # "Expand"
    /\ l.pc \in Expanding => l.call.op = "Expand"
    /\ l.pc = "rmrels" => l.checks = {}
    /\ l.undo # "none" <=> l.pc = "rmtarget" \/ (l.pc \in Removing /\ l.call.op = "CreateVolume")

\* What it knows of the objects is true of them.
LocOK(l) ==
    /\ l \in LocRecs /\ InStep(l)
    /\ l.id < nextId /\ l.call.id \in KnownIds \cup {NoId} /\ l.call.source \in KnownIds \cup {NoId}
    /\ l.checks \subseteq l.rels
    /\ l.pc # "idle" /\ l.call.op \notin Creates => l.id = l.call.id /\ l.id # NoId
    /\ l.call.op \in Deletes => l.call.id \in deleting
    /\ Makes(l) \/ l.pc \in {"origin", "sverify"} => l.id # NoId /\ (Exists(l.id) => volume[l.id].name = l.call.name)

AnswerOK(a) ==
    /\ a \in AnswerRecs
    /\ a.status = "OK" /\ a.call.op \in Creates =>
          a.id # NoId /\ a.id < nextId /\ (Exists(a.id) => volume[a.id].name = a.call.name)
    /\ a.status = "OK" /\ a.call.op \notin Creates => a.id = a.call.id /\ a.id \in KnownIds
    /\ a.status = "OK" /\ a.call.op = "DeleteVolume" => ~Exists(a.call.id)

Counted == overlap \in BOOLEAN /\ calls \in Nat /\ faults \in Nat /\ crashes \in Nat

Sound ==
    /\ Arrayed /\ Counted
    /\ loc \in [Threads -> LocRecs]
    /\ \A t \in Threads : LocOK(loc[t])
    /\ \A a \in answers : AnswerOK(a)
    /\ deleting \subseteq KnownIds

-----------------------------------------------------------------------------
(***************************************************************************)
(* One step of a thread.                                                   *)
(***************************************************************************)

\* A relationship whose target has all its data.
Synced(r) == IsCopy(r) /\ ~flashcopy[r].nocopy /\ flashcopy[r].state = "done"
Valid(i)  == IsCopy(i) /\ flashcopy[i].state # "invalid"

\* What the request of a thread that goes from l to m does to the array.
ArrayStep(l, m) ==
    \/ m.pc = "readback" /\ l.pc = "create" /\ m.id = nextId /\ CreateVolume(l.call.name, l.size)
    \/ m.pc # "readback" /\
       \/ UNCHANGED arrayVars
       \/ /\ l.pc \in {"grow", "extend"} /\ Exists(l.id)
          /\ \E z \in {l.size, l.call.size} : z > volume[l.id].size /\ ExtendVolume(l.id, z)
       \/ /\ l.pc = "flash" /\ m.pc = "state" /\ Exists(l.call.source) /\ Exists(l.id) /\ ~IsCopy(l.id)
          /\ \E nocopy \in BOOLEAN : CreateFlashcopy(l.call.source, l.id, nocopy)
       \/ l.pc \in {"withdraw", "rmtargetrel"} /\ IsCopy(l.id) /\ DeleteFlashcopy(l.id)
       \/ l.pc = "rmrels" /\ \E r \in l.rels : IsCopy(r) /\ DeleteFlashcopy(r)
       \/ l.pc \in {"rmtarget", "rmvolume"} /\ Free(l.id) /\ DeleteVolume(l.id)
       \/ l.pc = "state" /\ faults' > faults /\ m = l /\ CopyFails(l.id)

\* The call goes on.
Goes(l, m) ==
    /\ m \in LocRecs /\ InStep(m) /\ m.pc # "idle" /\ m.call = l.call /\ m.checks \subseteq m.rels
    /\ m.pc \in {"origin", "sverify"} => m.id \in Named(l.call.name)
    /\ m.pc \notin {"origin", "sverify", "readback"} => m.id = l.id
    /\ Makes(m) <=> Makes(l) \/ m.pc = "readback"
    /\ m.pc \in Unflashed => l.pc \in Unflashed \/ m.pc = "readback"
    /\ m.pc = "final" => l.pc = "state" /\ Valid(l.id)
    /\ m.pc = "withdraw" => l.pc = "state" /\ IsCopy(l.id) /\ ~Valid(l.id)
    /\ m.pc = "xafter" => l.pc = "extend" /\ (\/ faults' > faults \/ l.id \in refused'
                                             \/ volume'[l.id].size >= l.call.size)
    /\ m.pc \in {"ensure", "rmrels", "rmtargetrel"} =>
          l.pc \in {"ensure", "rmrels"} \/ (l.pc = "find" /\ FlashcopiesOf(l.id) # {})
    /\ \A r \in m.rels \ m.checks : r \in l.rels \ l.checks \/ Synced(r)
    /\ l.undo = "none" /\ m.undo # "none" /\ faults' = faults => l.pc \in Unflashed \/ ~IsCopy(l.id)'
    /\ l.pc \in {"state", "withdraw"} /\ faults' = faults => m.pc \in {"withdraw", "final"} \/ ~IsCopy(l.id)'

\* The call ends: when with OK, and when without having removed what it has made.
Ends(l, status, i) ==
    /\ status = "OK" => i = l.id /\ l.undo = "none"
    /\ status = "OK" /\ l.call.op \in Creates =>
          \/ l.pc = "readback" /\ l.call.source = NoId
          \/ l.pc = "final"
          \/ l.pc \in {"origin", "sverify"} /\ CopySource(l.id) = l.call.source
    /\ status = "OK" /\ l.call.op = "DeleteVolume" => ~Exists(l.id)'
    /\ status = "OK" /\ l.call.op = "Expand" => volume[l.id].size >= l.call.size \/ l.pc = "xafter"
    /\ l.pc \in {"state", "withdraw"} /\ faults' = faults => ~IsCopy(l.id)'
    /\ status # "OK" /\ Makes(l) /\ faults' = faults =>
          \/ ~Exists(l.id)'
          \/ l.call.op = "CreateSnapshot" /\ status = "INTERNAL"
          \/ l.pc \in {"ensure", "rmrels", "rmtargetrel"}
          \/ l.pc \in {"rmvolume", "rmtarget"} /\ ~Free(l.id)

Step(t, l, m) ==
    /\ l.pc # "idle" /\ loc' = [loc EXCEPT ![t] = m]
    /\ UNCHANGED <<deleting, overlap, calls, crashes>>
    /\ faults' \in {faults, faults + 1} /\ refused \subseteq refused'
    /\ ArrayStep(l, m)
    /\ \/ Goes(l, m) /\ UNCHANGED answers
       \/ /\ m = Idle
          /\ \E status \in Statuses, i \in {NoId, l.id} :
                /\ answers' = answers \cup {[call |-> l.call, status |-> status, id |-> i]}
                /\ Ends(l, status, i)

Advance(t) == \E l, m \in LocRecs : l = loc[t] /\ Step(t, l, m)

-----------------------------------------------------------------------------
(***************************************************************************)
(* The invariants above Sound.                                             *)
(***************************************************************************)

\* Whose data a volume reads as, and what a relationship copies.
Reads == \A i \in Ids : IsCopy(i) =>
            /\ flashcopy[i].source \in KnownIds
            /\ Valid(i) => volume[i].copyOf = flashcopy[i].source

\* A volume whose relationship may go: nobody is about to make it a target.
Filled(r) == /\ r < nextId /\ (IsCopy(r) => Synced(r))
             /\ \A o \in Threads : Unmarked(loc[o]) => loc[o].id # r

\* A volume has one maker; it is no target before its maker makes it one, and
\* no other call removes a relationship whose target is not filled.
LocOwns(l) ==
    /\ Unmarked(l) => ~IsCopy(l.id)
    /\ Makes(l) /\ IsCopy(l.id) => flashcopy[l.id].source = l.call.source
    /\ \A r \in l.rels \ l.checks : Filled(r)

Owned == /\ Reads
         /\ \A t \in Threads : LocOwns(loc[t])
         /\ \A t, o \in Threads : t # o /\ Makes(loc[t]) /\ Makes(loc[o]) => loc[t].id # loc[o].id

\* Calls that do not overlap: what is being made is known to nobody else.
Apart   == \A t, o \in Threads : t # o /\ loc[t].pc # "idle" /\ loc[o].pc # "idle" =>
              loc[t].call.name # loc[o].call.name
Unfound == \A t, o \in Threads : t # o /\ Makes(loc[t]) /\ loc[o].pc \in {"origin", "sverify"} =>
              loc[t].id # loc[o].id
Untold  == \A t \in Threads : Makes(loc[t]) => loc[t].id \notin KnownIds
ReadsSource == \A t \in Threads : loc[t].pc = "final" /\ Exists(loc[t].id) =>
              volume[loc[t].id].copyOf = loc[t].call.source

Alone == ~overlap => Apart /\ Unfound /\ Untold /\ ReadsSource

\* A relationship that is not valid is about to be withdrawn.
Copied ==
    ~overlap /\ faults + crashes <= 1 =>
        /\ \A i \in Ids : IsCopy(i) /\ ~Valid(i) =>
              faults = 1 /\ \E t \in Threads : loc[t].pc \in {"state", "withdraw"} /\ loc[t].id = i
        /\ \A a \in OkTo(Creates) : a.call.source # NoId /\ Exists(a.id) /\ a.id \notin deleting =>
              volume[a.id].copyOf = a.call.source

\* Without failures a rollback finds its volume free, and every volume is known,
\* being made, or one a snapshot was not made of.
Unbound(l) == l.undo # "none" => l.pc \notin {"ensure", "rmrels", "rmtargetrel"} /\ ~IsCopy(l.id)

Accounted(i) ==
    \/ i \in KnownIds
    \/ \E t \in Threads : Makes(loc[t]) /\ loc[t].id = i
    \/ \E a \in answers : /\ a.call.op = "CreateSnapshot" /\ a.status = "INTERNAL"
                          /\ a.call.name = volume[i].name

Clean ==
    ~overlap /\ faults = 0 /\ crashes = 0 =>
        /\ \A t \in Threads : Unbound(loc[t])
        /\ \A i \in Ids : Exists(i) => Accounted(i)

\* Expanded volumes have their size.
Grown ==
    faults = 0 =>
        /\ \A t \in Threads : loc[t].pc = "xafter" /\ Exists(loc[t].id) /\ loc[t].id \notin refused =>
              volume[loc[t].id].size >= loc[t].call.size
        /\ ExpandedWhenOk

-----------------------------------------------------------------------------
(***************************************************************************)
(* Each action is such a step.                                             *)
(***************************************************************************)

\* What the handlers and the array leave alone.
Steady(l) == /\ l.pc # "idle" /\ UNCHANGED <<deleting, overlap, calls, crashes>>
             /\ faults' \in {faults, faults + 1} /\ refused \subseteq refused'

LEMMA IdleIs ==
  /\ Idle \in LocRecs /\ NoCall \in CallRecs /\ NoCall.op = "none" /\ Idle.pc = "idle" /\ Idle.call = NoCall
  /\ Idle.id = NoId /\ Idle.checks = {} /\ Idle.rels = {} /\ Idle.undo = "none"
  <1>1. NoCall \in CallRecs
    BY ProvisioningAssumption DEF NoCall, CallRecs, NoId
  <1>2. 0 \in 0..Tries
    BY ProvisioningAssumption
  <1> QED
    BY <1>1, <1>2 DEF Idle, LocRecs, Pcs, NoId, NoCall

\* The array does not tell the end of a call from its going on.
LEMMA ArrayStepOn ==
  ASSUME NEW l, l.pc # "idle", NEW m, m.pc # "readback", ArrayStep(l, Idle)
  PROVE  ArrayStep(l, m)
  <1>1. l # Idle
    BY IdleIs
  <1> QED
    BY <1>1, IdleIs DEF ArrayStep

LEMMA GoesOn ==
  ASSUME Sound, NEW t \in Threads, NEW l, l = loc[t], Steady(l),
         NEW m, Then(t, m), Goes(l, m), ArrayStep(l, m)
  PROVE  Advance(t)
  <1>1. m \in LocRecs /\ l \in LocRecs
    BY DEF Goes, Sound
  <1>2. Step(t, l, m)
    BY DEF Step, Then, Go, Steady
  <1> QED
    BY <1>1, <1>2 DEF Advance

LEMMA EndsNow ==
  ASSUME Sound, NEW t \in Threads, NEW l, l = loc[t], Steady(l),
         NEW status \in Statuses, NEW i \in {NoId, l.id},
         Reply(t, status, i), Ends(l, status, i), ArrayStep(l, Idle)
  PROVE  Advance(t)
  <1>1. Step(t, l, Idle)
    BY DEF Step, Reply, Go, Steady
  <1>2. l \in LocRecs
    BY DEF Sound
  <1> QED
    BY <1>1, <1>2, IdleIs DEF Advance

\* The facts about a thread that its steps need.
LEMMA LocIs ==
  ASSUME Sound, NEW t \in Threads
  PROVE  /\ loc[t] \in LocRecs /\ InStep(loc[t]) /\ loc[t].checks \subseteq loc[t].rels
         /\ loc[t].pc # "idle" /\ loc[t].call.op \notin Creates => loc[t].id = loc[t].call.id
         /\ loc[t].call.op \in Deletes => loc[t].call.id \in deleting
         /\ Makes(loc[t]) => loc[t].id # NoId
         /\ loc[t].pc \in Pcs /\ loc[t].call.op \in RPCs \cup {"none"} /\ loc[t].id \in Nat
         /\ loc[t].size \in Nat /\ loc[t].call \in CallRecs
  BY DEF Sound, LocOK, LocRecs, CallRecs

\* A rollback, and a try or a round of it.
RollsBack(l, m) == /\ m \in LocRecs /\ m.pc = "find" /\ m.undo # "none" /\ m.call = l.call
                   /\ m.id = l.id /\ m.checks = l.checks /\ m.rels = l.rels

LEMMA UndoGoes ==
  ASSUME NEW l \in LocRecs, InStep(l), l.checks \subseteq l.rels, Makes(l), l.call.op = "CreateVolume",
         NEW m, RollsBack(l, m),
         l.undo = "none" /\ faults' = faults => l.pc \in Unflashed \/ ~IsCopy(l.id)'
  PROVE  Goes(l, m) /\ m.pc # "readback"
  BY DEF RollsBack, Goes, InStep, Makes, Creates, Searching, Filling, Removing, Expanding, Unflashed

LEMMA UndoIs ==
  ASSUME NEW l \in LocRecs, NEW status \in Statuses \ {"OK"}, NEW rounds \in 0..2
  PROVE  RollsBack(l, Undo(l, status, rounds))
  <1>1. Tries \in 0..Tries /\ status # "none"
    BY ProvisioningAssumption DEF Statuses
  <1> QED
    BY <1>1 DEF RollsBack, Undo, LocRecs, Pcs, Removing

LEMMA UndoNextAdvances ==
  ASSUME Sound, NEW t \in Threads, NEW l, l = loc[t], Steady(l), l.undo # "none", l.pc \in Removing,
         NEW ok \in BOOLEAN, NEW status, ok \/ status \in Statuses \ {"OK"}, UndoNext(t, ok, status),
         ArrayStep(l, Idle), \A st \in Statuses \ {"OK"} : Ends(l, st, NoId)
  PROVE  Advance(t)
  <1>1. /\ l \in LocRecs /\ InStep(l) /\ l.checks \subseteq l.rels
        /\ l.undo \in Statuses \ {"OK"} /\ l.tries \in 0..Tries /\ l.rounds \in 0..2
    BY LocIs DEF LocRecs
  <1>2. l.call.op = "CreateVolume" /\ Makes(l)
    BY <1>1 DEF InStep, Removing, Makes, Creates
  <1> DEFINE end == IF ok THEN l.undo ELSE status
  <1>3. end \in Statuses \ {"OK"}
    BY <1>1
  <1>4. CASE ~ok /\ l.tries > 1
    <2> PICK m : m = [l EXCEPT !.pc = "find", !.tries = l.tries - 1]
      OBVIOUS
    <2>1. Then(t, m)
      BY <1>4 DEF UndoNext
    <2>2. l.tries - 1 \in 0..Tries
      BY <1>1, <1>4, ProvisioningAssumption
    <2>3. RollsBack(l, m)
      BY <2>2, <1>1 DEF RollsBack, LocRecs, Pcs, Removing
    <2>4. Goes(l, m) /\ ArrayStep(l, m)
      BY <1>1, <1>2, <2>3, UndoGoes, ArrayStepOn DEF Steady
    <2> QED
      BY <2>1, <2>4, GoesOn
  <1>5. CASE ~(~ok /\ l.tries > 1) /\ l.rounds > 1
    <2>1. l.rounds - 1 \in 0..2
      BY <1>1, <1>5
    <2> PICK m : m = Undo(l, end, l.rounds - 1)
      OBVIOUS
    <2>2. Then(t, m)
      BY <1>5 DEF UndoNext
    <2> HIDE DEF end
    <2>3. RollsBack(l, m)
      BY <2>1, <1>1, <1>3, UndoIs
    <2>4. Goes(l, m) /\ ArrayStep(l, m)
      BY <1>1, <1>2, <2>3, UndoGoes, ArrayStepOn DEF Steady
    <2> QED
      BY <2>2, <2>4, GoesOn
  <1>6. CASE ~(~ok /\ l.tries > 1) /\ ~(l.rounds > 1)
    <2>1. Reply(t, end, NoId)
      BY <1>6 DEF UndoNext
    <2> HIDE DEF end
    <2> QED
      BY <2>1, <1>3, EndsNow
  <1> QED
    BY <1>4, <1>5, <1>6

LEMMA RaiseAdvances ==
  ASSUME Sound, NEW t \in Threads, NEW l, l = loc[t], Steady(l), l.undo = "none" \/ l.pc \in Removing,
         NEW status \in Statuses \ {"OK"}, Raise(t, status),
         ArrayStep(l, Idle), \A st \in Statuses \ {"OK"} : Ends(l, st, NoId)
  PROVE  Advance(t)
  <1>1. CASE l.undo = "none"
    <2>1. Reply(t, status, NoId)
      BY <1>1 DEF Raise
    <2> QED
      BY <2>1, EndsNow
  <1>2. CASE l.undo # "none"
    <2>1. UndoNext(t, FALSE, status)
      BY <1>2 DEF Raise
    <2> QED
      BY <2>1, <1>2, UndoNextAdvances
  <1> QED
    BY <1>1, <1>2

\* A rollback begins.
LEMMA UndoAdvances ==
  ASSUME Sound, NEW t \in Threads, NEW l, l = loc[t], Steady(l), l.pc \in Filling,
         l.call.op = "CreateVolume", NEW status \in Statuses \ {"OK"}, NEW rounds \in 0..2,
         Then(t, Undo(l, status, rounds)), ArrayStep(l, Idle),
         faults' = faults => l.pc \in Unflashed \/ ~IsCopy(l.id)'
  PROVE  Advance(t)
  <1>1. l \in LocRecs /\ InStep(l) /\ l.checks \subseteq l.rels /\ Makes(l)
    BY LocIs DEF Makes, Creates
  <1> PICK m : m = Undo(l, status, rounds)
    OBVIOUS
  <1>2. RollsBack(l, m)
    BY <1>1, UndoIs
  <1>3. Goes(l, m) /\ ArrayStep(l, m)
    BY <1>1, <1>2, UndoGoes, ArrayStepOn DEF Steady
  <1> QED
    BY <1>3, GoesOn

LEMMA RaiseInCopyAdvances ==
  ASSUME Sound, NEW t \in Threads, NEW l, l = loc[t], Steady(l), l.pc \in Filling,
         NEW status \in Statuses \ {"OK"}, RaiseInCopy(t, status), ArrayStep(l, Idle),
         status = "INTERNAL" \/ l.call.op = "CreateVolume",
         faults' = faults => l.pc \in Unflashed \/ ~IsCopy(l.id)'
  PROVE  Advance(t)
  <1>1. l.call.op \in Creates
    BY LocIs DEF InStep
  <1>2. CASE l.call.op = "CreateVolume"
    <2>1. Then(t, Undo(l, status, 1))
      BY <1>2 DEF RaiseInCopy
    <2> QED
      BY <1>2, <2>1, UndoAdvances
  <1>3. CASE l.call.op # "CreateVolume"
    <2>1. Reply(t, status, NoId)
      BY <1>3 DEF RaiseInCopy
    <2>2. Ends(l, status, NoId)
      BY <1>1, <1>3 DEF Ends, Creates, Unflashed
    <2> QED
      BY <2>1, <2>2, EndsNow
  <1> QED
    BY <1>2, <1>3

\* The volume of a snapshot is to be deleted.
LEMMA RaiseAndRemoveAdvances ==
  ASSUME Sound, NEW t \in Threads, NEW l, l = loc[t], Steady(l), l.pc \in {"flash", "final"},
         NEW status \in {"NOT_FOUND", "ALREADY_EXISTS"}, RaiseAndRemove(t, status), ArrayStep(l, Idle),
         faults' = faults => l.pc \in Unflashed \/ ~IsCopy(l.id)'
  PROVE  Advance(t)
  <1>1. l \in LocRecs /\ InStep(l) /\ l.checks \subseteq l.rels /\ l.call.op \in Creates /\ Makes(l)
    BY LocIs DEF InStep, Makes, Filling, Unflashed
  <1>2. CASE l.call.op = "CreateVolume"
    <2>1. Then(t, Undo(l, IF status = "NOT_FOUND" THEN status ELSE "INTERNAL", 1))
      BY <1>2 DEF RaiseAndRemove
    <2>2. (IF status = "NOT_FOUND" THEN status ELSE "INTERNAL") \in Statuses \ {"OK"}
      BY DEF Statuses
    <2>3. l.pc \in Filling
      BY DEF Filling, Unflashed
    <2> QED
      BY <1>2, <2>1, <2>2, <2>3, UndoAdvances
  <1>3. CASE l.call.op = "CreateSnapshot"
    <2> DEFINE m == [l EXCEPT !.pc = "rmtarget", !.undo = status, !.tries = Tries]
    <2>1. Then(t, m)
      BY <1>3 DEF RaiseAndRemove
    <2>2. /\ m \in LocRecs /\ m.pc = "rmtarget" /\ m.undo = status /\ m.call = l.call /\ m.id = l.id
          /\ m.checks = l.checks /\ m.rels = l.rels
      <3>1. Tries \in 0..Tries
        BY ProvisioningAssumption
      <3> QED
        BY <3>1, <1>1 DEF LocRecs, Pcs, Statuses
    <2> HIDE DEF m
    <2>3. Goes(l, m)
      BY <1>1, <1>3, <2>2 DEF Goes, InStep, Makes, Creates, Searching, Filling, Removing, Expanding, Unflashed
    <2>4. ArrayStep(l, m)
      BY <2>2, ArrayStepOn DEF Steady
    <2> QED
      BY <2>1, <2>3, <2>4, GoesOn
  <1> QED
    BY <1>1, <1>2, <1>3 DEF Creates

\* A request that only reads.
LEMMA ReadsOnly ==
  ASSUME Sound, NEW t \in Threads, loc[t].pc # "idle", ReadOnly
  PROVE  /\ Steady(loc[t]) /\ ArrayStep(loc[t], Idle) /\ faults' = faults
         /\ \A m : m.pc # "readback" => ArrayStep(loc[t], m)
         /\ \A i : Exists(i)' <=> Exists(i)
         /\ \A i \in Ids : IsCopy(i)' <=> IsCopy(i)
  <1>1. UNCHANGED arrayVars /\ faults' = faults /\ UNCHANGED bounds
    BY DEF ReadOnly, bounds
  <1>2. Steady(loc[t])
    BY <1>1 DEF Steady, bounds
  <1>3. \A m : m.pc # "readback" => ArrayStep(loc[t], m)
    BY <1>1 DEF ArrayStep
  <1>4. \A i : Exists(i)' <=> Exists(i)
    BY <1>1 DEF Exists, arrayVars
  <1>5. \A i \in Ids : IsCopy(i)' <=> IsCopy(i)
    BY <1>1 DEF IsCopy, arrayVars
  <1> QED
    BY <1>1, <1>2, <1>3, <1>4, <1>5, IdleIs

\* A call that fails before it has made anything.
LEMMA EndsEarly ==
  ASSUME Sound, NEW t \in Threads, Steady(loc[t]), ArrayStep(loc[t], Idle), ~Makes(loc[t]),
         NEW status \in Statuses \ {"OK"}, Reply(t, status, NoId)
  PROVE  Advance(t)
  <1> PICK l : l = loc[t]
    OBVIOUS
  <1>1. l.pc \notin {"state", "withdraw"}
    BY LocIs DEF InStep, Makes, Filling
  <1>2. Ends(l, status, NoId)
    BY <1>1 DEF Ends
  <1> QED
    BY <1>2, EndsNow

LEMMA LookupAdvances ==
  ASSUME Sound, NEW t \in Threads, Lookup(t)
  PROVE  Advance(t)
  <1> PICK l : l = loc[t]
    OBVIOUS
  <1>1. l.pc = "lookup" /\ ReadOnly
    BY DEF Lookup
  <1>2. /\ l \in LocRecs /\ InStep(l) /\ l.checks \subseteq l.rels /\ l.call.op = "CreateVolume"
        /\ Steady(l) /\ ArrayStep(l, Idle) /\ \A m : m.pc # "readback" => ArrayStep(l, m)
    BY <1>1, LocIs, ReadsOnly DEF InStep
  <1>3. CASE Reply(t, "OUT_OF_RANGE", NoId)
    BY <1>1, <1>2, <1>3, EndsEarly DEF Statuses, Makes, Filling, Removing, Unflashed
  <1>4. CASE Then(t, [l EXCEPT !.pc = "recheck",
                               !.size = IF l.call.size = 0 THEN MinSize ELSE l.call.size])
    <2> PICK m : m = [l EXCEPT !.pc = "recheck", !.size = IF l.call.size = 0 THEN MinSize ELSE l.call.size]
      OBVIOUS
    <2>1. l.call.size \in Nat /\ MinSize \in Nat
      BY <1>2, ProvisioningAssumption DEF LocRecs, CallRecs
    <2>2. /\ m \in LocRecs /\ m.pc = "recheck" /\ m.call = l.call /\ m.id = l.id
          /\ m.checks = l.checks /\ m.rels = l.rels /\ m.undo = l.undo
      <3>1. "recheck" \in Pcs
        BY DEF Pcs, Searching
      <3>2. m \in LocRecs
        BY <1>2, <2>1, <3>1 DEF LocRecs
      <3>3. m.pc = "recheck" /\ m.call = l.call /\ m.id = l.id
        BY <1>2 DEF LocRecs
      <3>4. m.checks = l.checks /\ m.rels = l.rels /\ m.undo = l.undo
        BY <1>2 DEF LocRecs
      <3> QED
        BY <3>2, <3>3, <3>4
    <2>3. Goes(l, m)
      BY <1>1, <1>2, <2>2
      DEF Goes, InStep, Makes, Creates, Searching, Filling, Removing, Expanding, Unflashed
    <2> QED
      BY <1>2, <1>4, <2>2, <2>3, GoesOn
  <1>5. CASE \E i \in Named(l.call.name) : Then(t, [l EXCEPT !.pc = "origin", !.id = i, !.size = volume[i].size])
    <2> PICK i \in Named(l.call.name) : Then(t, [l EXCEPT !.pc = "origin", !.id = i, !.size = volume[i].size])
      BY <1>5
    <2> PICK m : m = [l EXCEPT !.pc = "origin", !.id = i, !.size = volume[i].size]
      OBVIOUS
    <2>1. i \in Nat /\ volume[i].size \in Nat
      BY ArrayAssumption DEF Named, Exists, Ids, Sound, Arrayed, Sizeds
    <2>2. /\ m \in LocRecs /\ m.pc = "origin" /\ m.call = l.call /\ m.id = i
          /\ m.checks = l.checks /\ m.rels = l.rels /\ m.undo = l.undo
      BY <1>2, <2>1 DEF LocRecs, Pcs, Searching
    <2>3. Goes(l, m)
      BY <1>1, <1>2, <2>2
      DEF Goes, InStep, Makes, Creates, Searching, Filling, Removing, Expanding, Unflashed
    <2> QED
      BY <1>2, <2>2, <2>3, GoesOn
  <1> QED
    BY <1>3, <1>4, <1>5 DEF Lookup

LEMMA OriginAdvances ==
  ASSUME Sound, NEW t \in Threads, Origin(t)
  PROVE  Advance(t)
  <1> PICK l : l = loc[t]
    OBVIOUS
  <1>1. l.pc = "origin" /\ ReadOnly
    BY DEF Origin
  <1>2. /\ l \in LocRecs /\ InStep(l) /\ l.call.op = "CreateVolume" /\ l.undo = "none" /\ ~Makes(l)
        /\ Steady(l) /\ ArrayStep(l, Idle)
    BY <1>1, LocIs, ReadsOnly DEF InStep, Searching, Makes, Filling, Removing, Unflashed
  <1>3. CASE Reply(t, "ALREADY_EXISTS", NoId)
    BY <1>2, <1>3, EndsEarly DEF Statuses
  <1>4. CASE CopySource(l.id) = l.call.source /\ Reply(t, "OK", l.id)
    <2>1. Ends(l, "OK", l.id)
      BY <1>1, <1>2, <1>4 DEF Ends
    <2> QED
      BY <1>2, <1>4, <2>1, EndsNow DEF Statuses
  <1> QED
    BY <1>3, <1>4 DEF Origin

\* A thread that goes to its next request as it is.
Keeps(l, m, pc) == /\ m \in LocRecs /\ m.pc = pc /\ m.call = l.call /\ m.id = l.id
                   /\ m.checks = l.checks /\ m.rels = l.rels /\ m.undo = l.undo

LEMMA ToIs ==
  ASSUME NEW l \in LocRecs, NEW pc \in Pcs
  PROVE  Keeps(l, [l EXCEPT !.pc = pc], pc)
  BY DEF Keeps, LocRecs

LEMMA RecheckAdvances ==
  ASSUME Sound, NEW t \in Threads, Recheck(t)
  PROVE  Advance(t)
  <1> PICK l : l = loc[t]
    OBVIOUS
  <1>1. l.pc = "recheck" /\ ReadOnly
    BY DEF Recheck
  <1>2. /\ l \in LocRecs /\ InStep(l) /\ l.checks \subseteq l.rels /\ ~Makes(l) /\ l.call.op \in Creates
        /\ Steady(l) /\ ArrayStep(l, Idle) /\ \A m : m.pc # "readback" => ArrayStep(l, m)
    BY <1>1, LocIs, ReadsOnly DEF InStep, Searching, Makes, Filling, Removing, Unflashed
  <1>3. CASE To(t, "create")
    <2> PICK m : m = [l EXCEPT !.pc = "create"]
      OBVIOUS
    <2>1. Keeps(l, m, "create") /\ Then(t, m)
      BY <1>2, <1>3, ToIs DEF To, Pcs, Searching
    <2>2. Goes(l, m)
      BY <1>1, <1>2, <2>1
      DEF Keeps, Goes, InStep, Makes, Creates, Searching, Filling, Removing, Expanding, Unflashed
    <2> QED
      BY <1>2, <2>1, <2>2, GoesOn DEF Keeps
  <1>4. CASE \E status \in {"ALREADY_EXISTS", "INTERNAL"} : Reply(t, status, NoId)
    BY <1>2, <1>4, EndsEarly DEF Statuses
  <1> QED
    BY <1>3, <1>4 DEF Recheck

LEMMA CreateAdvances ==
  ASSUME Sound, NEW t \in Threads, Create(t)
  PROVE  Advance(t)
  <1> PICK l : l = loc[t]
    OBVIOUS
  <1>1. /\ l.pc = "create" /\ CreateVolume(l.call.name, l.size) /\ UNCHANGED bounds
        /\ Then(t, [l EXCEPT !.pc = "readback", !.id = nextId])
    BY DEF Create
  <1>2. /\ l \in LocRecs /\ InStep(l) /\ l.checks \subseteq l.rels /\ l.call.op \in Creates /\ Steady(l)
    BY <1>1, LocIs DEF InStep, Searching, Steady, bounds
  <1> PICK m : m = [l EXCEPT !.pc = "readback", !.id = nextId]
    OBVIOUS
  <1>3. /\ m \in LocRecs /\ m.pc = "readback" /\ m.call = l.call /\ m.id = nextId
        /\ m.checks = l.checks /\ m.rels = l.rels /\ m.undo = l.undo
    <2>1. nextId \in Nat
      BY DEF Sound, Arrayed
    <2> QED
      BY <1>2, <2>1 DEF LocRecs, Pcs, Filling, Unflashed
  <1>4. Goes(l, m)
    BY <1>1, <1>2, <1>3 DEF Goes, InStep, Makes, Creates, Searching, Filling, Removing, Expanding, Unflashed
  <1>5. ArrayStep(l, m)
    BY <1>1, <1>3 DEF ArrayStep
  <1> QED
    BY <1>1, <1>2, <1>4, <1>5, GoesOn

LEMMA ReadBackAdvances ==
  ASSUME Sound, NEW t \in Threads, ReadBack(t)
  PROVE  Advance(t)
  <1> PICK l : l = loc[t]
    OBVIOUS
  <1>1. l.pc = "readback" /\ ReadOnly
    BY DEF ReadBack
  <1>2. /\ l \in LocRecs /\ InStep(l) /\ l.checks \subseteq l.rels /\ l.call.op \in Creates /\ l.undo = "none"
        /\ Steady(l) /\ ArrayStep(l, Idle) /\ \A m : m.pc # "readback" => ArrayStep(l, m)
        /\ \A i : Exists(i)' <=> Exists(i)
    BY <1>1, LocIs, ReadsOnly DEF InStep, Filling, Unflashed
  <1>3. CASE ~Exists(l.id) /\ \E status \in {"INVALID_ARGUMENT", "INTERNAL"} : Reply(t, status, NoId)
    <2> PICK status \in {"INVALID_ARGUMENT", "INTERNAL"} : Reply(t, status, NoId)
      BY <1>3
    <2>1. Ends(l, status, NoId)
      <3>1. ~Exists(l.id)'
        BY <1>2, <1>3
      <3> QED
        BY <1>1, <3>1 DEF Ends
    <2> QED
      BY <1>2, <2>1, EndsNow DEF Statuses
  <1>4. CASE l.call.op = "CreateVolume" /\ l.call.source = NoId /\ Reply(t, "OK", l.id)
    <2>1. Ends(l, "OK", l.id)
      BY <1>1, <1>2, <1>4 DEF Ends, Creates
    <2> QED
      BY <1>2, <1>4, <2>1, EndsNow DEF Statuses
  <1>5. CASE \/ l.call.op = "CreateVolume" /\ To(t, "findSource")
             \/ l.call.op = "CreateSnapshot" /\ To(t, "flash")
    <2> PICK pc \in {"findSource", "flash"} : To(t, pc) /\ (pc = "findSource" => l.call.op = "CreateVolume")
      BY <1>5
    <2> PICK m : m = [l EXCEPT !.pc = pc]
      OBVIOUS
    <2>1. Keeps(l, m, pc) /\ Then(t, m)
      BY <1>2, ToIs DEF To, Pcs, Filling, Unflashed
    <2>2. Goes(l, m)
      BY <1>1, <1>2, <2>1
      DEF Keeps, Goes, InStep, Makes, Creates, Searching, Filling, Removing, Expanding, Unflashed
    <2> QED
      BY <1>2, <2>1, <2>2, GoesOn DEF Keeps
  <1> QED
    BY <1>3, <1>4, <1>5 DEF ReadBack

\* What a call has made, or was asked to work on, is an id of the array.
LEMMA IdIs ==
  ASSUME Sound, NEW t \in Threads, loc[t].id # NoId
  PROVE  loc[t].id \in Ids
  <1>1. loc[t].id \in Nat /\ loc[t].id < nextId /\ nextId \in Nat /\ nextId <= MaxVolumes + 1
    BY LocIs DEF Sound, LocOK, Arrayed
  <1> QED
    BY <1>1, ArrayAssumption DEF NoId, Ids

LEMMA FindSourceAdvances ==
  ASSUME Sound, NEW t \in Threads, FindSource(t)
  PROVE  Advance(t)
  <1> PICK l : l = loc[t]
    OBVIOUS
  <1> PICK s : s = l.call.source
    OBVIOUS
  <1>1. l.pc = "findSource" /\ ReadOnly
    BY DEF FindSource
  <1>2. /\ l \in LocRecs /\ InStep(l) /\ l.checks \subseteq l.rels /\ l.call.op = "CreateVolume"
        /\ l.pc \in Filling \cap Unflashed
        /\ Steady(l) /\ ArrayStep(l, Idle) /\ \A m : m.pc # "readback" => ArrayStep(l, m)
    BY <1>1, LocIs, ReadsOnly DEF InStep, Filling, Unflashed
  <1>3. CASE ~Exists(s)
    <2>1. Then(t, Undo(l, "NOT_FOUND", 2))
      BY <1>3 DEF FindSource
    <2> QED
      BY <1>2, <2>1, UndoAdvances DEF Statuses
  <1>4. CASE Exists(s) /\ l.call.kind = "snapshot" /\ ~IsSnapshot(s)
    <2>1. Then(t, Undo(l, "INVALID_ARGUMENT", 1))
      BY <1>4 DEF FindSource
    <2> QED
      BY <1>2, <2>1, UndoAdvances DEF Statuses
  <1>5. CASE Exists(s) /\ ~(l.call.kind = "snapshot" /\ ~IsSnapshot(s))
    <2> PICK pc \in {"grow", "flash"} : pc = IF l.size < volume[s].size THEN "grow" ELSE "flash"
      OBVIOUS
    <2> PICK m : m = [l EXCEPT !.pc = pc, !.size = volume[s].size]
      OBVIOUS
    <2>1. volume[s].size \in Nat
      BY <1>5 DEF Exists, Sound, Arrayed, Sizeds
    <2>2. Keeps(l, m, pc)
      BY <1>2, <2>1 DEF Keeps, LocRecs, Pcs, Filling, Unflashed
    <2>3. Then(t, m)
      BY <1>5 DEF FindSource
    <2>4. Goes(l, m)
      BY <1>1, <1>2, <2>2
      DEF Keeps, Goes, InStep, Makes, Creates, Searching, Filling, Removing, Expanding, Unflashed
    <2> QED
      BY <1>2, <2>2, <2>3, <2>4, GoesOn DEF Keeps
  <1> QED
    BY <1>3, <1>4, <1>5

LEMMA GrowAdvances ==
  ASSUME Sound, NEW t \in Threads, Grow(t)
  PROVE  Advance(t)
  <1> PICK l : l = loc[t]
    OBVIOUS
  <1>1. l.pc = "grow" /\ UNCHANGED bounds
    BY DEF Grow
  <1>2. /\ l \in LocRecs /\ InStep(l) /\ l.checks \subseteq l.rels /\ l.call.op = "CreateVolume"
        /\ l.pc \in Filling \cap Unflashed /\ Steady(l)
    BY <1>1, LocIs DEF InStep, Filling, Unflashed, Steady, bounds
  <1>3. CASE UNCHANGED arrayVars /\ RaiseInCopy(t, "NOT_FOUND")
    <2>1. ArrayStep(l, Idle)
      BY <1>1, <1>3, ReadsOnly DEF ReadOnly
    <2> QED
      BY <1>2, <1>3, <2>1, RaiseInCopyAdvances DEF Statuses
  <1>4. CASE To(t, "flash") /\ (\/ UNCHANGED arrayVars
                                \/ /\ Free(l.id) /\ volume[l.id].size < l.size
                                   /\ ExtendVolume(l.id, l.size))
    <2> PICK m : m = [l EXCEPT !.pc = "flash"]
      OBVIOUS
    <2>1. Keeps(l, m, "flash") /\ Then(t, m)
      BY <1>2, <1>4, ToIs DEF To, Pcs, Filling, Unflashed
    <2>2. Goes(l, m)
      BY <1>1, <1>2, <2>1
      DEF Keeps, Goes, InStep, Makes, Creates, Searching, Filling, Removing, Expanding, Unflashed
    <2>3. CASE UNCHANGED arrayVars
      BY <1>2, <2>1, <2>2, <2>3, GoesOn DEF Keeps, ArrayStep
    <2>4. CASE Free(l.id) /\ volume[l.id].size < l.size /\ ExtendVolume(l.id, l.size)
      <3>1. l.size \in Nat /\ volume[l.id].size \in Nat /\ Exists(l.id)
        BY <1>2, <2>4, LocIs DEF Free, Exists, Sound, Arrayed, Sizeds
      <3>2. ArrayStep(l, m)
        BY <1>1, <2>1, <2>4, <3>1 DEF ArrayStep, Keeps
      <3> QED
        BY <1>2, <2>1, <2>2, <3>2, GoesOn
    <2> QED
      BY <1>4, <2>3, <2>4
  <1> QED
    BY <1>3, <1>4 DEF Grow

LEMMA FlashAdvances ==
  ASSUME Sound, NEW t \in Threads, Flash(t)
  PROVE  Advance(t)
  <1> PICK l : l = loc[t]
    OBVIOUS
  <1> PICK s : s = l.call.source
    OBVIOUS
  <1>1. l.pc = "flash" /\ UNCHANGED bounds
    BY DEF Flash
  <1>2. /\ l \in LocRecs /\ InStep(l) /\ l.checks \subseteq l.rels /\ l.call.op \in Creates
        /\ l.pc \in Filling \cap Unflashed /\ Steady(l) /\ l.undo = "none"
    BY <1>1, LocIs DEF InStep, Filling, Unflashed, Steady, bounds
  <1>3. CASE UNCHANGED arrayVars /\ \E status \in {"NOT_FOUND", "ALREADY_EXISTS"} : RaiseAndRemove(t, status)
    <2>1. ArrayStep(l, Idle)
      BY <1>1, <1>3, ReadsOnly DEF ReadOnly
    <2> QED
      BY <1>1, <1>2, <1>3, <2>1, RaiseAndRemoveAdvances
  <1>4. CASE UNCHANGED arrayVars /\ RaiseInCopy(t, "INTERNAL")
    <2>1. ArrayStep(l, Idle)
      BY <1>1, <1>4, ReadsOnly DEF ReadOnly
    <2> QED
      BY <1>2, <1>4, <2>1, RaiseInCopyAdvances DEF Statuses
  <1>5. CASE /\ Exists(s) /\ Exists(l.id) /\ ~IsCopy(l.id)
             /\ CreateFlashcopy(s, l.id, l.call.op = "CreateSnapshot") /\ To(t, "state")
    <2> PICK m : m = [l EXCEPT !.pc = "state"]
      OBVIOUS
    <2>1. Keeps(l, m, "state") /\ Then(t, m)
      BY <1>2, <1>5, ToIs DEF To, Pcs, Filling
    <2>2. Goes(l, m)
      BY <1>1, <1>2, <2>1
      DEF Keeps, Goes, InStep, Makes, Creates, Searching, Filling, Removing, Expanding, Unflashed
    <2>3. PICK nocopy \in BOOLEAN : nocopy = (l.call.op = "CreateSnapshot")
      OBVIOUS
    <2>4. CreateFlashcopy(s, l.id, nocopy)
      BY <1>5, <2>3
    <2>5. ArrayStep(l, m)
      BY <1>1, <1>5, <2>1, <2>4 DEF ArrayStep, Keeps
    <2> QED
      BY <1>2, <2>1, <2>2, <2>5, GoesOn
  <1> QED
    BY <1>3, <1>4, <1>5 DEF Flash

LEMMA ReadStateAdvances ==
  ASSUME Sound, NEW t \in Threads, ReadState(t)
  PROVE  Advance(t)
  <1> PICK l : l = loc[t]
    OBVIOUS
  <1>1. l.pc = "state" /\ ReadOnly
    BY DEF ReadState
  <1>2. /\ l \in LocRecs /\ InStep(l) /\ l.checks \subseteq l.rels /\ l.call.op \in Creates
        /\ l.pc \in Filling /\ Makes(l) /\ l.id \in Ids /\ Steady(l) /\ ArrayStep(l, Idle)
        /\ (IsCopy(l.id)' <=> IsCopy(l.id)) /\ \A m : m.pc # "readback" => ArrayStep(l, m)
    BY <1>1, LocIs, IdIs, ReadsOnly DEF InStep, Filling, Makes
  <1>3. CASE ~IsCopy(l.id) /\ RaiseInCopy(t, "INTERNAL")
    BY <1>2, <1>3, RaiseInCopyAdvances DEF Statuses
  <1>4. CASE IsCopy(l.id) /\ \/ flashcopy[l.id].state = "invalid" /\ To(t, "withdraw")
                             \/ flashcopy[l.id].state # "invalid" /\ To(t, "final")
    <2> PICK pc \in {"withdraw", "final"} :
           To(t, pc) /\ pc = IF flashcopy[l.id].state = "invalid" THEN "withdraw" ELSE "final"
      BY <1>4
    <2> PICK m : m = [l EXCEPT !.pc = pc]
      OBVIOUS
    <2>1. Keeps(l, m, pc) /\ Then(t, m)
      BY <1>2, ToIs DEF To, Pcs, Filling
    <2>2. Goes(l, m)
      BY <1>1, <1>2, <1>4, <2>1
      DEF Valid, Keeps, Goes, InStep, Makes, Creates, Searching, Filling, Removing, Expanding, Unflashed
    <2> QED
      BY <1>2, <2>1, <2>2, GoesOn DEF Keeps
  <1> QED
    BY <1>3, <1>4 DEF ReadState

LEMMA WithdrawAdvances ==
  ASSUME Sound, NEW t \in Threads, Withdraw(t)
  PROVE  Advance(t)
  <1> PICK l : l = loc[t]
    OBVIOUS
  <1>1. l.pc = "withdraw" /\ UNCHANGED bounds /\ RaiseInCopy(t, "INTERNAL")
    BY DEF Withdraw
  <1>2. l.pc \in Filling /\ l.id \in Ids /\ Steady(l)
    BY <1>1, LocIs, IdIs DEF InStep, Filling, Searching, Makes, Steady, bounds
  <1>3. ArrayStep(l, Idle) /\ ~IsCopy(l.id)'
    <2>1. CASE IsCopy(l.id)
      <3>1. DeleteFlashcopy(l.id)
        BY <2>1 DEF Withdraw
      <3>2. ArrayStep(l, Idle)
        BY <1>1, <2>1, <3>1, IdleIs DEF ArrayStep
      <3>3. flashcopy'[l.id] = NoCopy
        BY <1>2, <3>1 DEF DeleteFlashcopy, Sound, Arrayed
      <3> QED
        BY <3>2, <3>3 DEF IsCopy
    <2>2. CASE ~IsCopy(l.id)
      <3>1. UNCHANGED arrayVars
        BY <2>2 DEF Withdraw
      <3> QED
        BY <1>1, <2>2, <3>1, IdleIs DEF ArrayStep, IsCopy, arrayVars
    <2> QED
      BY <2>1, <2>2
  <1> QED
    BY <1>1, <1>2, <1>3, RaiseInCopyAdvances DEF Statuses

LEMMA FinalAdvances ==
  ASSUME Sound, NEW t \in Threads, Final(t)
  PROVE  Advance(t)
  <1> PICK l : l = loc[t]
    OBVIOUS
  <1>1. l.pc = "final" /\ ReadOnly
    BY DEF Final
  <1>2. /\ l \in LocRecs /\ InStep(l) /\ l.call.op \in Creates /\ l.undo = "none" /\ l.id \in Ids
        /\ Steady(l) /\ ArrayStep(l, Idle) /\ (IsCopy(l.id)' <=> IsCopy(l.id))
    BY <1>1, LocIs, IdIs, ReadsOnly DEF InStep, Filling, Makes
  <1>3. CASE Reply(t, "OK", l.id)
    <2>1. Ends(l, "OK", l.id)
      BY <1>1, <1>2 DEF Ends, Creates
    <2> QED
      BY <1>2, <1>3, <2>1, EndsNow DEF Statuses
  <1>4. CASE ~Exists(l.id) /\ RaiseAndRemove(t, "NOT_FOUND")
    <2>1. ~IsCopy(l.id)
      BY <1>2, <1>4 DEF Sound, Arrayed
    <2> QED
      BY <1>1, <1>2, <1>4, <2>1, RaiseAndRemoveAdvances
  <1> QED
    BY <1>3, <1>4 DEF Final

\* A volume that was deleted is gone.
LEMMA DeleteVolumeIs ==
  ASSUME Sound, NEW i \in Ids, DeleteVolume(i)
  PROVE  ~Exists(i)'
  BY DEF DeleteVolume, Exists, Sound, Arrayed

LEMMA RetryRemoveTargetAdvances ==
  ASSUME Sound, NEW t \in Threads, NEW l, l = loc[t], l.pc = "rmtarget", Steady(l),
         ArrayStep(l, Idle), RetryRemoveTarget(t)
  PROVE  Advance(t)
  <1>1. /\ l \in LocRecs /\ InStep(l) /\ l.checks \subseteq l.rels /\ l.call.op = "CreateSnapshot"
        /\ l.tries \in 0..Tries
    BY LocIs DEF InStep, LocRecs
  <1>2. CASE l.tries > 1
    <2> PICK m : m = [l EXCEPT !.tries = l.tries - 1]
      OBVIOUS
    <2>1. Then(t, m)
      BY <1>2 DEF RetryRemoveTarget
    <2>2. Keeps(l, m, "rmtarget")
      <3>1. l.tries - 1 \in 0..Tries
        BY <1>1, <1>2, ProvisioningAssumption
      <3> QED
        BY <3>1, <1>1 DEF Keeps, LocRecs
    <2>3. Goes(l, m)
      BY <1>1, <2>2
      DEF Keeps, Goes, InStep, Makes, Creates, Searching, Filling, Removing, Expanding, Unflashed
    <2> QED
      BY <2>1, <2>2, <2>3, ArrayStepOn, GoesOn DEF Keeps
  <1>3. CASE ~(l.tries > 1)
    <2>1. Reply(t, "INTERNAL", NoId)
      BY <1>3 DEF RetryRemoveTarget
    <2>2. Ends(l, "INTERNAL", NoId)
      BY <1>1 DEF Ends
    <2> QED
      BY <2>1, <2>2, EndsNow DEF Statuses
  <1> QED
    BY <1>2, <1>3

LEMMA RemoveTargetAdvances ==
  ASSUME Sound, NEW t \in Threads, RemoveTarget(t)
  PROVE  Advance(t)
  <1> PICK l : l = loc[t]
    OBVIOUS
  <1>1. l.pc = "rmtarget" /\ UNCHANGED bounds
    BY DEF RemoveTarget
  <1>2. /\ l \in LocRecs /\ InStep(l) /\ l.call.op = "CreateSnapshot" /\ l.id \in Ids /\ Steady(l)
        /\ l.undo \in Statuses \ {"OK"}
    BY <1>1, LocIs, IdIs DEF InStep, Makes, Creates, Steady, bounds, LocRecs
  <1>3. CASE ~Exists(l.id)' /\ ArrayStep(l, Idle) /\ Reply(t, l.undo, NoId)
    <2>1. Ends(l, l.undo, NoId)
      BY <1>1, <1>2, <1>3 DEF Ends
    <2> QED
      BY <1>2, <1>3, <2>1, EndsNow
  <1>4. CASE Free(l.id) /\ DeleteVolume(l.id) /\ Reply(t, l.undo, NoId)
    <2>1. ArrayStep(l, Idle)
      BY <1>1, <1>4, IdleIs DEF ArrayStep
    <2> QED
      BY <1>2, <1>3, <1>4, <2>1, DeleteVolumeIs
  <1>5. CASE /\ ~Free(l.id) /\ UNCHANGED arrayVars
             /\ IF Exists(l.id) THEN RetryRemoveTarget(t) ELSE Reply(t, l.undo, NoId)
    <2>1. ArrayStep(l, Idle) /\ (Exists(l.id)' <=> Exists(l.id))
      BY <1>1, <1>5, ReadsOnly DEF ReadOnly
    <2>2. CASE Exists(l.id)
      BY <1>1, <1>2, <1>5, <2>1, <2>2, RetryRemoveTargetAdvances
    <2>3. CASE ~Exists(l.id)
      BY <1>3, <1>5, <2>1, <2>3
    <2> QED
      BY <2>2, <2>3
  <1> QED
    BY <1>4, <1>5 DEF RemoveTarget

LEMMA SnapshotLookupAdvances ==
  ASSUME Sound, NEW t \in Threads, SnapshotLookup(t)
  PROVE  Advance(t)
  <1> PICK l : l = loc[t]
    OBVIOUS
  <1>1. l.pc = "slook" /\ ReadOnly
    BY DEF SnapshotLookup
  <1>2. /\ l \in LocRecs /\ InStep(l) /\ l.checks \subseteq l.rels /\ ~Makes(l) /\ l.call.op = "CreateSnapshot"
        /\ Steady(l) /\ ArrayStep(l, Idle) /\ \A m : m.pc # "readback" => ArrayStep(l, m)
    BY <1>1, LocIs, ReadsOnly DEF InStep, Makes, Filling, Removing, Unflashed
  <1>3. CASE Reply(t, "NOT_FOUND", NoId)
    BY <1>2, <1>3, EndsEarly DEF Statuses
  <1>4. CASE To(t, "ssource")
    <2> PICK m : m = [l EXCEPT !.pc = "ssource"]
      OBVIOUS
    <2>1. Keeps(l, m, "ssource") /\ Then(t, m)
      BY <1>2, <1>4, ToIs DEF To, Pcs, Searching
    <2>2. Goes(l, m)
      BY <1>1, <1>2, <2>1
      DEF Keeps, Goes, InStep, Makes, Creates, Searching, Filling, Removing, Expanding, Unflashed
    <2> QED
      BY <1>2, <2>1, <2>2, GoesOn DEF Keeps
  <1>5. CASE \E i \in Named(l.call.name) : Then(t, [l EXCEPT !.pc = "sverify", !.id = i])
    <2> PICK i \in Named(l.call.name) : Then(t, [l EXCEPT !.pc = "sverify", !.id = i])
      BY <1>5
    <2> PICK m : m = [l EXCEPT !.pc = "sverify", !.id = i]
      OBVIOUS
    <2>1. i \in Nat
      BY ArrayAssumption DEF Named, Ids
    <2>2. /\ m \in LocRecs /\ m.pc = "sverify" /\ m.call = l.call /\ m.id = i
          /\ m.checks = l.checks /\ m.rels = l.rels /\ m.undo = l.undo
      BY <1>2, <2>1 DEF LocRecs, Pcs, Searching
    <2>3. Goes(l, m)
      BY <1>1, <1>2, <2>2
      DEF Goes, InStep, Makes, Creates, Searching, Filling, Removing, Expanding, Unflashed
    <2> QED
      BY <1>2, <2>2, <2>3, GoesOn
  <1> QED
    BY <1>3, <1>4, <1>5 DEF SnapshotLookup

LEMMA VerifySnapshotAdvances ==
  ASSUME Sound, NEW t \in Threads, VerifySnapshot(t)
  PROVE  Advance(t)
  <1> PICK l : l = loc[t]
    OBVIOUS
  <1>1. l.pc = "sverify" /\ ReadOnly
    BY DEF VerifySnapshot
  <1>2. /\ l \in LocRecs /\ InStep(l) /\ ~Makes(l) /\ l.call.op = "CreateSnapshot" /\ l.undo = "none"
        /\ Steady(l) /\ ArrayStep(l, Idle)
    BY <1>1, LocIs, ReadsOnly DEF InStep, Searching, Makes, Filling, Removing, Unflashed
  <1>3. CASE \E status \in {"INTERNAL", "ALREADY_EXISTS"} : Reply(t, status, NoId)
    BY <1>2, <1>3, EndsEarly DEF Statuses
  <1>4. CASE CopySource(l.id) = l.call.source /\ Reply(t, "OK", l.id)
    <2>1. Ends(l, "OK", l.id)
      BY <1>1, <1>2, <1>4 DEF Ends
    <2> QED
      BY <1>2, <1>4, <2>1, EndsNow DEF Statuses
  <1> QED
    BY <1>3, <1>4 DEF VerifySnapshot

LEMMA SnapshotSourceAdvances ==
  ASSUME Sound, NEW t \in Threads, SnapshotSource(t)
  PROVE  Advance(t)
  <1> PICK l : l = loc[t]
    OBVIOUS
  <1> PICK s : s = l.call.source
    OBVIOUS
  <1>1. l.pc = "ssource" /\ ReadOnly
    BY DEF SnapshotSource
  <1>2. /\ l \in LocRecs /\ InStep(l) /\ l.checks \subseteq l.rels /\ ~Makes(l) /\ l.call.op = "CreateSnapshot"
        /\ Steady(l) /\ ArrayStep(l, Idle) /\ \A m : m.pc # "readback" => ArrayStep(l, m)
    BY <1>1, LocIs, ReadsOnly DEF InStep, Makes, Filling, Removing, Unflashed
  <1>3. CASE ~Exists(s)
    <2>1. Reply(t, "NOT_FOUND", NoId)
      BY <1>3 DEF SnapshotSource
    <2> QED
      BY <1>2, <2>1, EndsEarly DEF Statuses
  <1>4. CASE Exists(s)
    <2> PICK m : m = [l EXCEPT !.pc = "recheck", !.size = volume[s].size]
      OBVIOUS
    <2>1. volume[s].size \in Nat
      BY <1>4 DEF Exists, Sound, Arrayed, Sizeds
    <2>2. Keeps(l, m, "recheck") /\ Then(t, m)
      BY <1>2, <1>4, <2>1 DEF SnapshotSource, Keeps, LocRecs, Pcs, Searching
    <2>3. Goes(l, m)
      BY <1>1, <1>2, <2>2
      DEF Keeps, Goes, InStep, Makes, Creates, Searching, Filling, Removing, Expanding, Unflashed
    <2> QED
      BY <1>2, <2>2, <2>3, GoesOn DEF Keeps
  <1> QED
    BY <1>3, <1>4

\* What follows in a deletion or an expansion.
LEMMA FollowIs ==
  ASSUME NEW k \in LocRecs
  PROVE  \E pc \in {"ensure", "rmrels", "extend", "rmtargetrel", "rmvolume"} :
            /\ Keeps(k, Follow(k), pc)
            /\ pc = "rmrels" => k.checks = {}
            /\ pc = "extend" => k.call.op = "Expand"
            /\ pc \in {"rmtargetrel", "rmvolume"} => k.call.op # "Expand"
            /\ pc \in {"ensure", "rmrels", "rmtargetrel"} => k.checks # {} \/ k.rels # {} \/ k.target
  <1> PICK pc \in {"ensure", "rmrels", "extend", "rmtargetrel", "rmvolume"} :
         pc = IF k.checks # {} THEN "ensure" ELSE IF k.rels # {} THEN "rmrels"
              ELSE IF k.call.op = "Expand" THEN "extend" ELSE IF k.target THEN "rmtargetrel" ELSE "rmvolume"
    OBVIOUS
  <1>1. Follow(k) = [k EXCEPT !.pc = pc]
    BY DEF Follow
  <1>2. Keeps(k, Follow(k), pc)
    BY <1>1, ToIs DEF Pcs, Removing, Expanding
  <1> QED
    BY <1>2

LEMMA FollowAdvances ==
  ASSUME Sound, NEW t \in Threads, NEW l, l = loc[t], Steady(l), l.pc \in {"find", "ensure", "rmrels"},
         NEW k \in LocRecs, k.call = l.call, k.id = l.id, k.undo = l.undo, k.checks \subseteq k.rels,
         l.pc = "find" => k.checks = k.rels /\ (k.rels # {} \/ k.target => FlashcopiesOf(l.id) # {}),
         \A r \in k.rels \ k.checks : r \in l.rels \ l.checks \/ Synced(r),
         ArrayStep(l, Idle), Then(t, Follow(k))
  PROVE  Advance(t)
  <1>1. l \in LocRecs /\ InStep(l)
    BY LocIs
  <1> PICK m : m = Follow(k)
    OBVIOUS
  <1>2. PICK pc \in {"ensure", "rmrels", "extend", "rmtargetrel", "rmvolume"} :
            /\ Keeps(k, m, pc)
            /\ pc = "rmrels" => k.checks = {}
            /\ pc = "extend" => k.call.op = "Expand"
            /\ pc \in {"rmtargetrel", "rmvolume"} => k.call.op # "Expand"
            /\ pc \in {"ensure", "rmrels", "rmtargetrel"} => k.checks # {} \/ k.rels # {} \/ k.target
    BY FollowIs
  <1>3. /\ m \in LocRecs /\ m.pc = pc /\ m.call = l.call /\ m.id = l.id /\ m.undo = l.undo
        /\ m.checks = k.checks /\ m.rels = k.rels
    BY <1>2 DEF Keeps
  <1>4. InStep(m)
    BY <1>1, <1>2, <1>3 DEF InStep, Creates, Searching, Filling, Removing, Expanding, Unflashed
  <1>5. Goes(l, m)
    BY <1>1, <1>2, <1>3, <1>4 DEF Goes, InStep, Makes, Creates, Searching, Filling, Removing, Expanding, Unflashed
  <1>6. ArrayStep(l, m)
    BY <1>3, ArrayStepOn DEF Steady
  <1> QED
    BY <1>5, <1>6, GoesOn

\* The object of a deletion is not there.
LEMMA AbsentAdvances ==
  ASSUME Sound, NEW t \in Threads, NEW l, l = loc[t], Steady(l), l.pc \in Removing,
         ArrayStep(l, Idle), l.call.op # "DeleteSnapshot" => ~Exists(l.id)', Absent(t)
  PROVE  Advance(t)
  <1>1. l \in LocRecs /\ InStep(l) /\ l.call.op \in RPCs
    BY LocIs DEF InStep, Removing
  <1>2. CASE l.call.op \in Deletes
    <2>1. Reply(t, "OK", l.id)
      BY <1>2 DEF Absent
    <2>2. l.undo = "none"
      BY <1>1, <1>2 DEF InStep, Deletes, Removing
    <2>3. Ends(l, "OK", l.id)
      BY <1>2, <2>2 DEF Ends, Deletes, Creates, Removing
    <2> QED
      BY <2>1, <2>3, EndsNow DEF Statuses
  <1>3. CASE l.call.op \notin Deletes
    <2>1. Raise(t, "NOT_FOUND")
      BY <1>3 DEF Absent
    <2>2. \A st \in Statuses \ {"OK"} : Ends(l, st, NoId)
      BY <1>3 DEF Ends, Deletes, Removing
    <2> QED
      BY <2>1, <2>2, RaiseAdvances DEF Statuses
  <1> QED
    BY <1>2, <1>3

LEMMA FindObjectAdvances ==
  ASSUME Sound, NEW t \in Threads, FindObject(t)
  PROVE  Advance(t)
  <1> PICK l : l = loc[t]
    OBVIOUS
  <1>1. l.pc = "find" /\ ReadOnly
    BY DEF FindObject
  <1>2. /\ l \in LocRecs /\ InStep(l) /\ l.pc \in Removing /\ Steady(l) /\ ArrayStep(l, Idle)
        /\ (Exists(l.id)' <=> Exists(l.id)) /\ l.id \in Ids
    <2>1. l.id # NoId
      BY <1>1, LocIs DEF InStep, Makes, Removing, Sound, LocOK
    <2> QED
      BY <1>1, <2>1, LocIs, ReadsOnly, IdIs DEF Removing
  <1>3. CASE ~Exists(l.id) \/ (l.call.op = "DeleteSnapshot" /\ ~IsSnapshot(l.id))
    <2>1. Absent(t)
      BY <1>3 DEF FindObject
    <2> QED
      BY <1>2, <1>3, <2>1, AbsentAdvances
  <1>4. CASE ~(~Exists(l.id) \/ (l.call.op = "DeleteSnapshot" /\ ~IsSnapshot(l.id)))
    <2> PICK rels : rels = IF l.call.op = "Expand" THEN FlashcopiesOf(l.id) ELSE CopiesFrom(l.id)
      OBVIOUS
    <2> PICK target : target = IsCopy(l.id)
      OBVIOUS
    <2> PICK k : k = [l EXCEPT !.checks = rels, !.rels = rels, !.target = target]
      OBVIOUS
    <2>1. Then(t, Follow(k))
      BY <1>4 DEF FindObject
    <2>2. rels \in SUBSET Ids /\ target \in BOOLEAN
      BY <1>2 DEF FlashcopiesOf, CopiesFrom, IsCopy
    <2>3. /\ k \in LocRecs /\ k.call = l.call /\ k.id = l.id /\ k.undo = l.undo
          /\ k.checks = rels /\ k.rels = rels /\ k.target = target
      BY <1>2, <2>2, ZenonT(30) DEF LocRecs
    <2>4. rels # {} \/ target => FlashcopiesOf(l.id) # {}
      BY <1>2 DEF FlashcopiesOf, CopiesFrom
    <2> QED
      BY <1>1, <1>2, <2>1, <2>3, <2>4, FollowAdvances
  <1> QED
    BY <1>3, <1>4

LEMMA EnsureAdvances ==
  ASSUME Sound, NEW t \in Threads, Ensure(t)
  PROVE  Advance(t)
  <1> PICK l : l = loc[t]
    OBVIOUS
  <1>1. l.pc = "ensure" /\ ReadOnly
    BY DEF Ensure
  <1>2. /\ l \in LocRecs /\ InStep(l) /\ l.checks \subseteq l.rels /\ l.pc \in Removing
        /\ Steady(l) /\ ArrayStep(l, Idle) /\ \A st \in Statuses \ {"OK"} : Ends(l, st, NoId)
    BY <1>1, LocIs, ReadsOnly DEF Removing, Ends
  <1>3. CASE \E status \in {"INTERNAL", "FAILED_PRECONDITION"} : Raise(t, status)
    BY <1>2, <1>3, RaiseAdvances DEF Statuses
  <1>4. CASE \E r \in l.checks : /\ IsCopy(r) /\ ~flashcopy[r].nocopy /\ flashcopy[r].state = "done"
                                 /\ Then(t, Follow([l EXCEPT !.checks = @ \ {r}]))
    <2> PICK r \in l.checks : /\ IsCopy(r) /\ ~flashcopy[r].nocopy /\ flashcopy[r].state = "done"
                              /\ Then(t, Follow([l EXCEPT !.checks = @ \ {r}]))
      BY <1>4
    <2> PICK k : k = [l EXCEPT !.checks = l.checks \ {r}]
      OBVIOUS
    <2>1. Then(t, Follow(k))
      OBVIOUS
    <2>2. /\ k \in LocRecs /\ k.call = l.call /\ k.id = l.id /\ k.undo = l.undo
          /\ k.checks = l.checks \ {r} /\ k.rels = l.rels
      BY <1>2 DEF LocRecs
    <2>3. Synced(r)
      BY DEF Synced
    <2> QED
      BY <1>1, <1>2, <2>1, <2>2, <2>3, FollowAdvances
  <1> QED
    BY <1>3, <1>4 DEF Ensure

LEMMA RemoveRelationsAdvances ==
  ASSUME Sound, NEW t \in Threads, RemoveRelations(t)
  PROVE  Advance(t)
  <1> PICK l : l = loc[t]
    OBVIOUS
  <1>1. l.pc = "rmrels" /\ UNCHANGED bounds
    BY DEF RemoveRelations
  <1>2. /\ l \in LocRecs /\ InStep(l) /\ l.checks = {} /\ l.pc \in Removing
        /\ Steady(l) /\ \A st \in Statuses \ {"OK"} : Ends(l, st, NoId)
    BY <1>1, LocIs DEF Removing, Ends, InStep, Steady, bounds
  <1>3. CASE Raise(t, "INTERNAL") /\ UNCHANGED arrayVars
    <2>1. ArrayStep(l, Idle)
      BY <1>1, <1>3, ReadsOnly DEF ReadOnly
    <2> QED
      BY <1>2, <1>3, <2>1, RaiseAdvances DEF Statuses
  <1>4. CASE \E r \in l.rels : /\ IsCopy(r) /\ DeleteFlashcopy(r)
                               /\ Then(t, Follow([l EXCEPT !.rels = @ \ {r}]))
    <2> PICK r \in l.rels : /\ IsCopy(r) /\ DeleteFlashcopy(r)
                            /\ Then(t, Follow([l EXCEPT !.rels = @ \ {r}]))
      BY <1>4
    <2> PICK k : k = [l EXCEPT !.rels = l.rels \ {r}]
      OBVIOUS
    <2>1. Then(t, Follow(k))
      OBVIOUS
    <2>2. /\ k \in LocRecs /\ k.call = l.call /\ k.id = l.id /\ k.undo = l.undo
          /\ k.checks = {} /\ k.rels = l.rels \ {r}
      BY <1>2 DEF LocRecs
    <2>3. ArrayStep(l, Idle)
      BY <1>1, IdleIs DEF ArrayStep
    <2> QED
      BY <1>1, <1>2, <2>1, <2>2, <2>3, FollowAdvances
  <1> QED
    BY <1>3, <1>4 DEF RemoveRelations

LEMMA RemoveOwnRelationAdvances ==
  ASSUME Sound, NEW t \in Threads, RemoveOwnRelation(t)
  PROVE  Advance(t)
  <1> PICK l : l = loc[t]
    OBVIOUS
  <1>1. l.pc = "rmtargetrel" /\ UNCHANGED bounds
    BY DEF RemoveOwnRelation
  <1>2. /\ l \in LocRecs /\ InStep(l) /\ l.checks \subseteq l.rels /\ l.pc \in Removing
        /\ Steady(l) /\ \A st \in Statuses \ {"OK"} : Ends(l, st, NoId)
    BY <1>1, LocIs DEF Removing, Ends, InStep, Steady, bounds
  <1>3. CASE Raise(t, "INTERNAL") /\ UNCHANGED arrayVars
    <2>1. ArrayStep(l, Idle)
      BY <1>1, <1>3, ReadsOnly DEF ReadOnly
    <2> QED
      BY <1>2, <1>3, <2>1, RaiseAdvances DEF Statuses
  <1>4. CASE IsCopy(l.id) /\ DeleteFlashcopy(l.id) /\ To(t, "rmvolume")
    <2> PICK m : m = [l EXCEPT !.pc = "rmvolume"]
      OBVIOUS
    <2>1. Keeps(l, m, "rmvolume") /\ Then(t, m)
      BY <1>2, <1>4, ToIs DEF To, Pcs, Removing
    <2>2. Goes(l, m)
      BY <1>1, <1>2, <2>1
      DEF Keeps, Goes, InStep, Makes, Creates, Searching, Filling, Removing, Expanding, Unflashed
    <2>3. ArrayStep(l, m)
      BY <1>1, <1>4, <2>1 DEF ArrayStep, Keeps
    <2> QED
      BY <1>2, <2>1, <2>2, <2>3, GoesOn
  <1> QED
    BY <1>3, <1>4 DEF RemoveOwnRelation

LEMMA RemoveVolumeAdvances ==
  ASSUME Sound, NEW t \in Threads, RemoveVolume(t)
  PROVE  Advance(t)
  <1> PICK l : l = loc[t]
    OBVIOUS
  <1>1. l.pc = "rmvolume" /\ UNCHANGED bounds
    BY DEF RemoveVolume
  <1>2. /\ l \in LocRecs /\ InStep(l) /\ l.pc \in Removing /\ Steady(l) /\ l.id \in Ids
    <2>1. l.id # NoId
      BY <1>1, LocIs DEF InStep, Makes, Removing, Sound, LocOK
    <2> QED
      BY <1>1, <2>1, LocIs, IdIs DEF Removing, Steady, bounds
  <1>3. CASE /\ Free(l.id) /\ DeleteVolume(l.id)
             /\ IF l.undo = "none" THEN Reply(t, "OK", l.id) ELSE UndoNext(t, TRUE, "OK")
    <2>1. ~Exists(l.id)'
      BY <1>2, <1>3, DeleteVolumeIs
    <2>2. ArrayStep(l, Idle)
      BY <1>1, <1>3, IdleIs DEF ArrayStep
    <2>3. CASE l.undo = "none"
      <3>1. l.call.op \in Deletes
        BY <1>1, <1>2, <2>3, LocIs DEF InStep, Removing, RPCs, Creates
      <3>2. Ends(l, "OK", l.id)
        BY <1>1, <2>1, <2>3, <3>1 DEF Ends, Deletes, Creates
      <3> QED
        BY <1>2, <1>3, <2>2, <2>3, <3>2, EndsNow DEF Statuses
    <2>4. CASE l.undo # "none"
      <3>1. \A st \in Statuses \ {"OK"} : Ends(l, st, NoId)
        BY <1>1, <2>1 DEF Ends
      <3> QED
        BY <1>2, <1>3, <2>2, <2>4, <3>1, UndoNextAdvances
    <2> QED
      BY <2>3, <2>4
  <1>4. CASE ~Exists(l.id) /\ Absent(t) /\ UNCHANGED arrayVars
    <2>1. ArrayStep(l, Idle) /\ (Exists(l.id)' <=> Exists(l.id))
      BY <1>1, <1>4, ReadsOnly DEF ReadOnly
    <2> QED
      BY <1>2, <1>4, <2>1, AbsentAdvances
  <1>5. CASE Exists(l.id) /\ ~Free(l.id) /\ Raise(t, "INTERNAL") /\ UNCHANGED arrayVars
    <2>1. ArrayStep(l, Idle)
      BY <1>1, <1>5, ReadsOnly DEF ReadOnly
    <2>2. \A st \in Statuses \ {"OK"} : Ends(l, st, NoId)
      BY <1>1, <1>5 DEF Ends
    <2> QED
      BY <1>2, <1>5, <2>1, <2>2, RaiseAdvances DEF Statuses
  <1> QED
    BY <1>3, <1>4, <1>5 DEF RemoveVolume

LEMMA ExpandLookupAdvances ==
  ASSUME Sound, NEW t \in Threads, ExpandLookup(t)
  PROVE  Advance(t)
  <1> PICK l : l = loc[t]
    OBVIOUS
  <1>1. l.pc = "xlook" /\ ReadOnly
    BY DEF ExpandLookup
  <1>2. /\ l \in LocRecs /\ InStep(l) /\ l.checks \subseteq l.rels /\ l.call.op = "Expand" /\ ~Makes(l)
        /\ l.undo = "none"
        /\ Steady(l) /\ ArrayStep(l, Idle) /\ \A m : m.pc # "readback" => ArrayStep(l, m)
    BY <1>1, LocIs, ReadsOnly DEF InStep, Expanding, Makes, Creates, Removing
  <1>3. CASE \E status \in {"NOT_FOUND", "OUT_OF_RANGE"} : Reply(t, status, NoId)
    BY <1>2, <1>3, EndsEarly DEF Statuses
  <1>4. CASE volume[l.id].size >= l.call.size /\ Reply(t, "OK", l.id)
    <2>1. Ends(l, "OK", l.id)
      BY <1>1, <1>2, <1>4 DEF Ends, Creates
    <2> QED
      BY <1>2, <1>4, <2>1, EndsNow DEF Statuses
  <1>5. CASE To(t, "find")
    <2> PICK m : m = [l EXCEPT !.pc = "find"]
      OBVIOUS
    <2>1. Keeps(l, m, "find") /\ Then(t, m)
      BY <1>2, <1>5, ToIs DEF To, Pcs, Removing
    <2>2. Goes(l, m)
      BY <1>1, <1>2, <2>1
      DEF Keeps, Goes, InStep, Makes, Creates, Searching, Filling, Removing, Expanding, Unflashed
    <2> QED
      BY <1>2, <2>1, <2>2, GoesOn DEF Keeps
  <1> QED
    BY <1>3, <1>4, <1>5 DEF ExpandLookup

LEMMA ExtendAdvances ==
  ASSUME Sound, NEW t \in Threads, Extend(t)
  PROVE  Advance(t)
  <1> PICK l : l = loc[t]
    OBVIOUS
  <1>1. l.pc = "extend" /\ UNCHANGED <<deleting, overlap, calls, faults, crashes>>
    BY DEF Extend
  <1>2. /\ l \in LocRecs /\ InStep(l) /\ l.checks \subseteq l.rels /\ l.call.op = "Expand" /\ ~Makes(l)
        /\ l.undo = "none" /\ l.id \in Ids /\ l.call.size \in Nat
    <2>1. l.call.op = "Expand" /\ l.undo = "none"
      BY <1>1, LocIs DEF InStep, Expanding, Removing
    <2>2. l.id # NoId
      BY <1>1, <2>1 DEF Creates, Sound, LocOK
    <2> QED
      BY <1>1, <2>1, <2>2, LocIs, IdIs DEF Makes, Creates, LocRecs, CallRecs
  <1>3. CASE UNCHANGED <<arrayVars, refused>> /\ Reply(t, "NOT_FOUND", NoId)
    <2>1. ArrayStep(l, Idle) /\ Steady(l)
      BY <1>1, <1>3, ReadsOnly DEF ReadOnly, bounds
    <2> QED
      BY <1>2, <1>3, <2>1, EndsEarly DEF Statuses
  <1>4. CASE To(t, "xafter") /\
             \/ /\ Free(l.id) /\ volume[l.id].size < l.call.size
                /\ ExtendVolume(l.id, l.call.size) /\ UNCHANGED refused
             \/ refused' = refused \cup {l.id} /\ UNCHANGED arrayVars
    <2> PICK m : m = [l EXCEPT !.pc = "xafter"]
      OBVIOUS
    <2>1. Keeps(l, m, "xafter") /\ Then(t, m)
      BY <1>2, <1>4, ToIs DEF To, Pcs, Expanding
    <2>2. ArrayStep(l, m) /\ Steady(l) /\ (l.id \in refused' \/ volume'[l.id].size >= l.call.size)
      <3>1. CASE /\ Free(l.id) /\ volume[l.id].size < l.call.size
                 /\ ExtendVolume(l.id, l.call.size) /\ UNCHANGED refused
        <4>1. volume[l.id] \in Sizeds
          BY <1>2, <3>1 DEF Free, Exists, Sound, Arrayed
        <4>2. volume'[l.id].size = l.call.size
          BY <1>2, <3>1, <4>1 DEF ExtendVolume, Sound, Arrayed, Sizeds
        <4>3. ArrayStep(l, m)
          BY <1>1, <1>2, <2>1, <3>1, <4>1 DEF ArrayStep, Free, Sizeds, Keeps
        <4> QED
          BY <1>1, <1>2, <3>1, <4>2, <4>3 DEF Steady
      <3>2. CASE refused' = refused \cup {l.id} /\ UNCHANGED arrayVars
        BY <1>1, <2>1, <3>2 DEF Steady, ArrayStep, Keeps
      <3> QED
        BY <1>4, <3>1, <3>2
    <2>3. Goes(l, m)
      BY <1>1, <1>2, <2>1, <2>2
      DEF Keeps, Goes, InStep, Makes, Creates, Searching, Filling, Removing, Expanding, Unflashed
    <2> QED
      BY <2>1, <2>2, <2>3, GoesOn
  <1> QED
    BY <1>3, <1>4 DEF Extend

LEMMA ExpandAfterAdvances ==
  ASSUME Sound, NEW t \in Threads, ExpandAfter(t)
  PROVE  Advance(t)
  <1> PICK l : l = loc[t]
    OBVIOUS
  <1>1. l.pc = "xafter" /\ ReadOnly
    BY DEF ExpandAfter
  <1>2. /\ l.call.op = "Expand" /\ ~Makes(l) /\ l.undo = "none" /\ Steady(l) /\ ArrayStep(l, Idle)
    BY <1>1, LocIs, ReadsOnly DEF InStep, Expanding, Makes, Creates, Removing
  <1>3. CASE Reply(t, "NOT_FOUND", NoId)
    BY <1>2, <1>3, EndsEarly DEF Statuses
  <1>4. CASE Reply(t, "OK", l.id)
    <2>1. Ends(l, "OK", l.id)
      BY <1>1, <1>2 DEF Ends, Creates
    <2> QED
      BY <1>2, <1>4, <2>1, EndsNow DEF Statuses
  <1> QED
    BY <1>3, <1>4 DEF ExpandAfter

\* A failing request does nothing to the array, but for a relationship that is not valid.
LEMMA FaultIs ==
  ASSUME Sound, NEW t \in Threads, NEW l, l = loc[t], NEW pcs, "idle" \notin pcs, FaultAt(t, pcs),
         UNCHANGED arrayVars
  PROVE  /\ Steady(l) /\ ArrayStep(l, Idle) /\ faults' # faults /\ l.pc \in pcs
         /\ \A m : m.pc # "readback" => ArrayStep(l, m)
         /\ \A st \in Statuses \ {"OK"} : Ends(l, st, NoId)
  <1>1. faults \in Nat /\ faults' = faults + 1 /\ UNCHANGED <<deleting, overlap, refused, calls, crashes>>
    BY DEF FaultAt, Sound, Counted
  <1>2. Steady(l) /\ l.pc \in pcs
    BY <1>1 DEF Steady, FaultAt
  <1>3. \A m : m.pc # "readback" => ArrayStep(l, m)
    BY DEF ArrayStep
  <1>4. \A st \in Statuses \ {"OK"} : Ends(l, st, NoId)
    BY <1>1 DEF Ends
  <1> QED
    BY <1>1, <1>2, <1>3, <1>4, IdleIs

LEMMA FaultRaisedAdvances ==
  ASSUME Sound, NEW t \in Threads, FaultRaised(t)
  PROVE  Advance(t)
  <1> PICK l : l = loc[t]
    OBVIOUS
  <1> PICK pcs : pcs = {"lookup", "origin", "recheck", "create", "readback", "slook", "sverify",
                   "ssource", "find", "ensure", "rmrels", "rmtargetrel", "rmvolume", "xlook", "xafter"}
    OBVIOUS
  <1>1. FaultAt(t, pcs) /\ Raise(t, "INTERNAL") /\ UNCHANGED arrayVars
    BY DEF FaultRaised
  <1>2. /\ Steady(l) /\ ArrayStep(l, Idle) /\ l.pc \in pcs
        /\ \A st \in Statuses \ {"OK"} : Ends(l, st, NoId)
    BY <1>1, FaultIs
  <1>3. l.undo = "none" \/ l.pc \in Removing
    BY <1>2, LocIs DEF InStep
  <1> QED
    BY <1>1, <1>2, <1>3, RaiseAdvances DEF Statuses

LEMMA FaultInCopyAdvances ==
  ASSUME Sound, NEW t \in Threads, FaultInCopy(t)
  PROVE  Advance(t)
  <1> PICK l : l = loc[t]
    OBVIOUS
  <1>1. FaultAt(t, Filling \ {"readback"}) /\ RaiseInCopy(t, "INTERNAL") /\ UNCHANGED arrayVars
    <2>1. Filling \ {"readback"} = {"findSource", "grow", "flash", "state", "withdraw", "final"}
      BY DEF Filling, Unflashed
    <2> QED
      BY <2>1 DEF FaultInCopy
  <1>2. "idle" \notin Filling \ {"readback"}
    BY DEF Filling, Unflashed
  <1>3. Steady(l) /\ ArrayStep(l, Idle) /\ l.pc \in Filling /\ faults' # faults
    BY <1>1, <1>2, FaultIs
  <1> QED
    BY <1>1, <1>3, RaiseInCopyAdvances DEF Statuses

LEMMA FaultAsNoneAdvances ==
  ASSUME Sound, NEW t \in Threads, FaultAsNone(t)
  PROVE  Advance(t)
  <1> PICK l : l = loc[t]
    OBVIOUS
  <1> PICK pcs : pcs = {"findSource", "final", "ssource", "xlook", "xafter"}
    OBVIOUS
  <1>1. FaultAt(t, pcs) /\ UNCHANGED arrayVars
    BY DEF FaultAsNone
  <1>2. /\ Steady(l) /\ ArrayStep(l, Idle) /\ l.pc \in pcs /\ faults' # faults
        /\ \A st \in Statuses \ {"OK"} : Ends(l, st, NoId)
    BY <1>1, FaultIs
  <1>3. InStep(l)
    BY LocIs
  <1>4. CASE l.pc = "findSource" /\ Then(t, Undo(l, "NOT_FOUND", 2))
    BY <1>2, <1>3, <1>4, UndoAdvances DEF InStep, Filling, Unflashed, Statuses
  <1>5. CASE \E status \in {"INTERNAL", "NOT_FOUND"} : Reply(t, status, NoId)
    BY <1>2, <1>5, EndsNow DEF Statuses
  <1>6. CASE l.pc = "final" /\ Reply(t, "OK", l.id)
    <2>1. Ends(l, "OK", l.id)
      BY <1>3, <1>6 DEF Ends, InStep, Creates, Filling
    <2> QED
      BY <1>2, <1>6, <2>1, EndsNow DEF Statuses
  <1> QED
    BY <1>4, <1>5, <1>6 DEF FaultAsNone

LEMMA FaultDroppedAdvances ==
  ASSUME Sound, NEW t \in Threads, FaultDropped(t)
  PROVE  Advance(t)
  <1> PICK l : l = loc[t]
    OBVIOUS
  <1> PICK pcs : pcs = {"grow", "extend"}
    OBVIOUS
  <1>1. FaultAt(t, pcs) /\ UNCHANGED arrayVars
    BY DEF FaultDropped
  <1>2. /\ Steady(l) /\ l.pc \in pcs /\ faults' # faults /\ faults' \in {faults, faults + 1} /\ faults \in Nat
        /\ \A m : m.pc # "readback" => ArrayStep(l, m)
    BY <1>1, FaultIs DEF Steady, Sound, Counted
  <1>3. l \in LocRecs /\ InStep(l) /\ l.checks \subseteq l.rels
    BY LocIs
  <1> PICK pc \in {"flash", "xafter"} : pc = IF l.pc = "grow" THEN "flash" ELSE "xafter"
    OBVIOUS
  <1> PICK m : m = [l EXCEPT !.pc = pc]
    OBVIOUS
  <1>4. Keeps(l, m, pc) /\ Then(t, m)
    BY <1>3, ToIs DEF FaultDropped, To, Pcs, Filling, Unflashed, Expanding
  <1>5. Goes(l, m)
    BY <1>2, <1>3, <1>4
    DEF Keeps, Goes, InStep, Makes, Creates, Searching, Filling, Removing, Expanding, Unflashed
  <1> QED
    BY <1>2, <1>4, <1>5, GoesOn DEF Keeps

LEMMA FaultRetriedAdvances ==
  ASSUME Sound, NEW t \in Threads, FaultRetried(t)
  PROVE  Advance(t)
  <1> PICK pcs : pcs = {"rmtarget"}
    OBVIOUS
  <1>1. FaultAt(t, pcs) /\ UNCHANGED arrayVars /\ RetryRemoveTarget(t)
    BY DEF FaultRetried
  <1>2. Steady(loc[t]) /\ ArrayStep(loc[t], Idle) /\ loc[t].pc = "rmtarget"
    BY <1>1, FaultIs
  <1> QED
    BY <1>1, <1>2, RetryRemoveTargetAdvances

LEMMA FaultInvalidAdvances ==
  ASSUME Sound, NEW t \in Threads, FaultInvalid(t)
  PROVE  Advance(t)
  <1> PICK l : l = loc[t]
    OBVIOUS
  <1>1. /\ l.pc = "state" /\ CopyFails(l.id) /\ UNCHANGED <<loc, answers>>
        /\ faults \in Nat /\ faults' = faults + 1 /\ UNCHANGED <<deleting, overlap, refused, calls, crashes>>
    BY DEF FaultInvalid, FaultAt, Sound, Counted
  <1>2. l \in LocRecs /\ InStep(l) /\ l.checks \subseteq l.rels
    BY LocIs
  <1>3. Then(t, l)
    BY <1>1 DEF Then, Go, Sound
  <1>4. Goes(l, l)
    BY <1>1, <1>2 DEF Goes, InStep, Unflashed
  <1>5. ArrayStep(l, l) /\ Steady(l)
    BY <1>1 DEF ArrayStep, Steady
  <1> QED
    BY <1>3, <1>4, <1>5, GoesOn

LEMMA RequestAdvances ==
  ASSUME Sound, NEW t \in Threads, Request(t) \/ Fault(t)
  PROVE  Advance(t)
  <1>1. CASE Request(t)
    BY <1>1, LookupAdvances, OriginAdvances, RecheckAdvances, CreateAdvances, ReadBackAdvances,
       FindSourceAdvances, GrowAdvances, FlashAdvances, ReadStateAdvances, WithdrawAdvances, FinalAdvances,
       RemoveTargetAdvances, SnapshotLookupAdvances, VerifySnapshotAdvances, SnapshotSourceAdvances,
       FindObjectAdvances, EnsureAdvances, RemoveRelationsAdvances, RemoveOwnRelationAdvances,
       RemoveVolumeAdvances, ExpandLookupAdvances, ExtendAdvances, ExpandAfterAdvances
    DEF Request
  <1>2. CASE Fault(t)
    BY <1>2, FaultRaisedAdvances, FaultInCopyAdvances, FaultAsNoneAdvances, FaultDroppedAdvances,
       FaultRetriedAdvances, FaultInvalidAdvances
    DEF Fault
  <1> QED
    BY <1>1, <1>2

-----------------------------------------------------------------------------
(***************************************************************************)
(* What a step does to the volumes and the relationships.                  *)
(***************************************************************************)

\* A volume is new, or keeps its name and does not shrink; it goes only when it is
\* free; and its data changes with its own relationship.
VolumeStep(l, m, i) ==
    /\ Exists(i)' /\ ~Exists(i) => m.pc = "readback" /\ i = nextId /\ volume'[i].name = l.call.name
    /\ Exists(i) /\ ~Exists(i)' => l.pc \in {"rmtarget", "rmvolume"} /\ i = l.id
    /\ Exists(i) /\ Exists(i)' => volume'[i].name = volume[i].name /\ volume'[i].size >= volume[i].size
    /\ Exists(i) /\ Exists(i)' /\ volume'[i].copyOf # volume[i].copyOf =>
          \/ l.pc \in {"flash", "withdraw", "rmtargetrel", "state"} /\ i = l.id
          \/ l.pc = "rmrels" /\ i \in l.rels /\ IsCopy(i) /\ flashcopy[i].state = "copying"

\* A relationship stays, or is made, or turns out not to be valid.
CopyStep(l, m, i) ==
    IsCopy(i)' =>
        \/ flashcopy'[i] = flashcopy[i] /\ volume'[i].copyOf = volume[i].copyOf
        \/ /\ l.pc = "flash" /\ m.pc = "state" /\ i = l.id /\ flashcopy'[i].source = l.call.source
           /\ flashcopy'[i].state = "copying" /\ volume'[i].copyOf = l.call.source
        \/ /\ l.pc = "state" /\ m = l /\ i = l.id /\ faults' > faults
           /\ IsCopy(i) /\ flashcopy[i].state = "copying"
           /\ flashcopy'[i].source = flashcopy[i].source /\ flashcopy'[i].state = "invalid"

Effects(l, m) ==
    /\ Arrayed'
    /\ nextId' = IF m.pc = "readback" THEN nextId + 1 ELSE nextId
    /\ m.pc = "readback" => l.pc = "create" /\ m.id = nextId /\ nextId \in Ids
    /\ \A i \in Ids : VolumeStep(l, m, i) /\ CopyStep(l, m, i)

LEMMA ArrayedIs ==
  ASSUME Sound
  PROVE  /\ nextId \in Nat \ {0, 1} /\ nextId <= MaxVolumes + 1 /\ MaxVolumes \in Nat
         /\ volume \in [Ids -> Sizeds \cup {NoVolume}]
         /\ flashcopy \in [Ids -> CopyRecs \cup {NoCopy}]
         /\ \A i \in Ids : Exists(i) => i < nextId /\ volume[i].copyOf \in {NoId} \cup Ids /\ volume[i] \in Sizeds
         /\ \A i \in Ids : IsCopy(i) => Exists(i) /\ Exists(flashcopy[i].source) /\ flashcopy[i] \in CopyRecs
         /\ \A i \in Ids : Exists(i) <=> volume[i] # NoVolume
  BY ArrayAssumption DEF Sound, Arrayed, Exists, IsCopy

LEMMA CreateVolumeEffects ==
  ASSUME Sound, NEW l \in LocRecs, NEW m, m.pc = "readback", l.pc = "create", m.id = nextId,
         CreateVolume(l.call.name, l.size)
  PROVE  Effects(l, m)
  <1>0. l.call.name \in Names /\ l.size \in Nat /\ l.call.name # "none"
    BY ArrayAssumption DEF LocRecs, CallRecs
  <1>1. /\ nextId \in Ids /\ nextId' = nextId + 1 /\ flashcopy' = flashcopy
        /\ volume' = [volume EXCEPT ![nextId] = [name |-> l.call.name, size |-> l.size, copyOf |-> NoId]]
    BY DEF CreateVolume
  <1>2. \A i \in Ids : i # nextId => volume'[i] = volume[i]
    BY <1>1, ArrayedIs
  <1>3. volume'[nextId] = [name |-> l.call.name, size |-> l.size, copyOf |-> NoId] /\ volume'[nextId] # NoVolume
    BY <1>0, <1>1, ArrayedIs DEF NoVolume
  <1>4. ~Exists(nextId) /\ \A i \in Ids : i = nextId => Exists(i)'
    BY <1>1, <1>3, ArrayedIs DEF Exists
  <1>5. \A i \in Ids : i # nextId => (Exists(i)' <=> Exists(i))
    BY <1>2 DEF Exists
  <1>6. \A i \in Ids : IsCopy(i)' <=> IsCopy(i)
    BY <1>1 DEF IsCopy
  <1>7. \A i \in Ids : IsCopy(i) => i # nextId /\ flashcopy[i].source # nextId /\ flashcopy[i].source \in Ids
    BY <1>4, ArrayedIs DEF CopyRecs
  <1>8. Arrayed'
    <2>1. volume' \in [Ids -> Sizeds \cup {NoVolume}]
      BY <1>0, <1>1, ArrayedIs DEF Sizeds, NoId
    <2>2. \A i \in Ids : Exists(i)' => i < nextId' /\ volume'[i].copyOf \in {NoId} \cup Ids
      BY <1>1, <1>2, <1>3, <1>5, ArrayedIs DEF Ids
    <2>3. nextId' \in Nat \ {0, 1} /\ nextId' <= MaxVolumes + 1
      BY <1>1, ArrayedIs DEF Ids
    <2>4. (\A i \in Ids : IsCopy(i) => Exists(i) /\ Exists(flashcopy[i].source))'
      BY <1>1, <1>5, <1>6, <1>7, ArrayedIs
    <2> QED
      BY <1>1, <2>1, <2>2, <2>3, <2>4, ArrayedIs DEF Arrayed
  <1>9. ASSUME NEW i \in Ids
        PROVE  VolumeStep(l, m, i) /\ CopyStep(l, m, i)
    <2>1. CASE i = nextId
      BY <1>3, <1>4, <1>6, <1>7, <2>1 DEF VolumeStep, CopyStep
    <2>2. CASE i # nextId
      <3>1. volume'[i] = volume[i] /\ flashcopy'[i] = flashcopy[i] /\ (Exists(i)' <=> Exists(i))
        BY <1>1, <1>2, <1>5, <2>2
      <3>2. Exists(i) => volume[i].size \in Nat
        BY ArrayedIs DEF Sizeds
      <3> QED
        BY <3>1, <3>2 DEF VolumeStep, CopyStep
    <2> QED
      BY <2>1, <2>2
  <1> QED
    BY <1>1, <1>4, <1>8, <1>9 DEF Effects

\* A request that changes one volume's size or data, or one relationship.
LEMMA ExtendVolumeEffects ==
  ASSUME Sound, NEW l \in LocRecs, NEW m, m.pc # "readback", Exists(l.id),
         NEW z \in Nat, z > volume[l.id].size, ExtendVolume(l.id, z)
  PROVE  Effects(l, m)
  <1> PICK j : j = l.id
    OBVIOUS
  <1>1. /\ j \in Ids /\ nextId' = nextId /\ flashcopy' = flashcopy /\ volume[j] \in Sizeds
        /\ volume' = [volume EXCEPT ![j].size = z]
    BY ArrayedIs DEF ExtendVolume, Exists
  <1>2. /\ volume'[j] = [volume[j] EXCEPT !.size = z]
        /\ \A i \in Ids : i # j => volume'[i] = volume[i]
    BY <1>1, ArrayedIs
  <1>3. /\ volume'[j] \in Sizeds /\ volume'[j].name = volume[j].name /\ volume'[j].copyOf = volume[j].copyOf
        /\ volume'[j].size = z /\ volume[j].size \in Nat
    BY <1>1, <1>2 DEF Sizeds
  <1>4. volume'[j] # NoVolume
    BY <1>3, ArrayAssumption DEF Sizeds, NoVolume
  <1>5. \A i \in Ids : Exists(i)' <=> Exists(i)
    BY <1>1, <1>2, <1>4 DEF Exists
  <1>6. \A i \in Ids : IsCopy(i)' <=> IsCopy(i)
    BY <1>1 DEF IsCopy
  <1>7. Arrayed'
    <2>1. volume' \in [Ids -> Sizeds \cup {NoVolume}]
      BY <1>1, <1>2, <1>3, ArrayedIs
    <2>2. \A i \in Ids : Exists(i)' => i < nextId' /\ volume'[i].copyOf \in {NoId} \cup Ids
      BY <1>1, <1>2, <1>3, <1>5, ArrayedIs
    <2>3. (\A i \in Ids : IsCopy(i) => Exists(i) /\ Exists(flashcopy[i].source))'
      BY <1>1, <1>5, <1>6, ArrayedIs DEF CopyRecs
    <2> QED
      BY <1>1, <2>1, <2>2, <2>3, ArrayedIs DEF Arrayed
  <1>8. ASSUME NEW i \in Ids
        PROVE  VolumeStep(l, m, i) /\ CopyStep(l, m, i)
    <2>1. Exists(i) => volume[i].size \in Nat
      BY ArrayedIs DEF Sizeds
    <2>2. volume'[i].name = volume[i].name /\ volume'[i].copyOf = volume[i].copyOf
      BY <1>2, <1>3
    <2>3. Exists(i) => volume'[i].size >= volume[i].size
      <3>1. CASE i = j
        BY <1>3, <3>1
      <3>2. CASE i # j
        BY <1>2, <2>1, <3>2
      <3> QED
        BY <3>1, <3>2
    <2>4. VolumeStep(l, m, i)
      BY <1>5, <2>2, <2>3 DEF VolumeStep
    <2>5. CopyStep(l, m, i)
      BY <1>1, <2>2 DEF CopyStep
    <2> QED
      BY <2>4, <2>5
  <1> QED
    BY <1>1, <1>7, <1>8 DEF Effects

\* A request that changes at most what one volume reads as, and its relationship.
LEMMA CopyEffects ==
  ASSUME Sound, NEW l \in LocRecs, NEW m, m.pc # "readback", NEW j \in Ids, Exists(j),
         nextId' = nextId, NEW from \in {NoId} \cup Ids, NEW rel \in CopyRecs \cup {NoCopy},
         volume' = [volume EXCEPT ![j].copyOf = from], flashcopy' = [flashcopy EXCEPT ![j] = rel],
         rel # NoCopy => Exists(rel.source),
         from # volume[j].copyOf =>
            \/ l.pc \in {"flash", "withdraw", "rmtargetrel", "state"} /\ j = l.id
            \/ l.pc = "rmrels" /\ j \in l.rels /\ IsCopy(j) /\ flashcopy[j].state = "copying",
         rel # NoCopy =>
            \/ /\ l.pc = "flash" /\ m.pc = "state" /\ j = l.id /\ rel.source = l.call.source
               /\ rel.state = "copying" /\ from = l.call.source
            \/ /\ l.pc = "state" /\ m = l /\ j = l.id /\ faults' > faults
               /\ IsCopy(j) /\ flashcopy[j].state = "copying"
               /\ rel.source = flashcopy[j].source /\ rel.state = "invalid"
  PROVE  Effects(l, m)
  <1>1. volume[j] \in Sizeds
    BY ArrayedIs
  <1>2. /\ volume'[j] = [volume[j] EXCEPT !.copyOf = from] /\ flashcopy'[j] = rel
        /\ \A i \in Ids : i # j => volume'[i] = volume[i] /\ flashcopy'[i] = flashcopy[i]
    BY ArrayedIs
  <1>3. /\ volume'[j] \in Sizeds /\ volume'[j].name = volume[j].name /\ volume'[j].copyOf = from
        /\ volume'[j].size = volume[j].size /\ volume[j].size \in Nat
    BY <1>1, <1>2 DEF Sizeds, Ids, NoId
  <1>4. volume'[j] # NoVolume
    BY <1>3, ArrayAssumption DEF Sizeds, NoVolume
  <1>5. \A i \in Ids : Exists(i)' <=> Exists(i)
    BY <1>2, <1>4 DEF Exists
  <1>6. \A i \in Ids : i # j => (IsCopy(i)' <=> IsCopy(i))
    BY <1>2 DEF IsCopy
  <1>7. IsCopy(j)' <=> rel # NoCopy
    BY <1>2 DEF IsCopy
  <1>8. Arrayed'
    <2>1. volume' \in [Ids -> Sizeds \cup {NoVolume}] /\ flashcopy' \in [Ids -> CopyRecs \cup {NoCopy}]
      BY <1>2, <1>3, ArrayedIs
    <2>2. \A i \in Ids : Exists(i)' => i < nextId' /\ volume'[i].copyOf \in {NoId} \cup Ids
      BY <1>2, <1>3, <1>5, ArrayedIs
    <2>3. (\A i \in Ids : IsCopy(i) => Exists(i) /\ Exists(flashcopy[i].source))'
      <3>1. ASSUME NEW i \in Ids, IsCopy(i)'
            PROVE  Exists(i) /\ Exists(flashcopy'[i].source) /\ flashcopy'[i].source \in Ids
        <4>1. CASE i = j
          BY <1>2, <1>7, <3>1, <4>1 DEF CopyRecs
        <4>2. CASE i # j
          BY <1>2, <1>6, <3>1, <4>2, ArrayedIs DEF CopyRecs
        <4> QED
          BY <4>1, <4>2
      <3> QED
        BY <1>5, <3>1
    <2> QED
      BY <2>1, <2>2, <2>3, ArrayedIs DEF Arrayed
  <1>9. ASSUME NEW i \in Ids
        PROVE  VolumeStep(l, m, i) /\ CopyStep(l, m, i)
    <2>1. Exists(i) => volume[i].size \in Nat
      BY ArrayedIs DEF Sizeds
    <2>2. volume'[i].name = volume[i].name /\ volume'[i].size = volume[i].size
      BY <1>2, <1>3
    <2>3. volume'[i].copyOf # volume[i].copyOf => i = j /\ from # volume[j].copyOf
      BY <1>2, <1>3
    <2>4. VolumeStep(l, m, i)
      BY <1>5, <2>1, <2>2, <2>3 DEF VolumeStep
    <2>5. CopyStep(l, m, i)
      BY <1>2, <1>3, <1>7 DEF CopyStep
    <2> QED
      BY <2>4, <2>5
  <1> QED
    BY <1>8, <1>9 DEF Effects

LEMMA DeleteFlashcopyEffects ==
  ASSUME Sound, NEW l \in LocRecs, NEW m, m.pc # "readback", NEW j \in Ids, IsCopy(j), DeleteFlashcopy(j),
         (l.pc \in {"withdraw", "rmtargetrel"} /\ j = l.id) \/ (l.pc = "rmrels" /\ j \in l.rels)
  PROVE  Effects(l, m)
  <1>1. /\ Exists(j) /\ volume[j] \in Sizeds /\ volume[j].copyOf \in {NoId} \cup Ids
        /\ nextId' = nextId /\ flashcopy' = [flashcopy EXCEPT ![j] = NoCopy]
    BY ArrayedIs DEF DeleteFlashcopy
  <1> PICK from \in {NoId} \cup Ids : from = IF flashcopy[j].state = "copying" THEN NoId ELSE volume[j].copyOf
    BY <1>1
  <1>2. volume' = [volume EXCEPT ![j].copyOf = from]
    <2>1. CASE flashcopy[j].state = "copying"
      BY <2>1 DEF DeleteFlashcopy
    <2>2. CASE flashcopy[j].state # "copying"
      <3>1. volume' = volume
        BY <2>2 DEF DeleteFlashcopy
      <3>2. [volume[j] EXCEPT !.copyOf = from] = volume[j]
        BY <1>1, <2>2 DEF Sizeds
      <3>3. [volume EXCEPT ![j].copyOf = from] = volume
        BY <3>2, ArrayedIs
      <3> QED
        BY <3>1, <3>3
    <2> QED
      BY <2>1, <2>2
  <1> QED
    BY <1>1, <1>2, CopyEffects

LEMMA ArrayEffects ==
  ASSUME Sound, NEW t \in Threads, NEW l, l = loc[t], l.pc # "idle", NEW m, ArrayStep(l, m)
  PROVE  Effects(l, m)
  <1>1. /\ l \in LocRecs /\ InStep(l) /\ l.size \in Nat /\ l.call.size \in Nat
        /\ l.rels \subseteq Ids
    BY LocIs DEF LocRecs, CallRecs
  <1>2. l.pc \in {"rmtarget", "rmvolume", "withdraw", "rmtargetrel", "state"} => l.id \in Ids
    <2>1. l.pc \in {"rmtarget", "rmvolume", "withdraw", "rmtargetrel", "state"} => l.id # NoId
      <3>1. l.pc \in {"rmtarget", "withdraw", "state"} => Makes(l)
        BY <1>1 DEF InStep, Makes, Filling, Creates
      <3>2. l.pc \in {"rmvolume", "rmtargetrel"} => Makes(l) \/ l.call.op \notin Creates
        BY DEF Makes, Removing
      <3> QED
        BY <3>1, <3>2 DEF Sound, LocOK
    <2> QED
      BY <2>1, IdIs
  <1>3. CASE m.pc = "readback" /\ l.pc = "create" /\ m.id = nextId /\ CreateVolume(l.call.name, l.size)
    BY <1>1, <1>3, CreateVolumeEffects
  <1>4. CASE m.pc # "readback" /\ UNCHANGED arrayVars
    <2>1. nextId' = nextId /\ volume' = volume /\ flashcopy' = flashcopy
      BY <1>4 DEF arrayVars
    <2>2. \A i : (Exists(i)' <=> Exists(i)) /\ (IsCopy(i)' <=> IsCopy(i))
      BY <2>1 DEF Exists, IsCopy
    <2>3. Arrayed'
      BY <2>1, <2>2 DEF Sound, Arrayed
    <2>4. \A i \in Ids : Exists(i) => volume[i].size \in Nat
      BY ArrayedIs DEF Sizeds
    <2> QED
      BY <1>4, <2>1, <2>2, <2>3, <2>4 DEF Effects, VolumeStep, CopyStep
  <1>5. CASE m.pc # "readback" /\ Exists(l.id) /\
             \E z \in {l.size, l.call.size} : z > volume[l.id].size /\ ExtendVolume(l.id, z)
    BY <1>1, <1>5, ExtendVolumeEffects
  <1>6. CASE /\ l.pc = "flash" /\ m.pc = "state" /\ Exists(l.call.source) /\ Exists(l.id)
             /\ \E nocopy \in BOOLEAN : CreateFlashcopy(l.call.source, l.id, nocopy)
    <2> PICK nocopy \in BOOLEAN : CreateFlashcopy(l.call.source, l.id, nocopy)
      BY <1>6
    <2> PICK rel : rel = [source |-> l.call.source, nocopy |-> nocopy, state |-> "copying"]
      OBVIOUS
    <2>1. l.id \in Ids /\ l.call.source \in Ids
      BY <1>6 DEF Exists
    <2>2. rel \in CopyRecs /\ rel.source = l.call.source /\ rel.state = "copying"
      BY <2>1 DEF CopyRecs, CopyStates
    <2>3. /\ flashcopy' = [flashcopy EXCEPT ![l.id] = rel] /\ nextId' = nextId
          /\ volume' = [volume EXCEPT ![l.id].copyOf = l.call.source]
      BY DEF CreateFlashcopy
    <2> QED
      BY <1>1, <1>6, <2>1, <2>2, <2>3, CopyEffects
  <1>7. CASE m.pc # "readback" /\ l.pc \in {"withdraw", "rmtargetrel"} /\ IsCopy(l.id) /\ DeleteFlashcopy(l.id)
    BY <1>1, <1>2, <1>7, DeleteFlashcopyEffects
  <1>8. CASE m.pc # "readback" /\ l.pc = "rmrels" /\ \E r \in l.rels : IsCopy(r) /\ DeleteFlashcopy(r)
    BY <1>1, <1>8, DeleteFlashcopyEffects
  <1>9. CASE m.pc # "readback" /\ l.pc \in {"rmtarget", "rmvolume"} /\ Free(l.id) /\ DeleteVolume(l.id)
    <2> PICK j : j = l.id
      OBVIOUS
    <2>1. /\ j \in Ids /\ nextId' = nextId /\ flashcopy' = flashcopy /\ volume' = [volume EXCEPT ![j] = NoVolume]
          /\ Exists(j) /\ FlashcopiesOf(j) = {}
      BY <1>2, <1>9 DEF DeleteVolume, Free
    <2>2. volume'[j] = NoVolume /\ \A i \in Ids : i # j => volume'[i] = volume[i]
      BY <2>1, ArrayedIs
    <2>3. ~Exists(j)' /\ \A i \in Ids : i # j => (Exists(i)' <=> Exists(i))
      BY <2>2 DEF Exists
    <2>4. \A i \in Ids : IsCopy(i)' <=> IsCopy(i)
      BY <2>1 DEF IsCopy
    <2>5. \A i \in Ids : IsCopy(i) => i # j /\ flashcopy[i].source # j /\ flashcopy[i].source \in Ids
      BY <2>1, ArrayedIs DEF FlashcopiesOf, CopiesFrom, CopyRecs
    <2>6. Arrayed'
      <3>1. volume' \in [Ids -> Sizeds \cup {NoVolume}]
        BY <2>1, ArrayedIs
      <3>2. \A i \in Ids : Exists(i)' => i < nextId' /\ volume'[i].copyOf \in {NoId} \cup Ids
        BY <2>1, <2>2, <2>3, ArrayedIs
      <3>3. (\A i \in Ids : IsCopy(i) => Exists(i) /\ Exists(flashcopy[i].source))'
        BY <2>1, <2>3, <2>4, <2>5, ArrayedIs
      <3> QED
        BY <2>1, <3>1, <3>2, <3>3, ArrayedIs DEF Arrayed
    <2>7. ASSUME NEW i \in Ids
          PROVE  VolumeStep(l, m, i) /\ CopyStep(l, m, i)
      <3>1. Exists(i) => volume[i].size \in Nat
        BY ArrayedIs DEF Sizeds
      <3>2. CASE i = j
        BY <1>9, <2>1, <2>3, <2>4, <2>5, <3>2 DEF VolumeStep, CopyStep
      <3>3. CASE i # j
        BY <2>1, <2>2, <2>3, <3>1, <3>3 DEF VolumeStep, CopyStep
      <3> QED
        BY <3>2, <3>3
    <2> QED
      BY <1>9, <2>1, <2>6, <2>7 DEF Effects
  <1>10. CASE m.pc # "readback" /\ l.pc = "state" /\ faults' > faults /\ m = l /\ CopyFails(l.id)
    <2> PICK rel : rel = [flashcopy[l.id] EXCEPT !.state = "invalid"]
      OBVIOUS
    <2>1. /\ IsCopy(l.id) /\ flashcopy[l.id].state = "copying" /\ l.id \in Ids /\ flashcopy[l.id] \in CopyRecs
          /\ Exists(l.id) /\ Exists(flashcopy[l.id].source)
      BY <1>2, <1>10, ArrayedIs DEF CopyFails
    <2>2. rel \in CopyRecs /\ rel.source = flashcopy[l.id].source /\ rel.state = "invalid"
      BY <2>1 DEF CopyRecs, CopyStates
    <2>3. /\ flashcopy' = [flashcopy EXCEPT ![l.id] = rel] /\ nextId' = nextId
          /\ volume' = [volume EXCEPT ![l.id].copyOf = NoId]
      BY <1>10, <2>1, ArrayedIs DEF CopyFails
    <2> QED
      BY <1>1, <1>10, <2>1, <2>2, <2>3, CopyEffects
  <1> QED
    BY <1>3, <1>4, <1>5, <1>6, <1>7, <1>8, <1>9, <1>10 DEF ArrayStep

-----------------------------------------------------------------------------
(***************************************************************************)
(* Sound is kept.                                                          *)
(***************************************************************************)

\* Ids are not used again, names stay and volumes do not shrink; what was
\* answered and asked for stays.
Ages ==
    /\ nextId' \in Nat /\ nextId <= nextId'
    /\ \A i \in Nat : i < nextId /\ Exists(i)' =>
          Exists(i) /\ volume'[i].name = volume[i].name /\ volume'[i].size >= volume[i].size
    /\ answers \subseteq answers' /\ deleting \subseteq deleting'

LEMMA KnownGrows ==
  ASSUME answers \subseteq answers'
  PROVE  KnownIds \subseteq KnownIds' /\ \A ops : OkTo(ops) \subseteq OkTo(ops)'
  BY DEF KnownIds, OkTo

LEMMA KnownIs ==
  ASSUME Sound, NEW i \in KnownIds
  PROVE  i \in Nat /\ i # NoId /\ i < nextId /\ i \in Ids
  <1>1. i \in Nat /\ i # NoId /\ i < nextId
    <2>1. CASE i = 1
      BY <2>1, ArrayedIs DEF NoId
    <2>2. CASE i # 1
      <3> PICK a \in OkTo(Creates) : i = a.id
        BY <2>2 DEF KnownIds
      <3> QED
        BY DEF OkTo, Sound, AnswerOK, AnswerRecs
    <2> QED
      BY <2>1, <2>2
  <1> QED
    BY <1>1, ArrayedIs DEF Ids, NoId

LEMMA LocStays ==
  ASSUME Sound, Ages, NEW l, LocOK(l)
  PROVE  LocOK(l)'
  <1>1. l \in LocRecs /\ l.id \in Nat /\ l.id < nextId /\ l.id < nextId'
    BY ArrayedIs DEF LocOK, LocRecs, Ages
  <1>2. l.call.id \in KnownIds' \cup {NoId} /\ l.call.source \in KnownIds' \cup {NoId}
    BY KnownGrows DEF LocOK, Ages
  <1>3. Exists(l.id)' => Exists(l.id) /\ volume'[l.id].name = volume[l.id].name
    BY <1>1 DEF Ages
  <1>4. l.call.op \in Deletes => l.call.id \in deleting'
    BY DEF LocOK, Ages
  <1> QED
    BY <1>1, <1>2, <1>3, <1>4 DEF LocOK

LEMMA AnswerStays ==
  ASSUME Sound, Ages, NEW a, AnswerOK(a)
  PROVE  AnswerOK(a)'
  <1>1. a.status = "OK" => a.id \in Nat /\ a.id < nextId /\ a.id < nextId'
    <2>1. a \in AnswerRecs /\ a.id \in Nat
      BY DEF AnswerOK, AnswerRecs
    <2>2. a.status = "OK" => a.id < nextId
      BY KnownIs DEF AnswerOK
    <2> QED
      BY <2>1, <2>2, ArrayedIs DEF Ages
  <1>2. a.status = "OK" /\ Exists(a.id)' => Exists(a.id) /\ volume'[a.id].name = volume[a.id].name
    BY <1>1 DEF Ages
  <1>3. KnownIds \subseteq KnownIds'
    BY KnownGrows DEF Ages
  <1>4. a.status = "OK" /\ a.call.op = "DeleteVolume" => a.call.id = a.id
    BY DEF AnswerOK, Creates
  <1> QED
    BY <1>1, <1>2, <1>3, <1>4 DEF AnswerOK

LEMMA LocsStay ==
  ASSUME Sound, Ages, NEW t \in Threads, NEW m, loc' = [loc EXCEPT ![t] = m], LocOK(m)'
  PROVE  loc' \in [Threads -> LocRecs] /\ (\A u \in Threads : LocOK(loc[u]))'
  <1>1. m \in LocRecs
    BY DEF LocOK
  <1>2. loc' \in [Threads -> LocRecs]
    BY <1>1 DEF Sound
  <1>3. ASSUME NEW u \in Threads PROVE LocOK(loc[u])'
    <2> PICK l : l = loc'[u]
      OBVIOUS
    <2>1. l = m \/ l = loc[u]
      BY DEF Sound
    <2>2. LocOK(l)'
      BY <2>1, LocStays DEF Sound
    <2> QED
      BY <2>2
  <1> QED
    BY <1>2, <1>3

LEMMA EffectsAge ==
  ASSUME Sound, NEW l, NEW m, Effects(l, m), answers \subseteq answers', deleting \subseteq deleting'
  PROVE  Ages
  <1>1. nextId' \in Nat /\ nextId <= nextId'
    BY ArrayedIs DEF Effects
  <1>2. ASSUME NEW i \in Nat, i < nextId, Exists(i)'
        PROVE  Exists(i) /\ volume'[i].name = volume[i].name /\ volume'[i].size >= volume[i].size
    <2>1. i \in Ids
      BY <1>2 DEF Exists
    <2>2. i # nextId
      BY <1>2, ArrayedIs
    <2> QED
      BY <1>2, <2>1, <2>2 DEF Effects, VolumeStep
  <1> QED
    BY <1>1, <1>2 DEF Ages

LEMMA IdleOK ==
  ASSUME Sound
  PROVE  LocOK(Idle)
  <1>1. InStep(Idle) /\ ~Makes(Idle)
    BY IdleIs DEF InStep, Makes, Creates, Searching, Filling, Removing, Expanding, Unflashed
  <1>2. NoCall.op \notin Deletes /\ NoCall.id = NoId /\ NoCall.source = NoId
    BY DEF NoCall, Deletes
  <1> QED
    BY <1>1, <1>2, IdleIs, ArrayedIs DEF LocOK, NoId

LEMMA GoesOK ==
  ASSUME Sound, NEW t \in Threads, NEW l, l = loc[t], NEW m, Goes(l, m), Effects(l, m), Ages
  PROVE  LocOK(m)'
  <1>1. LocOK(l) /\ l \in LocRecs /\ l.id \in Nat
    BY LocIs DEF Sound
  <1>2. LocOK(l)'
    BY <1>1, LocStays
  <1>3. m \in LocRecs /\ InStep(m) /\ m.pc # "idle" /\ m.call = l.call /\ m.checks \subseteq m.rels
    BY DEF Goes
  <1>4. CASE m.pc = "readback"
    <2>1. m.id = nextId /\ nextId' = nextId + 1 /\ nextId \in Ids /\ m.call.op \in Creates
      BY <1>3, <1>4 DEF Effects, InStep, Filling, Unflashed
    <2>2. ~Exists(nextId) /\ nextId # NoId
      BY <2>1, ArrayedIs DEF NoId
    <2>3. \A i \in Ids : i = nextId /\ Exists(i)' => volume'[i].name = l.call.name
      BY <2>2 DEF Effects, VolumeStep
    <2>4. Exists(m.id)' => volume'[m.id].name = m.call.name
      BY <1>3, <2>1, <2>3
    <2>5. m.id < nextId'
      BY <2>1, ArrayedIs
    <2> QED
      BY <1>2, <1>3, <2>1, <2>2, <2>4, <2>5 DEF LocOK, Makes, Creates, Deletes
  <1>5. CASE m.pc \in {"origin", "sverify"}
    <2>1. m.id \in Named(l.call.name) /\ m.call.op \in Creates
      BY <1>3, <1>5 DEF Goes, InStep, Creates
    <2>2. m.id \in Ids /\ Exists(m.id) /\ volume[m.id].name = m.call.name
      BY <1>3, <2>1 DEF Named
    <2>3. m.id \in Nat /\ m.id < nextId /\ m.id # NoId /\ m.id < nextId'
      BY <2>2, ArrayedIs DEF Ids, NoId, Ages
    <2>4. Exists(m.id)' => volume'[m.id].name = m.call.name
      BY <2>2, <2>3 DEF Ages
    <2> QED
      BY <1>2, <1>3, <2>1, <2>3, <2>4 DEF LocOK
  <1>6. CASE m.pc \notin {"readback", "origin", "sverify"}
    <2>1. m.id = l.id /\ (Makes(m) => Makes(l)) /\ l.pc # "idle"
      <3>1. m.id = l.id /\ (Makes(m) => Makes(l))
        BY <1>6 DEF Goes
      <3>2. l.pc # "idle"
        BY <1>1, <1>3, IdleIs DEF LocOK, InStep, NoCall
      <3> QED
        BY <3>1, <3>2
    <2> QED
      BY <1>2, <1>3, <1>6, <2>1 DEF LocOK
  <1> QED
    BY <1>4, <1>5, <1>6

\* What a step of a thread does, gathered.
LEMMA StepIs ==
  ASSUME Sound, NEW t \in Threads, NEW l, l = loc[t], NEW m, Step(t, l, m)
  PROVE  /\ l \in LocRecs /\ m \in LocRecs /\ LocOK(l) /\ l.pc # "idle" /\ Effects(l, m) /\ Ages
         /\ loc' \in [Threads -> LocRecs] /\ loc'[t] = m /\ LocOK(m)'
         /\ \A u \in Threads : u # t => loc'[u] = loc[u]
         /\ KnownIds \subseteq KnownIds'
  <1>1. /\ l \in LocRecs /\ LocOK(l) /\ l.pc # "idle" /\ loc' = [loc EXCEPT ![t] = m]
        /\ Goes(l, m) \/ m = Idle
    BY DEF Sound, Step
  <1>2. m \in LocRecs
    BY <1>1, IdleIs DEF Goes
  <1>3. Effects(l, m)
    BY <1>1, ArrayEffects DEF Step
  <1>4. answers \subseteq answers' /\ deleting \subseteq deleting'
    BY DEF Step
  <1>5. Ages
    BY <1>3, <1>4, EffectsAge
  <1>6. LocOK(m)'
    <2>1. CASE m = Idle
      BY <1>5, <2>1, IdleOK, LocStays
    <2>2. CASE Goes(l, m)
      BY <1>3, <1>5, <2>2, GoesOK
    <2> QED
      BY <1>1, <2>1, <2>2
  <1>7. loc' \in [Threads -> LocRecs] /\ loc'[t] = m /\ \A u \in Threads : u # t => loc'[u] = loc[u]
    BY <1>1, <1>2 DEF Sound
  <1> QED
    BY <1>1, <1>2, <1>3, <1>4, <1>5, <1>6, <1>7, KnownGrows

LEMMA EndsOK ==
  ASSUME Sound, NEW t \in Threads, NEW l, l = loc[t], l.pc # "idle", Ages, KnownIds \subseteq KnownIds',
         NEW status \in Statuses, NEW i \in {NoId, l.id}, Ends(l, status, i),
         NEW a, a = [call |-> l.call, status |-> status, id |-> i]
  PROVE  AnswerOK(a)'
  <1>1. LocOK(l) /\ l \in LocRecs /\ l.id \in Nat /\ l.call \in CallRecs /\ l.id < nextId /\ l.pc \in Pcs
    BY LocIs DEF Sound, LocOK
  <1>2. a \in AnswerRecs /\ a.call = l.call /\ a.status = status /\ a.id = i
    BY <1>1 DEF AnswerRecs, NoId
  <1>3. status = "OK" => i = l.id
    BY DEF Ends
  <1>4. LocOK(l)' /\ l.id < nextId'
    BY <1>1, LocStays DEF LocOK
  <1>5. CASE status = "OK" /\ l.call.op \in Creates
    <2>1. Makes(l) \/ l.pc \in {"origin", "sverify"}
      BY <1>5 DEF Ends, Makes, Filling, Unflashed
    <2>2. l.id # NoId /\ (Exists(l.id)' => volume'[l.id].name = l.call.name)
      BY <1>4, <2>1 DEF LocOK
    <2>3. Exists(a.id)' => volume'[a.id].name = a.call.name
      BY <1>2, <1>3, <1>5, <2>2
    <2>4. a.call.op \in Creates /\ a.call.op # "DeleteVolume"
      BY <1>2, <1>5 DEF Creates
    <2> QED
      BY <1>2, <1>3, <1>4, <1>5, <2>2, <2>3, <2>4 DEF AnswerOK
  <1>6. CASE status = "OK" /\ l.call.op \notin Creates
    <2>1. l.id = l.call.id /\ l.id \in KnownIds'
      BY <1>1, <1>6 DEF LocOK
    <2>2. l.call.op = "DeleteVolume" => ~Exists(l.id)'
      BY <1>6 DEF Ends
    <2>3. a.call.op = "DeleteVolume" => ~Exists(a.call.id)'
      BY <1>2, <2>1, <2>2
    <2> QED
      BY <1>2, <1>3, <1>6, <2>1, <2>3 DEF AnswerOK
  <1>7. CASE status # "OK"
    BY <1>2, <1>7 DEF AnswerOK
  <1> QED
    BY <1>5, <1>6, <1>7

LEMMA AdvanceSound ==
  ASSUME Sound, NEW t \in Threads, Advance(t)
  PROVE  Sound'
  <1> PICK l \in LocRecs, m \in LocRecs : l = loc[t] /\ Step(t, l, m)
    BY DEF Advance
  <1>1. /\ Effects(l, m) /\ Ages /\ LocOK(m)' /\ l.pc # "idle" /\ KnownIds \subseteq KnownIds'
        /\ loc' = [loc EXCEPT ![t] = m]
    BY StepIs DEF Step
  <1>2. Arrayed'
    BY <1>1 DEF Effects
  <1>3. Counted'
    BY DEF Step, Sound, Counted
  <1>4. loc' \in [Threads -> LocRecs] /\ (\A u \in Threads : LocOK(loc[u]))'
    BY <1>1, LocsStay
  <1>5. ASSUME NEW a \in answers' PROVE AnswerOK(a)'
    <2>1. CASE a \in answers
      BY <1>1, <2>1, AnswerStays DEF Sound
    <2>2. CASE a \notin answers
      <3> PICK status \in Statuses, i \in {NoId, l.id} :
             /\ answers' = answers \cup {[call |-> l.call, status |-> status, id |-> i]}
             /\ Ends(l, status, i)
        BY <2>2 DEF Step
      <3>1. a = [call |-> l.call, status |-> status, id |-> i]
        BY <1>5, <2>2
      <3> QED
        BY <1>1, <3>1, EndsOK
    <2> QED
      BY <2>1, <2>2
  <1>6. deleting' \subseteq KnownIds'
    BY <1>1 DEF Step, Sound
  <1> QED
    BY <1>2, <1>3, <1>4, <1>5, <1>6 DEF Sound

\* The orchestrator asks of what it knows.
LEMMA KnownRecs ==
  ASSUME Sound, NEW k \in Known
  PROVE  k.id \in KnownIds /\ k.id \in Nat /\ k.name \in Names /\ k.op \in Creates
  <1>1. CASE k = [id |-> 1, name |-> Source, op |-> "CreateVolume"]
    BY <1>1, ProvisioningAssumption DEF KnownIds, Creates
  <1>2. CASE k # [id |-> 1, name |-> Source, op |-> "CreateVolume"]
    <2> PICK a \in answers : /\ a.call.op \in Creates /\ a.status = "OK"
                             /\ k = [id |-> a.id, name |-> a.call.name, op |-> a.call.op]
      BY <1>2 DEF Known
    <2>1. a \in AnswerRecs /\ a.call \in CallRecs /\ a.call.name \in Names /\ a.id \in Nat
      BY DEF Sound, AnswerOK, AnswerRecs, CallRecs
    <2> QED
      BY <2>1 DEF KnownIds, OkTo
  <1> QED
    BY <1>1, <1>2

LEMMA KnownIdsAre == KnownIds = {k.id : k \in Known}
  <1>1. ASSUME NEW i \in KnownIds PROVE i \in {k.id : k \in Known}
    <2>1. CASE i = 1
      <3> PICK k : k = [id |-> 1, name |-> Source, op |-> "CreateVolume"]
        OBVIOUS
      <3>1. k \in Known /\ k.id = i
        BY <2>1 DEF Known
      <3> QED
        BY <3>1
    <2>2. CASE i # 1
      <3> PICK a \in OkTo(Creates) : i = a.id
        BY <2>2 DEF KnownIds
      <3> PICK k : k = [id |-> a.id, name |-> a.call.name, op |-> a.call.op]
        OBVIOUS
      <3>1. k \in Known /\ k.id = i
        BY DEF Known, OkTo
      <3> QED
        BY <3>1
    <2> QED
      BY <2>1, <2>2
  <1>2. ASSUME NEW k \in Known PROVE k.id \in KnownIds
    <2>1. CASE k = [id |-> 1, name |-> Source, op |-> "CreateVolume"]
      BY <2>1 DEF KnownIds
    <2>2. CASE k # [id |-> 1, name |-> Source, op |-> "CreateVolume"]
      <3> PICK a \in OkTo(Creates) : k = [id |-> a.id, name |-> a.call.name, op |-> a.call.op]
        BY <2>2 DEF Known, OkTo
      <3> QED
        BY DEF KnownIds
    <2> QED
      BY <2>1, <2>2
  <1> QED
    BY <1>1, <1>2

\* A call of the orchestrator.
CallOK(c) ==
    /\ c \in CallRecs /\ c.op \in RPCs
    /\ c.source \in KnownIds \cup {NoId}
    /\ c.op \in Creates => c.name # Source /\ c.id = NoId
    /\ c.op \notin Creates => \E k \in Known : c.id = k.id /\ c.name = k.name

LEMMA CallsAre ==
  ASSUME Sound, NEW t \in Threads, Start(t)
  PROVE  \E c : CallOK(c) /\ Ask(t, c)
  <1>1. /\ NoCall \in CallRecs /\ NoCall.id = NoId /\ NoCall.source = NoId /\ NoCall.kind = "volume"
        /\ NoCall.size = 0 /\ NoCall.name \in Names /\ NoId \in Nat
    BY ProvisioningAssumption, IdleIs DEF NoCall, NoId
  <1>3. {"CreateVolume", "CreateSnapshot", "DeleteVolume", "DeleteSnapshot", "Expand"} \subseteq RPCs
    BY DEF RPCs, Creates, Deletes
  <1>4. ASSUME NEW n \in Names \ {Source}, NEW z \in Sizes, NEW c,
               c = [NoCall EXCEPT !.op = "CreateVolume", !.name = n, !.size = z]
        PROVE  CallOK(c)
    <2>1. z \in Nat
      BY ProvisioningAssumption
    <2>2. c \in CallRecs /\ c.op = "CreateVolume" /\ c.name = n /\ c.id = NoId /\ c.source = NoId
      BY <1>1, <1>3, <1>4, <2>1 DEF CallRecs
    <2> QED
      BY <1>3, <2>2 DEF CallOK, Creates
  <1>5. ASSUME NEW n \in Names \ {Source}, NEW z \in Sizes, NEW k \in Known, NEW c,
               c = [NoCall EXCEPT !.op = "CreateVolume", !.name = n, !.size = z, !.source = k.id,
                                  !.kind = IF k \in Volumes THEN "volume" ELSE "snapshot"]
        PROVE  CallOK(c)
    <2>1. z \in Nat /\ k.id \in Nat /\ k.id \in KnownIds
      BY ProvisioningAssumption, KnownRecs
    <2>2. c \in CallRecs /\ c.op = "CreateVolume" /\ c.name = n /\ c.id = NoId /\ c.source = k.id
      BY <1>1, <1>3, <1>5, <2>1 DEF CallRecs
    <2> QED
      BY <1>3, <2>1, <2>2 DEF CallOK, Creates
  <1>6. ASSUME NEW n \in Names \ {Source}, NEW k \in Volumes, NEW c,
               c = [NoCall EXCEPT !.op = "CreateSnapshot", !.name = n, !.source = k.id]
        PROVE  CallOK(c)
    <2>1. k.id \in Nat /\ k.id \in KnownIds
      BY KnownRecs DEF Volumes
    <2>2. c \in CallRecs /\ c.op = "CreateSnapshot" /\ c.name = n /\ c.id = NoId /\ c.source = k.id
      BY <1>1, <1>3, <1>6, <2>1 DEF CallRecs
    <2> QED
      BY <1>3, <2>1, <2>2 DEF CallOK, Creates
  <1>7. ASSUME NEW k \in Known, NEW c,
               c = [NoCall EXCEPT !.op = IF k \in Volumes THEN "DeleteVolume" ELSE "DeleteSnapshot",
                                  !.name = k.name, !.id = k.id]
        PROVE  CallOK(c)
    <2>1. k.id \in Nat /\ k.name \in Names
      BY KnownRecs
    <2>2. /\ c \in CallRecs /\ c.name = k.name /\ c.id = k.id /\ c.source = NoId
          /\ c.op = IF k \in Volumes THEN "DeleteVolume" ELSE "DeleteSnapshot"
      BY <1>1, <1>3, <1>7, <2>1 DEF CallRecs
    <2>3. c.op \in RPCs /\ c.op \notin Creates
      BY <1>3, <2>2 DEF Creates
    <2> QED
      BY <2>2, <2>3 DEF CallOK
  <1>8. ASSUME NEW k \in Volumes, NEW z \in Sizes, NEW c,
               c = [NoCall EXCEPT !.op = "Expand", !.name = k.name, !.id = k.id, !.size = z]
        PROVE  CallOK(c)
    <2>1. k \in Known /\ k.id \in Nat /\ k.name \in Names /\ z \in Nat
      BY KnownRecs, ProvisioningAssumption DEF Volumes
    <2>2. c \in CallRecs /\ c.op = "Expand" /\ c.name = k.name /\ c.id = k.id /\ c.source = NoId
      BY <1>1, <1>3, <1>8, <2>1 DEF CallRecs
    <2> QED
      BY <1>3, <2>1, <2>2 DEF CallOK, Creates
  <1> QED
    BY <1>4, <1>5, <1>6, <1>7, <1>8 DEF Start

\* A thread that takes up a call; the array does not change.
Opens(t, c, m) ==
    /\ loc[t] = Idle /\ loc' = [loc EXCEPT ![t] = m] /\ m \in LocRecs /\ InStep(m)
    /\ m.pc \in {"lookup", "slook", "find", "xlook"} /\ m.call = c /\ m.id = c.id
    /\ m.checks = {} /\ m.rels = {} /\ m.undo = "none" /\ ~Makes(m)
    /\ overlap' = (overlap \/ \E o \in Threads : loc[o] # Idle /\ loc[o].call.name = c.name)
    /\ deleting' = IF c.op \in Deletes THEN deleting \cup {c.id} ELSE deleting
    /\ UNCHANGED <<volume, flashcopy, nextId, answers, refused, faults, crashes>>

LEMMA StartOpens ==
  ASSUME Sound, NEW t \in Threads, Start(t)
  PROVE  \E c, m : CallOK(c) /\ Opens(t, c, m) /\ calls' = calls + 1
  <1> PICK c : CallOK(c) /\ Ask(t, c)
    BY CallsAre
  <1> PICK m : m = [Idle EXCEPT !.call = c, !.id = c.id, !.pc = FirstStep[c.op]]
    OBVIOUS
  <1>1. /\ c.op = "CreateVolume" => FirstStep[c.op] = "lookup"
        /\ c.op = "CreateSnapshot" => FirstStep[c.op] = "slook"
        /\ c.op \in Deletes => FirstStep[c.op] = "find"
        /\ c.op = "Expand" => FirstStep[c.op] = "xlook"
    BY DEF FirstStep, Deletes
  <1>2. /\ c \in CallRecs /\ c.id \in Nat /\ c.op # "none"
        /\ c.op \in {"CreateVolume", "CreateSnapshot", "Expand"} \cup Deletes
    BY DEF CallOK, CallRecs, RPCs, Creates, Deletes
  <1>3. FirstStep[c.op] \in {"lookup", "slook", "find", "xlook"}
    BY <1>1, <1>2
  <1>4. {"lookup", "slook", "find", "xlook"} \subseteq Pcs
    BY DEF Pcs, Searching, Removing, Expanding
  <1>5. /\ m \in LocRecs /\ m.pc = FirstStep[c.op] /\ m.call = c /\ m.id = c.id
        /\ m.checks = {} /\ m.rels = {} /\ m.undo = "none"
    BY <1>2, <1>3, <1>4, IdleIs DEF LocRecs
  <1>6. InStep(m) /\ ~Makes(m)
    BY <1>1, <1>2, <1>3, <1>5
    DEF InStep, Makes, Searching, Filling, Unflashed, Removing, Expanding, Creates, Deletes
  <1>7. Opens(t, c, m) /\ calls' = calls + 1
    BY <1>3, <1>5, <1>6 DEF Opens, Ask, Then, Go, arrayVars
  <1> QED
    BY <1>7

\* The array and the answers stay.
Rests == UNCHANGED <<volume, nextId, answers>> /\ deleting \subseteq deleting'

LEMMA RestsAge ==
  ASSUME Sound, Rests
  PROVE  Ages /\ (flashcopy' = flashcopy => Arrayed') /\ KnownIds' = KnownIds /\ Known' = Known
         /\ (\A i : Exists(i)' <=> Exists(i))
  <1>1. volume' = volume /\ nextId' = nextId /\ answers' = answers
    BY DEF Rests
  <1>2. \A i : Exists(i)' <=> Exists(i)
    BY <1>1 DEF Exists
  <1>3. flashcopy' = flashcopy => \A i : IsCopy(i)' <=> IsCopy(i)
    BY DEF IsCopy
  <1>4. flashcopy' = flashcopy => Arrayed'
    BY <1>1, <1>2, <1>3 DEF Sound, Arrayed
  <1>5. Ages
    <2>1. \A i \in Nat : i < nextId /\ Exists(i) => volume[i].size \in Nat
      BY ArrayedIs DEF Exists, Sizeds
    <2> QED
      BY <1>1, <1>2, <2>1, ArrayedIs DEF Ages, Rests
  <1> QED
    BY <1>1, <1>2, <1>4, <1>5 DEF KnownIds, OkTo, Known

LEMMA StartSound ==
  ASSUME Sound, NEW t \in Threads, Start(t)
  PROVE  Sound'
  <1> PICK c, m : CallOK(c) /\ Opens(t, c, m) /\ calls' = calls + 1
    BY StartOpens
  <1>1. Rests
    BY DEF Rests, Opens
  <1>2. Ages /\ Arrayed' /\ KnownIds' = KnownIds /\ nextId' = nextId
    BY <1>1, RestsAge DEF Opens, Rests
  <1>3. c.op \notin Creates => c.id \in KnownIds
    BY KnownIdsAre DEF CallOK
  <1>4. c.id < nextId /\ c.id \in KnownIds \cup {NoId}
    BY <1>3, KnownIs, ArrayedIs DEF CallOK, NoId
  <1>5. LocOK(m)'
    <2>1. c.op \notin Creates => c.id # NoId
      BY <1>3, KnownIs
    <2>2. c.op \in Deletes => c.id \in deleting'
      BY DEF Opens
    <2> QED
      BY <1>2, <1>4, <2>1, <2>2 DEF LocOK, Opens, CallOK
  <1>6. loc' \in [Threads -> LocRecs] /\ (\A u \in Threads : LocOK(loc[u]))'
    BY <1>2, <1>5, LocsStay DEF Opens
  <1>7. ASSUME NEW a \in answers' PROVE AnswerOK(a)'
    BY <1>2, <1>7, AnswerStays DEF Sound, Opens
  <1>8. Counted'
    BY DEF Sound, Counted, Opens
  <1>9. deleting' \subseteq KnownIds'
    BY <1>2, <1>3 DEF Sound, Opens, Deletes, Creates
  <1> QED
    BY <1>2, <1>6, <1>7, <1>8, <1>9 DEF Sound

LEMMA CrashSound ==
  ASSUME Sound, Crash
  PROVE  Sound'
  <1>1. Rests /\ flashcopy' = flashcopy /\ answers' = answers /\ deleting' = deleting
    BY DEF Rests, Crash, arrayVars
  <1>2. Ages /\ Arrayed' /\ KnownIds' = KnownIds
    BY <1>1, RestsAge
  <1>3. LocOK(Idle)'
    BY <1>2, IdleOK, LocStays
  <1>4. loc' = [t \in Threads |-> Idle]
    BY DEF Crash
  <1>5. loc' \in [Threads -> LocRecs]
    BY <1>4, IdleIs
  <1>6. ASSUME NEW u \in Threads PROVE LocOK(loc[u])'
    <2> PICK l : l = Idle
      OBVIOUS
    <2>1. LocOK(l)' /\ loc'[u] = l
      BY <1>3, <1>4
    <2> QED
      BY <2>1
  <1>7. \A a \in answers' : AnswerOK(a)'
    BY <1>1, <1>2, AnswerStays DEF Sound
  <1>8. Counted'
    BY DEF Sound, Counted, Crash
  <1> QED
    BY <1>1, <1>2, <1>5, <1>6, <1>7, <1>8 DEF Sound

\* The array finishes a copy.
LEMMA CopyDoneIs ==
  ASSUME Sound, BackgroundCopy
  PROVE  \E j \in Ids :
            /\ IsCopy(j) /\ IsCopy(j)' /\ flashcopy[j].state = "copying" /\ ~flashcopy[j].nocopy
            /\ flashcopy'[j].source = flashcopy[j].source /\ flashcopy'[j].state = "done"
            /\ flashcopy'[j].nocopy = flashcopy[j].nocopy /\ flashcopy'[j] \in CopyRecs
            /\ flashcopy' \in [Ids -> CopyRecs \cup {NoCopy}]
            /\ \A i \in Ids : i # j => flashcopy'[i] = flashcopy[i]
            /\ UNCHANGED <<volume, nextId, loc, answers, deleting, overlap, refused, calls, faults, crashes>>
  <1> PICK j \in Ids : CopyDone(j)
    BY DEF BackgroundCopy
  <1>1. /\ IsCopy(j) /\ flashcopy[j].state = "copying" /\ ~flashcopy[j].nocopy
        /\ flashcopy' = [flashcopy EXCEPT ![j].state = "done"] /\ UNCHANGED <<volume, nextId>>
    BY DEF CopyDone
  <1>2. flashcopy[j] \in CopyRecs
    BY <1>1, ArrayedIs
  <1>3. flashcopy'[j] = [flashcopy[j] EXCEPT !.state = "done"] /\ \A i \in Ids : i # j => flashcopy'[i] = flashcopy[i]
    BY <1>1, ArrayedIs
  <1>4. /\ flashcopy'[j].source = flashcopy[j].source /\ flashcopy'[j].state = "done"
        /\ flashcopy'[j].nocopy = flashcopy[j].nocopy /\ flashcopy'[j] \in CopyRecs
    BY <1>2, <1>3 DEF CopyRecs, CopyStates
  <1>5. flashcopy' \in [Ids -> CopyRecs \cup {NoCopy}]
    BY <1>1, <1>3, <1>4, ArrayedIs
  <1>6. IsCopy(j)'
    BY <1>4 DEF IsCopy, NoCopy
  <1> QED
    BY <1>1, <1>3, <1>4, <1>5, <1>6 DEF BackgroundCopy, bounds

LEMMA BackgroundCopySound ==
  ASSUME Sound, BackgroundCopy
  PROVE  Sound'
  <1> PICK j \in Ids :
            /\ IsCopy(j) /\ IsCopy(j)' /\ flashcopy[j].state = "copying" /\ ~flashcopy[j].nocopy
            /\ flashcopy'[j].source = flashcopy[j].source /\ flashcopy'[j].state = "done"
            /\ flashcopy'[j].nocopy = flashcopy[j].nocopy /\ flashcopy'[j] \in CopyRecs
            /\ flashcopy' \in [Ids -> CopyRecs \cup {NoCopy}]
            /\ \A i \in Ids : i # j => flashcopy'[i] = flashcopy[i]
            /\ UNCHANGED <<volume, nextId, loc, answers, deleting, overlap, refused, calls, faults, crashes>>
    BY CopyDoneIs
  <1>1. Rests
    BY DEF Rests
  <1>2. Ages /\ KnownIds' = KnownIds /\ \A i : Exists(i)' <=> Exists(i)
    BY <1>1, RestsAge
  <1>3. (\A i \in Ids : IsCopy(i) => Exists(i) /\ Exists(flashcopy[i].source))'
    <2>1. ASSUME NEW i \in Ids, IsCopy(i)'
          PROVE  Exists(i) /\ Exists(flashcopy'[i].source) /\ flashcopy'[i].source = flashcopy[i].source
      BY <2>1, ArrayedIs DEF IsCopy
    <2> QED
      BY <1>2, <2>1
  <1>4. Arrayed'
    BY <1>2, <1>3, ArrayedIs DEF Arrayed
  <1>5. ASSUME NEW u \in Threads PROVE LocOK(loc[u])'
    <2> PICK l : l = loc[u]
      OBVIOUS
    <2>1. LocOK(l)' /\ loc'[u] = l
      BY <1>2, LocStays DEF Sound
    <2> QED
      BY <2>1
  <1>6. \A a \in answers' : AnswerOK(a)'
    BY <1>2, AnswerStays DEF Sound
  <1>7. Counted'
    BY DEF Sound, Counted
  <1> QED
    BY <1>2, <1>4, <1>5, <1>6, <1>7 DEF Sound

LEMMA SoundInit == Init => Sound
  <1> SUFFICES ASSUME Init PROVE Sound
    OBVIOUS
  <1> PICK v : v = [name |-> Source, size |-> SourceSize, copyOf |-> NoId]
    OBVIOUS
  <1>1. v \in Sizeds /\ v # NoVolume /\ v.copyOf = NoId
    BY ProvisioningAssumption, ArrayAssumption DEF Sizeds, NoVolume, NoId
  <1>2. volume = [i \in Ids |-> IF i = 1 THEN v ELSE NoVolume]
    BY DEF Init
  <1>3. flashcopy = [i \in Ids |-> NoCopy] /\ nextId = 2 /\ loc = [t \in Threads |-> Idle] /\ answers = {} /\ deleting = {}
    BY DEF Init
  <1>4. Arrayed
    <2>1. \A i \in Ids : ~IsCopy(i)
      BY <1>3 DEF IsCopy
    <2>2. \A i \in Ids : Exists(i) => i = 1 /\ volume[i].copyOf = NoId
      BY <1>1, <1>2 DEF Exists
    <2>3. nextId \in Nat \ {0, 1} /\ nextId <= MaxVolumes + 1
      BY <1>3, ArrayAssumption
    <2>4. volume \in [Ids -> Sizeds \cup {NoVolume}] /\ flashcopy \in [Ids -> CopyRecs \cup {NoCopy}]
      BY <1>1, <1>2, <1>3
    <2> QED
      BY <1>3, <2>1, <2>2, <2>3, <2>4 DEF Arrayed
  <1>5. Counted
    BY DEF Init, Counted
  <1>6. LocOK(Idle)
    <2>1. InStep(Idle) /\ ~Makes(Idle)
      BY IdleIs DEF InStep, Makes, Creates, Searching, Filling, Removing, Expanding, Unflashed
    <2>2. NoCall.op \notin Deletes /\ NoCall.id = NoId /\ NoCall.source = NoId
      BY DEF NoCall, Deletes
    <2> QED
      BY <1>3, <2>1, <2>2, IdleIs DEF LocOK, NoId
  <1> QED
    BY <1>3, <1>4, <1>5, <1>6, IdleIs DEF Sound

LEMMA SoundStutters == Sound /\ UNCHANGED vars => Sound'
  <1> SUFFICES ASSUME Sound, UNCHANGED vars PROVE Sound'
    OBVIOUS
  <1>1. UNCHANGED <<volume, flashcopy, nextId, loc, answers, deleting, overlap, refused, calls, faults, crashes>>
    BY DEF vars, arrayVars, bounds
  <1>2. Rests
    BY <1>1 DEF Rests
  <1>3. Ages /\ Arrayed' /\ KnownIds' = KnownIds
    BY <1>1, <1>2, RestsAge
  <1>4. ASSUME NEW u \in Threads PROVE LocOK(loc[u])'
    <2> PICK l : l = loc[u]
      OBVIOUS
    <2>1. LocOK(l)' /\ loc'[u] = l
      BY <1>1, <1>3, LocStays DEF Sound
    <2> QED
      BY <2>1
  <1>5. \A a \in answers' : AnswerOK(a)'
    BY <1>1, <1>3, AnswerStays DEF Sound
  <1> QED
    BY <1>1, <1>3, <1>4, <1>5 DEF Sound, Counted

LEMMA SoundNext == Sound /\ [Next]_vars => Sound'
  BY RequestAdvances, AdvanceSound, StartSound, CrashSound, BackgroundCopySound, SoundStutters DEF Next

\* At every step a running call and an answer hold of the array what the handlers
\* rely on.
THEOREM SoundAlways == Spec => []Sound
  <1>1. Init => Sound
    BY SoundInit
  <1>2. Sound /\ [Next]_vars => Sound'
    BY SoundNext
  <1> QED
    BY <1>1, <1>2, PTL DEF Spec

-----------------------------------------------------------------------------
(***************************************************************************)
(* What holds of Sound states: types, and deleted volumes.                 *)
(***************************************************************************)

LEMMA SoundTypeOK == Sound => TypeOK
  <1> SUFFICES ASSUME Sound PROVE TypeOK
    OBVIOUS
  <1>1. ArrayTypeOK
    <2>1. ASSUME NEW i \in Ids
          PROVE  volume[i] \in {NoVolume} \cup [name: Names, size: Nat, copyOf: {NoId} \cup Ids]
      <3>1. CASE volume[i] = NoVolume
        BY <3>1
      <3>2. CASE volume[i] # NoVolume
        <4>1. volume[i] \in Sizeds /\ volume[i].copyOf \in {NoId} \cup Ids
          BY <3>2, ArrayedIs
        <4> QED
          BY <4>1 DEF Sizeds
      <3> QED
        BY <3>1, <3>2
    <2>2. volume \in [Ids -> {NoVolume} \cup [name: Names, size: Nat, copyOf: {NoId} \cup Ids]]
      BY <2>1, ArrayedIs
    <2>3. flashcopy \in [Ids -> {NoCopy} \cup [source: Ids, nocopy: BOOLEAN, state: CopyStates]]
      BY ArrayedIs DEF CopyRecs
    <2>4. nextId \in 1..(MaxVolumes + 1)
      BY ArrayedIs
    <2> QED
      BY <2>2, <2>3, <2>4, ArrayedIs DEF ArrayTypeOK
  <1>2. \A t \in Threads : loc[t].tries \in 0..Tries /\ loc[t].checks \subseteq loc[t].rels
    BY DEF Sound, LocOK, LocRecs
  <1>3. \A a \in answers : a.status \in Statuses
    BY DEF Sound, AnswerOK, AnswerRecs
  <1>4. deleting \subseteq 1..nextId
    BY KnownIs, ArrayedIs DEF Sound, NoId
  <1> QED
    BY <1>1, <1>2, <1>3, <1>4 DEF TypeOK

LEMMA SoundVolumeGone == Sound => VolumeGone
  <1> SUFFICES ASSUME Sound, NEW a \in OkTo({"DeleteVolume"})
               PROVE  ~Exists(a.call.id) /\ FlashcopiesOf(a.call.id) = {}
    BY DEF VolumeGone
  <1>1. a \in answers /\ a.call.op = "DeleteVolume" /\ a.status = "OK"
    BY DEF OkTo
  <1>2. ~Exists(a.call.id) /\ a.call.id \in KnownIds
    BY <1>1 DEF Sound, AnswerOK, Creates
  <1>3. a.call.id \in Ids
    BY <1>2, KnownIs
  <1> QED
    BY <1>2, <1>3, ArrayedIs DEF FlashcopiesOf, CopiesFrom

-----------------------------------------------------------------------------
(***************************************************************************)
(* Owned is kept.                                                          *)
(***************************************************************************)

\* What a call makes, and when it makes it.
LEMMA MadeIs ==
  ASSUME Sound, NEW t \in Threads, NEW l, l = loc[t], NEW m, Step(t, l, m)
  PROVE  /\ Makes(m) => \/ Makes(l) /\ m.id = l.id /\ m.pc # "readback"
                        \/ m.pc = "readback" /\ m.id = nextId /\ l.pc = "create"
         /\ Unmarked(m) => Makes(m) /\ (Unmarked(l) \/ m.pc = "readback")
         /\ m # Idle => Goes(l, m) /\ m.call = l.call
  <1>1. /\ m = Idle \/ (Goes(l, m) /\ m.call = l.call)
        /\ m.pc = "readback" => m.id = nextId /\ l.pc = "create"
    <2>1. Effects(l, m)
      BY StepIs
    <2>2. m = Idle \/ Goes(l, m)
      BY DEF Step
    <2>3. Goes(l, m) => m.call = l.call
      BY DEF Goes
    <2> QED
      BY <2>1, <2>2, <2>3 DEF Effects
  <1>2. m = Idle => ~Makes(m) /\ ~Unmarked(m)
    BY IdleIs DEF Makes, Unmarked, Creates, NoCall
  <1>3. Unmarked(m) => Makes(m)
    BY DEF Unmarked, Makes, Filling
  <1>4. Makes(m) => m.pc \notin {"origin", "sverify"}
    BY DEF Makes, Filling, Unflashed, Removing
  <1>5. Goes(l, m) /\ Makes(m) => \/ Makes(l) /\ m.id = l.id /\ m.pc # "readback"
                                  \/ m.pc = "readback" /\ m.id = nextId /\ l.pc = "create"
    <2>1. CASE m.pc = "readback"
      BY <1>1, <2>1
    <2>2. CASE m.pc # "readback"
      BY <1>4, <2>2 DEF Goes
    <2> QED
      BY <2>1, <2>2
  <1>6. Goes(l, m) /\ Unmarked(m) => Unmarked(l) \/ m.pc = "readback"
    BY DEF Goes, Unmarked
  <1> QED
    BY <1>1, <1>2, <1>3, <1>5, <1>6

LEMMA OwnedIs ==
  ASSUME Sound, Owned, NEW t \in Threads, NEW l, l = loc[t]
  PROVE  /\ LocOwns(l) /\ l \in LocRecs /\ LocOK(l) /\ l.id \in Nat /\ l.id < nextId /\ l.rels \subseteq Ids
         /\ Makes(l) => l.id \in Ids
         /\ Unmarked(l) => Makes(l)
  <1>1. LocOwns(l) /\ l \in LocRecs /\ LocOK(l) /\ l.id \in Nat /\ l.id < nextId /\ l.rels \subseteq Ids
    BY LocIs DEF Owned, Sound, LocOK, LocRecs
  <1>2. Makes(l) => l.id \in Ids
    BY LocIs, IdIs
  <1>3. Unmarked(l) => Makes(l)
    BY DEF Unmarked, Makes, Filling
  <1> QED
    BY <1>1, <1>2, <1>3

\* A volume that becomes a target is one whose maker was about to make it one.
LEMMA NewTargets ==
  ASSUME Sound, NEW t \in Threads, NEW l, l = loc[t], NEW m, Step(t, l, m), NEW i \in Ids, IsCopy(i)'
  PROVE  \/ IsCopy(i) /\ flashcopy'[i].source = flashcopy[i].source
         \/ i = l.id /\ l.pc = "flash" /\ m.pc = "state" /\ Unmarked(l) /\ flashcopy'[i].source = l.call.source
  <1>1. CopyStep(l, m, i)
    BY StepIs DEF Effects
  <1>2. l.pc = "flash" => Unmarked(l)
    BY StepIs DEF LocOK, InStep, Unmarked, Filling, Unflashed
  <1>3. flashcopy'[i] = flashcopy[i] => IsCopy(i)
    BY DEF IsCopy
  <1> QED
    BY <1>1, <1>2, <1>3 DEF CopyStep

LEMMA OneMaker ==
  ASSUME Sound, Owned, NEW t \in Threads, NEW o \in Threads, t # o, Makes(loc[t]), Makes(loc[o])
  PROVE  loc[t].id # loc[o].id
  BY DEF Owned

LEMMA FilledStays ==
  ASSUME Sound, Owned, NEW t \in Threads, NEW l, l = loc[t], NEW m, Step(t, l, m),
         NEW r \in Ids, Filled(r)
  PROVE  Filled(r)'
  <1>0. Effects(l, m) /\ Ages
    BY StepIs
  <1>1. Effects(l, m) /\ r < nextId'
    BY <1>0, ArrayedIs DEF Filled, Ages, Ids
  <1>2. r # nextId
    BY ArrayedIs DEF Filled, Ids
  <1>3. l.pc = "flash" => l.id # r
    <2>1. l.pc = "flash" => Unmarked(l)
      BY StepIs DEF LocOK, InStep, Unmarked, Filling, Unflashed
    <2> QED
      BY <2>1 DEF Filled
  <1>4. IsCopy(r)' => Synced(r)'
    <2> SUFFICES ASSUME IsCopy(r)' PROVE Synced(r)'
      OBVIOUS
    <2>1. \/ flashcopy'[r] = flashcopy[r]
          \/ IsCopy(r) /\ flashcopy[r].state = "copying"
      BY <1>1, <1>3 DEF Effects, CopyStep
    <2>2. IsCopy(r) => Synced(r)
      BY DEF Filled
    <2> QED
      BY <2>1, <2>2 DEF Synced, IsCopy
  <1>5. ASSUME NEW o \in Threads, Unmarked(loc'[o]) PROVE loc'[o].id # r
    <2>1. CASE o # t
      BY <1>5, <2>1, StepIs DEF Filled
    <2>2. CASE o = t
      <3>1. loc'[o] = m
        BY <2>2, StepIs
      <3>2. Unmarked(m)
        BY <1>5, <3>1
      <3>3. Makes(m) /\ (Unmarked(l) \/ m.pc = "readback")
        BY <3>2, MadeIs
      <3>4. CASE m.pc = "readback"
        BY <1>2, <3>1, <3>3, <3>4, MadeIs
      <3>5. CASE m.pc # "readback"
        BY <3>1, <3>3, <3>5, MadeIs DEF Filled
      <3> QED
        BY <3>4, <3>5
    <2> QED
      BY <2>1, <2>2
  <1>6. \A o \in Threads : Unmarked(loc[o])' => loc'[o].id # r
    BY <1>5 DEF Unmarked
  <1> QED
    BY <1>1, <1>4, <1>6 DEF Filled

LEMMA ReadsStay ==
  ASSUME Sound, Owned, NEW t \in Threads, NEW l, l = loc[t], NEW m, Step(t, l, m)
  PROVE  Reads'
  <1>1. Effects(l, m) /\ KnownIds \subseteq KnownIds' /\ LocOK(l)
    BY StepIs
  <1>2. ASSUME NEW i \in Ids, IsCopy(i)'
        PROVE  /\ flashcopy'[i].source \in KnownIds'
               /\ Valid(i)' => volume'[i].copyOf = flashcopy'[i].source
    <2>1. CopyStep(l, m, i)
      BY <1>1 DEF Effects
    <2>2. IsCopy(i) => flashcopy[i].source \in KnownIds
      BY DEF Owned, Reads
    <2>3. CASE flashcopy'[i] = flashcopy[i] /\ volume'[i].copyOf = volume[i].copyOf
      <3>1. IsCopy(i) /\ (Valid(i)' => Valid(i))
        BY <1>2, <2>3 DEF IsCopy, Valid
      <3> QED
        BY <1>1, <2>2, <2>3, <3>1 DEF Owned, Reads
    <2>4. CASE i = l.id /\ flashcopy'[i].source = l.call.source /\ volume'[i].copyOf = l.call.source
      <3>1. flashcopy'[i].source \in Ids
        BY <1>1, <1>2 DEF Effects, Arrayed, IsCopy, CopyRecs
      <3>2. l.call.source \in KnownIds
        BY <1>1, <2>4, <3>1 DEF LocOK, NoId, Ids
      <3> QED
        BY <1>1, <2>4, <3>2
    <2>5. CASE IsCopy(i) /\ flashcopy'[i].source = flashcopy[i].source /\ flashcopy'[i].state = "invalid"
      BY <1>1, <2>2, <2>5 DEF Valid
    <2> QED
      BY <1>2, <2>1, <2>3, <2>4, <2>5 DEF CopyStep
  <1> QED
    BY <1>2 DEF Reads

\* The thread that moves, and the others.
LEMMA MoverOwns ==
  ASSUME Sound, Owned, NEW t \in Threads, NEW l, l = loc[t], NEW m, Step(t, l, m)
  PROVE  LocOwns(m)'
  <1>1. Effects(l, m) /\ m \in LocRecs
    BY StepIs
  <1>2. LocOwns(l) /\ (Unmarked(l) => Makes(l)) /\ (Makes(l) => l.id \in Ids) /\ l.rels \subseteq Ids
    BY OwnedIs
  <1>3. m.pc = "readback" => m.id = nextId /\ ~IsCopy(m.id)'
    <2> SUFFICES ASSUME m.pc = "readback" PROVE m.id = nextId /\ ~IsCopy(m.id)'
      OBVIOUS
    <2>1. m.id = nextId /\ nextId \in Ids /\ l.pc = "create"
      BY <1>1 DEF Effects
    <2>2. ~IsCopy(nextId)
      BY <2>1, ArrayedIs
    <2> QED
      BY <2>1, <2>2, NewTargets
  <1>4. Unmarked(m) => ~IsCopy(m.id)'
    <2>1. CASE m.pc = "readback"
      BY <1>3, <2>1
    <2>2. CASE m.pc # "readback"
      <3> SUFFICES ASSUME Unmarked(m) PROVE ~IsCopy(m.id)'
        OBVIOUS
      <3>1. Unmarked(l) /\ m.id = l.id
        BY <2>2, MadeIs
      <3>2. ~IsCopy(l.id) /\ l.id \in Ids
        BY <1>2, <3>1 DEF LocOwns
      <3>3. m.pc # "state"
        BY DEF Unmarked, Unflashed
      <3> QED
        BY <3>1, <3>2, <3>3, NewTargets
    <2> QED
      BY <2>1, <2>2
  <1>5. Makes(m) /\ IsCopy(m.id)' => flashcopy'[m.id].source = m.call.source
    <2> SUFFICES ASSUME Makes(m), IsCopy(m.id)' PROVE flashcopy'[m.id].source = m.call.source
      OBVIOUS
    <2>1. m.pc # "readback"
      BY <1>3
    <2>2. Makes(l) /\ m.id = l.id /\ m.call = l.call
      <3>1. m # Idle
        BY IdleIs DEF Makes, Creates, NoCall
      <3> QED
        BY <2>1, <3>1, MadeIs
    <2> QED
      BY <1>2, <2>2, NewTargets DEF LocOwns
  <1>6. ASSUME NEW r \in m.rels \ m.checks PROVE Filled(r)'
    <2>1. r \in Ids
      BY <1>1 DEF LocRecs
    <2>2. r \in l.rels \ l.checks \/ Synced(r)
      <3>1. m # Idle
        BY IdleIs
      <3>2. Goes(l, m)
        BY <3>1, MadeIs
      <3> QED
        BY <3>2 DEF Goes
    <2>3. Synced(r) => Filled(r)
      <3> SUFFICES ASSUME Synced(r) PROVE Filled(r)
        OBVIOUS
      <3>1. IsCopy(r) /\ r < nextId
        BY <2>1, ArrayedIs DEF Synced
      <3>2. ASSUME NEW o \in Threads, Unmarked(loc[o]) PROVE loc[o].id # r
        BY <3>1, <3>2 DEF Owned, LocOwns
      <3> QED
        BY <3>1, <3>2 DEF Filled
    <2>4. Filled(r)
      BY <1>2, <2>2, <2>3 DEF LocOwns
    <2> QED
      BY <2>1, <2>4, FilledStays
  <1> QED
    BY <1>4, <1>5, <1>6 DEF LocOwns

LEMMA OthersOwn ==
  ASSUME Sound, Owned, NEW t \in Threads, NEW l, l = loc[t], NEW m, Step(t, l, m),
         NEW o \in Threads, o # t, NEW k, k = loc[o]
  PROVE  LocOwns(k)'
  <1>1. LocOwns(k) /\ (Unmarked(k) => Makes(k)) /\ (Makes(k) => k.id \in Ids) /\ k.rels \subseteq Ids
    BY OwnedIs
  <1>2. Makes(k) /\ Unmarked(l) => k.id # l.id
    BY OneMaker, OwnedIs
  <1>3. Makes(k) /\ IsCopy(k.id)' => IsCopy(k.id) /\ flashcopy'[k.id].source = flashcopy[k.id].source
    BY <1>1, <1>2, NewTargets
  <1>4. \A r \in k.rels \ k.checks : Filled(r)'
    BY <1>1, FilledStays DEF LocOwns
  <1> QED
    BY <1>1, <1>3, <1>4 DEF LocOwns

LEMMA AdvanceOwned ==
  ASSUME Sound, Owned, NEW t \in Threads, Advance(t)
  PROVE  Owned'
  <1> PICK l \in LocRecs, m \in LocRecs : l = loc[t] /\ Step(t, l, m)
    BY DEF Advance
  <1>1. Reads'
    BY ReadsStay
  <1>2. loc'[t] = m /\ \A u \in Threads : u # t => loc'[u] = loc[u]
    BY StepIs
  <1>3. ASSUME NEW u \in Threads PROVE LocOwns(loc[u])'
    <2> PICK k : k = loc'[u]
      OBVIOUS
    <2>1. LocOwns(k)'
      <3>1. CASE u = t
        BY <1>2, <3>1, MoverOwns
      <3>2. CASE u # t
        BY <1>2, <3>2, OthersOwn
      <3> QED
        BY <3>1, <3>2
    <2> QED
      BY <2>1
  <1>4. ASSUME NEW o \in Threads, o # t, Makes(m), Makes(loc[o])
        PROVE  m.id # loc[o].id
    <2>1. loc[o].id \in Nat /\ loc[o].id < nextId /\ nextId \in Nat
      BY OwnedIs, ArrayedIs
    <2>2. loc[o].id # nextId
      BY <2>1
    <2>3. CASE m.pc = "readback"
      BY <1>4, <2>2, <2>3, MadeIs
    <2>4. CASE m.pc # "readback"
      <3>1. Makes(loc[t]) /\ m.id = loc[t].id
        BY <1>4, <2>4, MadeIs
      <3> QED
        BY <1>4, <3>1, OneMaker
    <2> QED
      BY <2>3, <2>4
  <1>5. ASSUME NEW u \in Threads, NEW o \in Threads, u # o, Makes(loc'[u]), Makes(loc'[o])
        PROVE  loc'[u].id # loc'[o].id
    <2>1. CASE u = t
      BY <1>2, <1>4, <1>5, <2>1
    <2>2. CASE o = t
      BY <1>2, <1>4, <1>5, <2>2
    <2>3. CASE u # t /\ o # t
      BY <1>2, <1>5, <2>3, OneMaker
    <2> QED
      BY <2>1, <2>2, <2>3
  <1>6. (\A u, o \in Threads : u # o /\ Makes(loc[u]) /\ Makes(loc[o]) => loc[u].id # loc[o].id)'
    BY <1>5 DEF Makes
  <1> QED
    BY <1>1, <1>3, <1>6 DEF Owned

\* Threads that end or begin a call without a word to the array.
LEMMA OwnedRests ==
  ASSUME Sound, Owned, UNCHANGED <<volume, flashcopy, nextId, answers>>,
         \A u \in Threads : loc'[u] = loc[u] \/ (~Makes(loc'[u]) /\ loc'[u].rels = {})
  PROVE  Owned'
  <1>1. \A i : (IsCopy(i)' <=> IsCopy(i)) /\ (Valid(i)' <=> Valid(i)) /\ (Synced(i)' <=> Synced(i))
    BY DEF IsCopy, Valid, Synced
  <1>2. KnownIds' = KnownIds
    BY DEF KnownIds, OkTo
  <1>3. Reads'
    BY <1>1, <1>2 DEF Owned, Reads
  <1>4. \A u \in Threads : Unmarked(loc'[u]) => Makes(loc'[u])
    BY DEF Unmarked, Makes, Filling
  <1>5. ASSUME NEW r, Filled(r) PROVE Filled(r)'
    <2>1. \A o \in Threads : Unmarked(loc'[o]) => loc'[o].id # r
      BY <1>4, <1>5 DEF Filled
    <2>2. (\A o \in Threads : Unmarked(loc[o]) => loc[o].id # r)'
      BY <2>1 DEF Unmarked
    <2> QED
      BY <1>1, <1>5, <2>2 DEF Filled
  <1>6. ASSUME NEW u \in Threads PROVE LocOwns(loc[u])'
    <2> PICK k : k = loc'[u]
      OBVIOUS
    <2>1. CASE k = loc[u]
      <3>1. LocOwns(k)
        BY <2>1 DEF Owned
      <3>2. LocOwns(k)'
        BY <1>1, <1>5, <3>1 DEF LocOwns
      <3> QED
        BY <3>2
    <2>2. CASE ~Makes(k) /\ k.rels = {}
      <3>1. ~Unmarked(k)
        BY <1>4, <2>2
      <3>2. LocOwns(k)'
        BY <2>2, <3>1 DEF LocOwns
      <3> QED
        BY <3>2
    <2> QED
      BY <2>1, <2>2
  <1>7. \A u, o \in Threads : u # o /\ Makes(loc'[u]) /\ Makes(loc'[o]) => loc'[u].id # loc'[o].id
    BY OneMaker
  <1>8. (\A u, o \in Threads : u # o /\ Makes(loc[u]) /\ Makes(loc[o]) => loc[u].id # loc[o].id)'
    BY <1>7 DEF Makes
  <1> QED
    BY <1>3, <1>6, <1>8 DEF Owned

\* A call begins, the controller restarts, or nothing happens.
LEMMA RestsIs ==
  ASSUME Sound, (\E t \in Threads : Start(t)) \/ Crash \/ UNCHANGED vars
  PROVE  /\ UNCHANGED <<volume, flashcopy, nextId, answers, refused, faults>> /\ deleting \subseteq deleting'
         /\ crashes' >= crashes /\ (overlap => overlap')
         /\ \A u \in Threads : loc'[u] = loc[u]
                \/ (~Makes(loc'[u]) /\ loc'[u].rels = {} /\ loc'[u].undo = "none"
                    /\ loc'[u].pc \in {"idle", "lookup", "slook", "find", "xlook"})
  <1>1. ASSUME NEW t \in Threads, Start(t)
        PROVE  /\ UNCHANGED <<volume, flashcopy, nextId, answers, refused, faults>> /\ deleting \subseteq deleting'
               /\ crashes' = crashes /\ (overlap => overlap')
               /\ \A u \in Threads : loc'[u] = loc[u]
                      \/ (~Makes(loc'[u]) /\ loc'[u].rels = {} /\ loc'[u].undo = "none"
                          /\ loc'[u].pc \in {"idle", "lookup", "slook", "find", "xlook"})
    <2> PICK c, m : CallOK(c) /\ Opens(t, c, m) /\ calls' = calls + 1
      BY <1>1, StartOpens
    <2>1. loc'[t] = m /\ \A u \in Threads : u # t => loc'[u] = loc[u]
      BY DEF Opens, Sound
    <2> QED
      BY <2>1 DEF Opens
  <1>2. ~Makes(Idle)
    BY IdleIs DEF Makes, Creates, NoCall
  <1>3. CASE Crash
    <2>1. \A u \in Threads : loc'[u] = Idle
      BY <1>3 DEF Crash
    <2>2. UNCHANGED <<volume, flashcopy, nextId, answers, refused, faults, deleting, overlap>> /\ crashes' = crashes + 1
      BY <1>3 DEF Crash, arrayVars
    <2> QED
      BY <1>2, <2>1, <2>2, IdleIs DEF Sound, Counted
  <1>4. CASE UNCHANGED vars
    BY <1>4 DEF vars, arrayVars, bounds, Sound, Counted
  <1> QED
    BY <1>1, <1>3, <1>4 DEF Sound, Counted

\* What a finished copy is.
Finishes(j) ==
    /\ IsCopy(j) /\ flashcopy[j].state = "copying" /\ ~flashcopy[j].nocopy
    /\ flashcopy'[j].source = flashcopy[j].source /\ flashcopy'[j].state = "done"
    /\ \A i \in Ids : i # j => flashcopy'[i] = flashcopy[i]
    /\ \A i \in Ids : (IsCopy(i)' <=> IsCopy(i)) /\ (Valid(i)' <=> Valid(i))
    /\ UNCHANGED <<volume, nextId, loc, answers, deleting, overlap, refused, faults, crashes>>

LEMMA CopyFinishes ==
  ASSUME Sound, BackgroundCopy
  PROVE  \E j \in Ids : Finishes(j)
  <1> PICK j \in Ids :
            /\ IsCopy(j) /\ IsCopy(j)' /\ flashcopy[j].state = "copying" /\ ~flashcopy[j].nocopy
            /\ flashcopy'[j].source = flashcopy[j].source /\ flashcopy'[j].state = "done"
            /\ flashcopy'[j].nocopy = flashcopy[j].nocopy /\ flashcopy'[j] \in CopyRecs
            /\ flashcopy' \in [Ids -> CopyRecs \cup {NoCopy}]
            /\ \A i \in Ids : i # j => flashcopy'[i] = flashcopy[i]
            /\ UNCHANGED <<volume, nextId, loc, answers, deleting, overlap, refused, calls, faults, crashes>>
    BY CopyDoneIs
  <1>1. ASSUME NEW i \in Ids PROVE (IsCopy(i)' <=> IsCopy(i)) /\ (Valid(i)' <=> Valid(i))
    <2>1. CASE i = j
      BY <2>1 DEF Valid
    <2>2. CASE i # j
      BY <2>2 DEF Valid, IsCopy
    <2> QED
      BY <2>1, <2>2
  <1>2. Finishes(j)
    BY <1>1 DEF Finishes
  <1> QED
    BY <1>2

LEMMA BackgroundCopyOwned ==
  ASSUME Sound, Owned, BackgroundCopy
  PROVE  Owned'
  <1> PICK j \in Ids : Finishes(j)
    BY CopyFinishes
  <1>1. \A i \in Ids : (IsCopy(i)' <=> IsCopy(i)) /\ (Valid(i)' <=> Valid(i)) /\ flashcopy'[i].source = flashcopy[i].source
    BY DEF Finishes
  <1>2. KnownIds' = KnownIds /\ volume' = volume /\ loc' = loc
    BY DEF KnownIds, OkTo, Finishes
  <1>3. Reads'
    BY <1>1, <1>2 DEF Owned, Reads
  <1>4. ASSUME NEW r \in Ids, Filled(r) PROVE Filled(r)'
    <2>1. r # j
      BY <1>4 DEF Filled, Synced, Finishes
    <2>2. flashcopy'[r] = flashcopy[r] /\ nextId' = nextId
      BY <2>1 DEF Finishes
    <2>3. IsCopy(r)' => Synced(r)'
      BY <1>1, <1>4, <2>2 DEF Filled, Synced
    <2>4. (\A o \in Threads : Unmarked(loc[o]) => loc[o].id # r)'
      BY <1>2, <1>4 DEF Filled
    <2> QED
      BY <1>4, <2>2, <2>3, <2>4 DEF Filled
  <1>5. ASSUME NEW u \in Threads PROVE LocOwns(loc[u])'
    <2> PICK k : k = loc[u]
      OBVIOUS
    <2>1. LocOwns(k) /\ (Makes(k) => k.id \in Ids) /\ (Unmarked(k) => Makes(k)) /\ k.rels \subseteq Ids
      BY OwnedIs
    <2>2. LocOwns(k)'
      BY <1>1, <1>4, <2>1 DEF LocOwns
    <2> QED
      BY <1>2, <2>2
  <1>6. (\A u, o \in Threads : u # o /\ Makes(loc[u]) /\ Makes(loc[o]) => loc[u].id # loc[o].id)'
    BY <1>2 DEF Owned
  <1> QED
    BY <1>3, <1>5, <1>6 DEF Owned

LEMMA OwnedInit == Init => Owned
  <1> SUFFICES ASSUME Init PROVE Owned
    OBVIOUS
  <1>1. \A i \in Ids : ~IsCopy(i)
    BY DEF Init, IsCopy
  <1>2. \A t \in Threads : loc[t] = Idle
    BY DEF Init
  <1>3. ~Makes(Idle) /\ ~Unmarked(Idle) /\ Idle.rels = {}
    BY IdleIs DEF Makes, Unmarked, Creates, NoCall
  <1> QED
    BY <1>1, <1>2, <1>3 DEF Owned, Reads, LocOwns

LEMMA OwnedNext == Sound /\ Owned /\ [Next]_vars => Owned'
  BY RequestAdvances, AdvanceOwned, RestsIs, OwnedRests, BackgroundCopyOwned DEF Next

LEMMA OwnedAlways == Spec => [](Sound /\ Owned)
  <1>1. Init => Sound /\ Owned
    BY SoundInit, OwnedInit
  <1>2. (Sound /\ Owned) /\ [Next]_vars => (Sound /\ Owned)'
    BY SoundNext, OwnedNext
  <1> QED
    BY <1>1, <1>2, PTL DEF Spec

\* What a step may do to the volumes that others hold.
OnPurpose(i) ==
    Exists(i) /\ (~Exists(i)' \/ volume'[i].copyOf # volume[i].copyOf)
        => i \in deleting \/ \E t \in Threads : loc[t].call.op \in Creates /\ loc[t].id = i

LEMMA AdvanceOnPurpose ==
  ASSUME Sound, Owned, NEW t \in Threads, Advance(t), NEW i \in Ids
  PROVE  OnPurpose(i)
  <1> PICK l \in LocRecs, m \in LocRecs : l = loc[t] /\ Step(t, l, m)
    BY DEF Advance
  <1> SUFFICES ASSUME Exists(i), ~Exists(i)' \/ volume'[i].copyOf # volume[i].copyOf
               PROVE  i \in deleting \/ (l.call.op \in Creates /\ l.id = i)
    BY DEF OnPurpose
  <1>1. VolumeStep(l, m, i) /\ LocOK(l) /\ l.pc # "idle" /\ l.call.op \in RPCs \cup {"none"}
    BY StepIs, LocIs DEF Effects
  <1>2. LocOwns(l)
    BY OwnedIs
  <1>3. CASE i = l.id /\ l.pc \in {"rmtarget", "rmvolume", "flash", "withdraw", "rmtargetrel", "state"}
    <2>1. l.call.op \in Creates \cup Deletes
      BY <1>1, <1>3 DEF LocOK, InStep, RPCs, Filling, Unflashed, Creates
    <2>2. l.call.op \in Deletes => l.id \in deleting
      BY <1>1 DEF LocOK, Creates, Deletes
    <2> QED
      BY <1>3, <2>1, <2>2
  <1>4. CASE l.pc = "rmrels" /\ i \in l.rels /\ IsCopy(i) /\ flashcopy[i].state = "copying"
    <2>1. l.checks = {}
      BY <1>1, <1>4 DEF LocOK, InStep
    <2>2. Synced(i)
      BY <1>2, <1>4, <2>1 DEF LocOwns, Filled
    <2> QED
      BY <1>4, <2>2 DEF Synced
  <1> QED
    BY <1>1, <1>3, <1>4 DEF VolumeStep

LEMMA NextOnPurpose ==
  ASSUME Sound, Owned, [Next]_vars, NEW i \in Ids
  PROVE  OnPurpose(i)
  <1>1. (Exists(i)' <=> Exists(i)) /\ volume' = volume => OnPurpose(i)
    BY DEF OnPurpose
  <1>2. volume' = volume => (Exists(i)' <=> Exists(i))
    BY DEF Exists
  <1>3. BackgroundCopy => volume' = volume
    BY CopyFinishes DEF Finishes
  <1> QED
    BY <1>1, <1>2, <1>3, RequestAdvances, AdvanceOnPurpose, RestsIs DEF Next

\* A volume disappears, or loses the data it is a copy of, only when its deletion
\* was asked for or its maker has not been answered, whatever overlaps or fails:
\* _ensure_flashcopy_safe_to_delete is enough although the relationships are
\* removed one by one and later.
THEOREM NothingElseIsRemoved == Spec => RemovedOnPurpose
  <1>1. Sound /\ Owned /\ [Next]_vars => \A i \in Ids : OnPurpose(i)
    BY NextOnPurpose
  <1>2. Spec => [][\A i \in Ids : OnPurpose(i)]_vars
    BY <1>1, OwnedAlways, PTL DEF Spec
  <1> QED
    BY <1>2 DEF RemovedOnPurpose, OnPurpose

-----------------------------------------------------------------------------
(***************************************************************************)
(* Calls that do not overlap.                                              *)
(***************************************************************************)

\* What changes a volume's data: its maker, or its deletion.
LEMMA ChangedBy ==
  ASSUME Sound, Owned, NEW t \in Threads, NEW l, l = loc[t], NEW m, Step(t, l, m),
         NEW i \in Ids, Exists(i), Exists(i)', volume'[i].copyOf # volume[i].copyOf
  PROVE  i = l.id /\ (Makes(l) \/ i \in deleting)
  <1>1. VolumeStep(l, m, i) /\ LocOK(l) /\ LocOwns(l) /\ l.pc # "idle" /\ l.call.op \in RPCs \cup {"none"}
    BY StepIs, OwnedIs, LocIs DEF Effects
  <1>2. CASE i = l.id /\ l.pc \in {"flash", "withdraw", "rmtargetrel", "state"}
    <2>1. l.pc # "rmtargetrel" => Makes(l)
      BY <1>1, <1>2 DEF LocOK, InStep, Makes, Filling, Unflashed
    <2>2. l.pc = "rmtargetrel" => Makes(l) \/ l.call.op \in Deletes
      BY <1>1, <1>2 DEF LocOK, InStep, Makes, Removing, RPCs
    <2>3. l.call.op \in Deletes => l.id \in deleting
      BY <1>1 DEF LocOK, Creates, Deletes
    <2> QED
      BY <1>2, <2>1, <2>2, <2>3
  <1>3. CASE l.pc = "rmrels" /\ i \in l.rels /\ IsCopy(i) /\ flashcopy[i].state = "copying"
    <2>1. l.checks = {}
      BY <1>1, <1>3 DEF LocOK, InStep
    <2> QED
      BY <1>1, <1>3, <2>1 DEF LocOwns, Filled, Synced
  <1> QED
    BY <1>1, <1>2, <1>3 DEF VolumeStep

\* The steps that only read leave the array alone.
LEMMA QuietStep ==
  ASSUME NEW l, NEW m, ArrayStep(l, m),
         l.pc \in {"origin", "sverify", "final", "xafter", "xlook"} \/ (l.pc = "state" /\ m.pc # "state")
  PROVE  UNCHANGED arrayVars
  BY DEF ArrayStep

LEMMA ApartStays ==
  ASSUME Sound, NEW t \in Threads, NEW l, l = loc[t], NEW m, Step(t, l, m), Apart
  PROVE  Apart'
  <1>1. loc'[t] = m /\ l.pc # "idle" /\ \A u \in Threads : u # t => loc'[u] = loc[u]
    BY StepIs
  <1>2. m.pc = "idle" \/ m.call = l.call
    BY MadeIs, IdleIs
  <1> QED
    BY <1>1, <1>2 DEF Apart

LEMMA UnfoundStays ==
  ASSUME Sound, Owned, NEW t \in Threads, NEW l, l = loc[t], NEW m, Step(t, l, m), Apart, Unfound
  PROVE  Unfound'
  <1>1. loc'[t] = m /\ l.pc # "idle" /\ \A u \in Threads : u # t => loc'[u] = loc[u]
    BY StepIs
  <1>2. \A u \in Threads : loc[u].id \in Nat /\ loc[u].id < nextId /\ loc[u].id # nextId
    BY OwnedIs, ArrayedIs
  <1>3. ASSUME NEW o \in Threads, o # t, Makes(m), loc[o].pc \in {"origin", "sverify"}
        PROVE  m.id # loc[o].id
    <2>1. CASE m.pc = "readback"
      BY <1>2, <1>3, <2>1, MadeIs
    <2>2. CASE m.pc # "readback"
      <3>1. Makes(loc[t]) /\ m.id = loc[t].id
        BY <1>3, <2>2, MadeIs
      <3> QED
        BY <1>3, <3>1 DEF Unfound
    <2> QED
      BY <2>1, <2>2
  <1>4. ASSUME NEW o \in Threads, o # t, Makes(loc[o]), m.pc \in {"origin", "sverify"}
        PROVE  m.id # loc[o].id
    <2>1. m.id \in Named(l.call.name)
      <3>1. m # Idle
        BY <1>4, IdleIs
      <3>2. Goes(l, m)
        BY <3>1, MadeIs
      <3> QED
        BY <1>4, <3>2 DEF Goes
    <2>2. Exists(m.id) /\ volume[m.id].name = l.call.name
      BY <2>1 DEF Named
    <2>3. loc[o].pc # "idle"
      BY <1>4 DEF Makes, Filling, Unflashed, Removing
    <2>4. loc[o].call.name # l.call.name
      BY <1>1, <1>4, <2>3 DEF Apart
    <2>5. Exists(loc[o].id) => volume[loc[o].id].name = loc[o].call.name
      BY <1>4 DEF Sound, LocOK
    <2> QED
      BY <2>2, <2>4, <2>5
  <1>5. ASSUME NEW u \in Threads, NEW o \in Threads, u # o, Makes(loc'[u]), loc'[o].pc \in {"origin", "sverify"}
        PROVE  loc'[u].id # loc'[o].id
    <2>1. CASE u = t
      BY <1>1, <1>3, <1>5, <2>1
    <2>2. CASE o = t
      BY <1>1, <1>4, <1>5, <2>2
    <2>3. CASE u # t /\ o # t
      BY <1>1, <1>5, <2>3 DEF Unfound
    <2> QED
      BY <2>1, <2>2, <2>3
  <1> QED
    BY <1>5 DEF Unfound, Makes

\* What the answer of a step tells.
LEMMA ToldIs ==
  ASSUME Sound, NEW t \in Threads, NEW l, l = loc[t], NEW m, Step(t, l, m)
  PROVE  /\ \A i \in KnownIds' : i \in KnownIds \/ (i = l.id /\ l.call.op \in Creates /\ m = Idle
                                                   /\ (Makes(l) \/ l.pc \in {"origin", "sverify"}))
         /\ m # Idle => answers' = answers
         /\ \A a \in answers' : a \in answers \/
               (/\ m = Idle /\ a.call = l.call /\ a.status \in Statuses /\ a.id \in {NoId, l.id}
                /\ Ends(l, a.status, a.id))
  <1>1. m # Idle => answers' = answers
    BY DEF Step
  <1>2. ASSUME NEW a \in answers', a \notin answers
        PROVE  /\ m = Idle /\ a.call = l.call /\ a.status \in Statuses /\ a.id \in {NoId, l.id}
               /\ Ends(l, a.status, a.id)
    <2> PICK status \in Statuses, i \in {NoId, l.id} :
             /\ answers' = answers \cup {[call |-> l.call, status |-> status, id |-> i]}
             /\ Ends(l, status, i) /\ m = Idle
      BY <1>2 DEF Step
    <2>1. a = [call |-> l.call, status |-> status, id |-> i]
      BY <1>2
    <2>2. a.call = l.call /\ a.status = status /\ a.id = i
      BY <2>1
    <2> QED
      BY <2>2
  <1>3. ASSUME NEW i \in KnownIds', i \notin KnownIds
        PROVE  i = l.id /\ l.call.op \in Creates /\ m = Idle /\ (Makes(l) \/ l.pc \in {"origin", "sverify"})
    <2> PICK a \in answers' : a.call.op \in Creates /\ a.status = "OK" /\ i = a.id
      BY <1>3 DEF KnownIds, OkTo
    <2>1. a \notin answers
      BY <1>3 DEF KnownIds, OkTo
    <2>2. m = Idle /\ a.call = l.call /\ Ends(l, a.status, a.id)
      BY <1>2, <2>1
    <2>3. Ends(l, "OK", i)
      BY <2>2
    <2> QED
      BY <2>2, <2>3 DEF Ends, Makes, Filling, Unflashed
  <1> QED
    BY <1>1, <1>2, <1>3

LEMMA UntoldStays ==
  ASSUME Sound, Owned, NEW t \in Threads, NEW l, l = loc[t], NEW m, Step(t, l, m), Unfound, Untold
  PROVE  Untold'
  <1>1. loc'[t] = m /\ \A u \in Threads : u # t => loc'[u] = loc[u]
    BY StepIs
  <1>2. ASSUME Makes(m) PROVE m.id \notin KnownIds'
    <2>1. m # Idle
      BY <1>2, IdleIs DEF Makes, Creates, NoCall
    <2>2. KnownIds' \subseteq KnownIds
      <3>1. answers' = answers
        BY <2>1, ToldIs
      <3> QED
        BY <3>1 DEF KnownIds, OkTo
    <2>3. CASE m.pc = "readback"
      <3>1. m.id = nextId
        BY <1>2, <2>3, MadeIs
      <3>2. nextId \notin KnownIds
        BY KnownIs, ArrayedIs
      <3> QED
        BY <2>2, <3>1, <3>2
    <2>4. CASE m.pc # "readback"
      <3>1. Makes(loc[t]) /\ m.id = loc[t].id
        BY <1>2, <2>4, MadeIs
      <3> QED
        BY <2>2, <3>1 DEF Untold
    <2> QED
      BY <2>3, <2>4
  <1>3. ASSUME NEW o \in Threads, o # t, Makes(loc[o]) PROVE loc[o].id \notin KnownIds'
    <2>1. loc[o].id \notin KnownIds
      BY <1>3 DEF Untold
    <2>2. Makes(l) => loc[o].id # l.id
      BY <1>3, OneMaker
    <2>3. l.pc \in {"origin", "sverify"} => loc[o].id # l.id
      BY <1>3 DEF Unfound
    <2> QED
      BY <2>1, <2>2, <2>3, ToldIs
  <1>4. \A u \in Threads : Makes(loc'[u]) => loc'[u].id \notin KnownIds'
    BY <1>1, <1>2, <1>3
  <1> QED
    BY <1>4 DEF Untold, Makes

LEMMA ReadsSourceStays ==
  ASSUME Sound, Owned, NEW t \in Threads, NEW l, l = loc[t], NEW m, Step(t, l, m), Untold, ReadsSource
  PROVE  ReadsSource'
  <1>1. loc'[t] = m /\ \A u \in Threads : u # t => loc'[u] = loc[u]
    BY StepIs
  <1>2. ASSUME m.pc = "final", Exists(m.id)' PROVE volume'[m.id].copyOf = m.call.source
    <2>1. m # Idle
      BY <1>2, IdleIs
    <2>2. Goes(l, m) /\ m.call = l.call
      BY <2>1, MadeIs
    <2>3. l.pc = "state" /\ Valid(l.id) /\ m.id = l.id
      BY <1>2, <2>2 DEF Goes
    <2>4. volume' = volume
      BY <1>2, <2>3, QuietStep DEF Step, arrayVars
    <2>5. Makes(l)
      BY <2>3, LocIs DEF InStep, Makes, Filling
    <2>6. l.id \in Ids /\ IsCopy(l.id) /\ flashcopy[l.id].source = l.call.source
      BY <2>3, <2>5, OwnedIs DEF LocOwns, Valid
    <2>7. volume[l.id].copyOf = l.call.source
      BY <2>3, <2>6 DEF Owned, Reads
    <2> QED
      BY <2>2, <2>3, <2>4, <2>7
  <1>3. ASSUME NEW o \in Threads, o # t, NEW k, k = loc[o], k.pc = "final", Exists(k.id)'
        PROVE  volume'[k.id].copyOf = k.call.source
    <2>1. Makes(k) /\ k.id \in Ids /\ k.id < nextId /\ k.id \in Nat
      <3>1. Makes(k)
        BY <1>3, LocIs DEF InStep, Makes, Filling
      <3> QED
        BY <1>3, <3>1, OwnedIs
    <2>2. Exists(k.id) /\ volume[k.id].copyOf = k.call.source
      <3>1. Ages
        BY StepIs
      <3>2. Exists(k.id)
        BY <1>3, <2>1, <3>1 DEF Ages
      <3> QED
        BY <1>3, <3>2 DEF ReadsSource
    <2>3. k.id \notin deleting
      BY <1>3, <2>1 DEF Untold, Sound
    <2>4. Makes(l) => k.id # l.id
      BY <1>3, <2>1, OneMaker
    <2> QED
      BY <1>3, <2>1, <2>2, <2>3, <2>4, ChangedBy
  <1>4. ASSUME NEW u \in Threads PROVE (loc[u].pc = "final" /\ Exists(loc[u].id) =>
              volume[loc[u].id].copyOf = loc[u].call.source)'
    <2> PICK k : k = loc'[u]
      OBVIOUS
    <2>1. k.pc = "final" /\ Exists(k.id)' => volume'[k.id].copyOf = k.call.source
      BY <1>1, <1>2, <1>3
    <2> QED
      BY <2>1
  <1> QED
    BY <1>4 DEF ReadsSource

LEMMA AdvanceAlone ==
  ASSUME Sound, Owned, Alone, NEW t \in Threads, Advance(t)
  PROVE  Alone'
  <1> PICK l \in LocRecs, m \in LocRecs : l = loc[t] /\ Step(t, l, m)
    BY DEF Advance
  <1> SUFFICES ASSUME ~overlap' PROVE Apart' /\ Unfound' /\ Untold' /\ ReadsSource'
    BY DEF Alone
  <1>1. Apart /\ Unfound /\ Untold /\ ReadsSource
    BY DEF Alone, Step
  <1> QED
    BY <1>1, ApartStays, UnfoundStays, UntoldStays, ReadsSourceStays

\* The other steps: a call begins, the controller restarts, a copy is finished.
LEMMA AloneStarts ==
  ASSUME Sound, Alone, NEW t \in Threads, Start(t)
  PROVE  Alone'
  <1> PICK c, m : CallOK(c) /\ Opens(t, c, m)
    BY StartOpens
  <1> SUFFICES ASSUME ~overlap' PROVE Apart' /\ Unfound' /\ Untold' /\ ReadsSource'
    BY DEF Alone
  <1>1. ~overlap /\ \A o \in Threads : loc[o] # Idle => loc[o].call.name # c.name
    BY DEF Opens
  <1>2. Apart /\ Unfound /\ Untold /\ ReadsSource
    BY <1>1 DEF Alone
  <1>3. /\ loc'[t] = m /\ \A u \in Threads : u # t => loc'[u] = loc[u]
        /\ m.call = c /\ m.pc \in {"lookup", "slook", "find", "xlook"} /\ ~Makes(m)
    BY DEF Opens, Sound
  <1>4. \A o \in Threads : loc[o].pc # "idle" => loc[o].call.name # c.name
    BY <1>1, IdleIs
  <1>5. Apart'
    BY <1>2, <1>3, <1>4 DEF Apart
  <1>6. \A u \in Threads : loc'[u] = loc[u] \/ (~Makes(loc'[u]) /\ loc'[u].pc \notin {"origin", "sverify", "final"})
    BY <1>3
  <1>7. Unfound'
    <2>1. \A u, o \in Threads : u # o /\ Makes(loc'[u]) /\ loc'[o].pc \in {"origin", "sverify"} =>
              loc'[u].id # loc'[o].id
      BY <1>2, <1>6 DEF Unfound
    <2> QED
      BY <2>1 DEF Unfound, Makes
  <1>8. KnownIds' = KnownIds /\ volume' = volume
    BY DEF Opens, KnownIds, OkTo
  <1>9. Untold'
    <2>1. \A u \in Threads : Makes(loc'[u]) => loc'[u].id \notin KnownIds'
      BY <1>2, <1>6, <1>8 DEF Untold
    <2> QED
      BY <2>1 DEF Untold, Makes
  <1>10. ReadsSource'
    <2>1. \A i : Exists(i)' <=> Exists(i)
      BY <1>8 DEF Exists
    <2> QED
      BY <1>2, <1>6, <1>8, <2>1 DEF ReadsSource
  <1> QED
    BY <1>5, <1>7, <1>9, <1>10

LEMMA AloneCrashes ==
  ASSUME Sound, Alone, Crash
  PROVE  Alone'
  <1>1. \A u \in Threads : loc'[u] = Idle
    BY DEF Crash
  <1>2. ~Makes(Idle)
    BY IdleIs DEF Makes, Creates, NoCall
  <1>3. \A u \in Threads : ~Makes(loc[u])'
    BY <1>1, <1>2 DEF Makes
  <1> QED
    BY <1>1, <1>3, IdleIs DEF Alone, Apart, Unfound, Untold, ReadsSource

LEMMA AloneQuiet ==
  ASSUME Sound, Alone, UNCHANGED <<volume, loc, answers, overlap>>
  PROVE  Alone'
  <1>1. KnownIds' = KnownIds
    BY DEF KnownIds, OkTo
  <1>2. \A i : Exists(i)' <=> Exists(i)
    BY DEF Exists
  <1> QED
    BY <1>1, <1>2 DEF Alone, Apart, Unfound, Untold, ReadsSource

LEMMA BackgroundQuiet ==
  ASSUME BackgroundCopy \/ UNCHANGED vars
  PROVE  UNCHANGED <<volume, loc, answers, overlap, deleting, refused, faults, crashes>>
  BY DEF BackgroundCopy, CopyDone, vars, arrayVars, bounds

LEMMA AloneNext == Sound /\ Owned /\ Alone /\ [Next]_vars => Alone'
  BY RequestAdvances, AdvanceAlone, AloneStarts, AloneCrashes, BackgroundQuiet, AloneQuiet DEF Next

-----------------------------------------------------------------------------
(***************************************************************************)
(* What was created from a source holds its data.                          *)
(***************************************************************************)

LEMMA FewerFailures ==
  ASSUME Sound, NEW t \in Threads, NEW l, l = loc[t], NEW m, Step(t, l, m), faults' + crashes' <= 1
  PROVE  faults + crashes <= 1 /\ (faults = 1 => faults' = faults) /\ (faults' > faults => faults' = 1)
  <1>1. faults \in Nat /\ crashes \in Nat /\ crashes' = crashes /\ (faults' = faults \/ faults' = faults + 1)
    BY DEF Step, Sound, Counted
  <1>2. CASE faults' = faults
    BY <1>1, <1>2
  <1>3. CASE faults' = faults + 1
    BY <1>1, <1>3
  <1> QED
    BY <1>1, <1>2, <1>3

\* A relationship that turns out not to be valid, and the step that withdraws it.
LEMMA InvalidStays ==
  ASSUME Sound, Owned, Copied, ~overlap, NEW t \in Threads, NEW l, l = loc[t], NEW m, Step(t, l, m),
         faults' + crashes' <= 1, NEW i \in Ids, IsCopy(i)', ~Valid(i)'
  PROVE  faults' = 1 /\ \E u \in Threads : loc'[u].pc \in {"state", "withdraw"} /\ loc'[u].id = i
  <1>1. loc'[t] = m /\ \A u \in Threads : u # t => loc'[u] = loc[u]
    BY StepIs
  <1>3. faults + crashes <= 1
    BY FewerFailures
  <1>4. CopyStep(l, m, i)
    BY StepIs DEF Effects
  <1>5. CASE flashcopy'[i] = flashcopy[i]
    <2>1. IsCopy(i) /\ ~Valid(i)
      BY <1>5 DEF IsCopy, Valid
    <2>2. faults = 1
      BY <1>3, <2>1 DEF Copied
    <2> PICK u \in Threads : loc[u].pc \in {"state", "withdraw"} /\ loc[u].id = i
      BY <1>3, <2>1 DEF Copied
    <2>3. faults' = faults /\ faults' = 1
      BY <2>2, FewerFailures
    <2>4. CASE u # t
      BY <1>1, <2>3, <2>4
    <2>5. CASE u = t
      <3>1. l.pc \in {"state", "withdraw"} /\ l.id = i
        BY <2>5
      <3>2. m # Idle
        <4>1. ~Ends(l, "OK", i) /\ \A status \in Statuses, j \in {NoId, l.id} : ~Ends(l, status, j)
          BY <2>3, <3>1 DEF Ends
        <4>2. m = Idle => Goes(l, m) \/ \E status \in Statuses, j \in {NoId, l.id} : Ends(l, status, j)
          BY DEF Step
        <4>3. m = Idle => ~Goes(l, m)
          BY IdleIs DEF Goes
        <4> QED
          BY <4>1, <4>2, <4>3
      <3>3. Goes(l, m)
        BY <3>2, MadeIs
      <3>4. m.pc = "withdraw" \/ m.pc = "final"
        BY <2>3, <3>1, <3>3 DEF Goes
      <3>5. m.pc # "final"
        BY <2>1, <3>1, <3>3 DEF Goes
      <3>6. m.id = l.id
        BY <3>3, <3>4, <3>5 DEF Goes
      <3> QED
        BY <1>1, <2>3, <3>1, <3>4, <3>5, <3>6
    <2> QED
      BY <2>4, <2>5
  <1>6. CASE flashcopy'[i].state = "copying"
    BY <1>6 DEF Valid
  <1>7. CASE l.pc = "state" /\ m = l /\ i = l.id /\ faults' > faults
    BY <1>1, <1>7, FewerFailures
  <1> QED
    BY <1>4, <1>5, <1>6, <1>7 DEF CopyStep

\* The answer that says so.
LEMMA CopiedAnswered ==
  ASSUME Sound, Owned, Alone, Copied, ~overlap, faults + crashes <= 1,
         NEW t \in Threads, NEW l, l = loc[t], NEW m, Step(t, l, m),
         Ends(l, "OK", l.id), l.call.op \in Creates, l.call.source # NoId, Exists(l.id)'
  PROVE  volume'[l.id].copyOf = l.call.source
  <1>1. \/ l.pc = "final"
        \/ l.pc \in {"origin", "sverify"} /\ CopySource(l.id) = l.call.source
    BY DEF Ends
  <1>2. UNCHANGED arrayVars
    BY <1>1, QuietStep DEF Step
  <1>3. volume' = volume /\ Exists(l.id)
    BY <1>2 DEF arrayVars, Exists
  <1>4. CASE l.pc = "final"
    BY <1>3, <1>4 DEF Alone, ReadsSource
  <1>5. CASE l.pc \in {"origin", "sverify"} /\ CopySource(l.id) = l.call.source
    <2>1. l.id \in Ids /\ IsCopy(l.id) /\ flashcopy[l.id].source = l.call.source
      BY <1>3, <1>5 DEF CopySource, IsCopy, NoCopy, Exists
    <2>2. Valid(l.id)
      <3> SUFFICES ASSUME ~Valid(l.id) PROVE FALSE
        OBVIOUS
      <3> PICK u \in Threads : loc[u].pc \in {"state", "withdraw"} /\ loc[u].id = l.id
        BY <2>1 DEF Copied
      <3>1. u # t
        BY <1>5
      <3>2. Makes(loc[u])
        BY LocIs DEF InStep, Makes, Filling
      <3> QED
        BY <1>5, <3>1, <3>2 DEF Alone, Unfound
    <2> QED
      BY <1>3, <2>1, <2>2 DEF Owned, Reads
  <1> QED
    BY <1>1, <1>4, <1>5

LEMMA AdvanceCopied ==
  ASSUME Sound, Owned, Alone, Copied, NEW t \in Threads, Advance(t)
  PROVE  Copied'
  <1> PICK l \in LocRecs, m \in LocRecs : l = loc[t] /\ Step(t, l, m)
    BY DEF Advance
  <1> SUFFICES ASSUME ~overlap', faults' + crashes' <= 1
               PROVE  /\ (\A i \in Ids : IsCopy(i) /\ ~Valid(i) =>
                            faults = 1 /\ \E u \in Threads : loc[u].pc \in {"state", "withdraw"} /\ loc[u].id = i)'
                      /\ (\A a \in OkTo(Creates) : a.call.source # NoId /\ Exists(a.id) /\ a.id \notin deleting =>
                            volume[a.id].copyOf = a.call.source)'
    BY DEF Copied
  <1>1. ~overlap /\ faults + crashes <= 1
    BY FewerFailures DEF Step
  <1>2. \A i \in Ids : IsCopy(i)' /\ ~Valid(i)' =>
              faults' = 1 /\ \E u \in Threads : loc'[u].pc \in {"state", "withdraw"} /\ loc'[u].id = i
    BY <1>1, InvalidStays
  <1>3. ASSUME NEW a \in OkTo(Creates)', a.call.source # NoId, Exists(a.id)', a.id \notin deleting'
        PROVE  volume'[a.id].copyOf = a.call.source
    <2>1. a \in answers' /\ a.status = "OK" /\ a.call.op \in Creates
      BY DEF OkTo
    <2>2. CASE a \in answers
      <3>1. a.id \in KnownIds /\ a \in OkTo(Creates)
        BY <2>1, <2>2 DEF KnownIds, OkTo
      <3>2. a.id \in Ids /\ a.id \in Nat /\ a.id < nextId
        BY <3>1, KnownIs
      <3>3. Exists(a.id) /\ a.id \notin deleting
        <4>1. Ages
          BY StepIs
        <4> QED
          BY <1>3, <3>2, <4>1 DEF Ages
      <3>4. volume[a.id].copyOf = a.call.source
        BY <1>1, <1>3, <3>1, <3>3 DEF Copied
      <3>5. Makes(l) => a.id # l.id
        BY <1>1, <3>1 DEF Alone, Untold
      <3> QED
        BY <1>3, <3>2, <3>3, <3>4, <3>5, ChangedBy
    <2>3. CASE a \notin answers
      <3>1. a.call = l.call /\ Ends(l, a.status, a.id)
        BY <2>1, <2>3, ToldIs
      <3>2. a.id = l.id /\ Ends(l, "OK", l.id)
        BY <2>1, <3>1 DEF Ends
      <3> QED
        BY <1>1, <1>3, <2>1, <3>1, <3>2, CopiedAnswered
    <2> QED
      BY <2>2, <2>3
  <1> QED
    BY <1>2, <1>3

LEMMA CopiedRests ==
  ASSUME Sound, Copied, (\E t \in Threads : Start(t)) \/ Crash
  PROVE  Copied'
  <1> SUFFICES ASSUME ~overlap', faults' + crashes' <= 1
               PROVE  /\ (\A i \in Ids : IsCopy(i) /\ ~Valid(i) =>
                            faults = 1 /\ \E u \in Threads : loc[u].pc \in {"state", "withdraw"} /\ loc[u].id = i)'
                      /\ (\A a \in OkTo(Creates) : a.call.source # NoId /\ Exists(a.id) /\ a.id \notin deleting =>
                            volume[a.id].copyOf = a.call.source)'
    BY DEF Copied
  <1>1. /\ UNCHANGED <<volume, flashcopy, nextId, answers, refused, faults>> /\ deleting \subseteq deleting'
        /\ crashes' >= crashes /\ ~overlap
    BY RestsIs
  <1>2. faults \in Nat /\ crashes \in Nat
    BY DEF Sound, Counted
  <1>3. crashes' \in Nat
    <2>1. ASSUME NEW t \in Threads, Start(t) PROVE crashes' = crashes
      BY <2>1, StartOpens DEF Opens
    <2> QED
      BY <1>2, <2>1 DEF Crash
  <1>4. faults + crashes <= 1
    <2>1. faults + crashes' <= 1 /\ crashes' >= crashes
      BY <1>1
    <2>2. \A f, c, d \in Nat : f + d <= 1 /\ d >= c => f + c <= 1
      OBVIOUS
    <2> QED
      BY <1>2, <1>3, <2>1, <2>2
  <1>5. \A i : (IsCopy(i)' <=> IsCopy(i)) /\ (Valid(i)' <=> Valid(i)) /\ (Exists(i)' <=> Exists(i))
    BY <1>1 DEF IsCopy, Valid, Exists
  <1>6. ASSUME NEW i \in Ids, IsCopy(i), ~Valid(i)
        PROVE  faults' = 1 /\ \E u \in Threads : loc'[u].pc \in {"state", "withdraw"} /\ loc'[u].id = i
    <2> PICK u \in Threads : faults = 1 /\ loc[u].pc \in {"state", "withdraw"} /\ loc[u].id = i
      BY <1>1, <1>4, <1>6 DEF Copied
    <2>1. ~Crash
      <3> SUFFICES ASSUME Crash PROVE FALSE
        OBVIOUS
      <3>1. crashes' = crashes + 1 /\ faults' = 1
        BY <1>1 DEF Crash
      <3> QED
        BY <1>2, <3>1
    <2> PICK t \in Threads : Start(t)
      BY <2>1
    <2> PICK c, m : CallOK(c) /\ Opens(t, c, m)
      BY StartOpens
    <2>2. u # t /\ loc'[u] = loc[u]
      BY IdleIs DEF Opens, Sound
    <2> QED
      BY <1>1, <2>2
  <1>7. OkTo(Creates)' = OkTo(Creates)
    BY <1>1 DEF OkTo
  <1>8. \A a \in OkTo(Creates) : a.call.source # NoId /\ Exists(a.id) /\ a.id \notin deleting =>
            volume[a.id].copyOf = a.call.source
    BY <1>1, <1>4 DEF Copied
  <1> QED
    BY <1>1, <1>5, <1>6, <1>7, <1>8

LEMMA CopiedQuiet ==
  ASSUME Sound, Copied, BackgroundCopy \/ UNCHANGED vars
  PROVE  Copied'
  <1>1. UNCHANGED <<volume, loc, answers, overlap, deleting, refused, faults, crashes>>
    BY BackgroundQuiet
  <1>2. \A i \in Ids : (IsCopy(i)' <=> IsCopy(i)) /\ (Valid(i)' <=> Valid(i))
    <2>1. CASE BackgroundCopy
      BY <2>1, CopyFinishes DEF Finishes
    <2>2. CASE UNCHANGED vars
      BY <2>2 DEF vars, arrayVars, IsCopy, Valid
    <2> QED
      BY <2>1, <2>2
  <1>3. OkTo(Creates)' = OkTo(Creates) /\ \A i : Exists(i)' <=> Exists(i)
    BY <1>1 DEF OkTo, Exists
  <1> QED
    BY <1>1, <1>2, <1>3 DEF Copied

LEMMA CopiedNext == Sound /\ Owned /\ Alone /\ Copied /\ [Next]_vars => Copied'
  BY RequestAdvances, AdvanceCopied, CopiedRests, CopiedQuiet DEF Next

-----------------------------------------------------------------------------
(***************************************************************************)
(* Nothing is left behind.                                                 *)
(***************************************************************************)

\* Nobody copies from what is being made.
LEMMA NoCopiesFrom ==
  ASSUME Sound, Owned, Untold, NEW t \in Threads, NEW l, l = loc[t], Makes(l), ~IsCopy(l.id)
  PROVE  FlashcopiesOf(l.id) = {}
  <1>1. l.id \notin KnownIds
    BY DEF Untold
  <1>2. CopiesFrom(l.id) = {}
    BY <1>1 DEF CopiesFrom, Owned, Reads
  <1> QED
    BY <1>2 DEF FlashcopiesOf

\* A rollback.
LEMMA UndoIsMaker ==
  ASSUME NEW l, InStep(l), l.undo # "none"
  PROVE  Makes(l) /\ l.pc \in {"rmtarget"} \cup Removing /\ l.pc \notin Filling
  BY DEF InStep, Makes, Creates, Filling, Unflashed, Removing

LEMMA UndoStays ==
  ASSUME Sound, Owned, Untold, NEW t \in Threads, NEW l, l = loc[t], NEW m, Step(t, l, m), faults' = faults,
         Unbound(l),
         m.undo # "none"
  PROVE  m.pc \notin {"ensure", "rmrels", "rmtargetrel"} /\ ~IsCopy(m.id)'
  <1>1. Goes(l, m) /\ m.call = l.call /\ InStep(m)
    <2>1. m # Idle
      BY IdleIs
    <2> QED
      BY <2>1, MadeIs DEF Goes
  <1>2. Makes(m) /\ m.pc \in {"rmtarget"} \cup Removing
    BY <1>1, UndoIsMaker
  <1>3. m.pc # "readback" /\ m.pc # "state"
    BY <1>2 DEF Removing
  <1>4. Makes(l) /\ m.id = l.id
    BY <1>2, <1>3, MadeIs
  <1>5. InStep(l) /\ LocOwns(l) /\ l.id \in Ids
    BY <1>4, LocIs, OwnedIs
  <1>6. ~IsCopy(l.id)'
    <2>1. CASE l.undo # "none"
      <3>1. l.pc # "flash"
        BY <1>5, <2>1, UndoIsMaker DEF Filling, Unflashed
      <3> QED
        BY <1>5, <2>1, <3>1, NewTargets DEF Unbound
    <2>2. CASE l.undo = "none" /\ l.pc \in Unflashed
      <3>1. ~IsCopy(l.id)
        BY <1>4, <1>5, <2>2 DEF LocOwns, Unmarked, Makes
      <3> QED
        BY <1>3, <1>5, <3>1, NewTargets
    <2>3. CASE l.undo = "none" /\ l.pc \notin Unflashed
      BY <1>1, <2>3 DEF Goes
    <2> QED
      BY <2>1, <2>2, <2>3
  <1>7. m.pc \notin {"ensure", "rmrels", "rmtargetrel"}
    <2> SUFFICES ASSUME m.pc \in {"ensure", "rmrels", "rmtargetrel"} PROVE FALSE
      OBVIOUS
    <2>1. l.pc \in {"ensure", "rmrels"} \/ (l.pc = "find" /\ FlashcopiesOf(l.id) # {})
      BY <1>1 DEF Goes
    <2>2. l.call.op = "CreateVolume"
      BY <1>1, <1>4 DEF InStep, Makes, Creates, Removing
    <2>3. l.undo # "none"
      BY <1>5, <2>1, <2>2 DEF InStep, Removing
    <2> QED
      BY <1>4, <2>1, <2>3, NoCopiesFrom DEF Unbound
  <1> QED
    BY <1>4, <1>6, <1>7

\* The end of a call that has made something.
LEMMA EndLeaves ==
  ASSUME Sound, Owned, Untold, NEW t \in Threads, NEW l, l = loc[t], NEW m, Step(t, l, m), faults' = faults,
         Unbound(l),
         Makes(l), Exists(l.id), Exists(l.id)', m = Idle
  PROVE  \/ l.id \in KnownIds'
         \/ \E a \in answers' : /\ a.call.op = "CreateSnapshot" /\ a.status = "INTERNAL"
                                /\ a.call.name = volume[l.id].name
  <1> PICK status \in Statuses, i \in {NoId, l.id} :
         /\ answers' = answers \cup {[call |-> l.call, status |-> status, id |-> i]}
         /\ Ends(l, status, i)
    BY IdleIs DEF Step, Goes
  <1> PICK a : a = [call |-> l.call, status |-> status, id |-> i]
    OBVIOUS
  <1>1. a \in answers' /\ a.call = l.call /\ a.status = status /\ a.id = i
    OBVIOUS
  <1>2. l.call.op \in Creates /\ volume[l.id].name = l.call.name
    BY DEF Makes, Sound, LocOK
  <1>3. CASE status = "OK"
    <2>1. i = l.id
      BY <1>3 DEF Ends
    <2> QED
      BY <1>1, <1>2, <1>3, <2>1 DEF KnownIds, OkTo
  <1>4. CASE status # "OK"
    <2>1. InStep(l) /\ l.pc # "idle"
      BY LocIs DEF Step
    <2>2. l.pc \in Removing \cup {"rmtarget"} => l.undo # "none"
      BY <1>2, <2>1 DEF InStep, Creates, Removing
    <2>3. l.pc \notin {"ensure", "rmrels", "rmtargetrel"}
      BY <2>2 DEF Removing, Unbound
    <2>4. l.pc \in {"rmvolume", "rmtarget"} => Free(l.id)
      BY <2>2, NoCopiesFrom DEF Removing, Free, Unbound
    <2>5. l.call.op = "CreateSnapshot" /\ status = "INTERNAL"
      BY <1>4, <2>3, <2>4 DEF Ends
    <2> QED
      BY <1>1, <1>2, <2>5
  <1> QED
    BY <1>3, <1>4

LEMMA AccountedStays ==
  ASSUME Sound, Owned, Untold, NEW t \in Threads, NEW l, l = loc[t], NEW m, Step(t, l, m), faults' = faults,
         Unbound(l),
         NEW i \in Ids, Exists(i) => Accounted(i), Exists(i)'
  PROVE  Accounted(i)'
  <1>1. /\ loc'[t] = m /\ \A u \in Threads : u # t => loc'[u] = loc[u]
        /\ KnownIds \subseteq KnownIds' /\ VolumeStep(l, m, i) /\ Ages
    BY StepIs DEF Effects
  <1>2. ASSUME NEW u \in Threads, Makes(loc'[u]), loc'[u].id = i
        PROVE  Accounted(i)'
    <2>1. Makes(loc[u])' /\ loc'[u].id = i
      BY <1>2 DEF Makes
    <2> QED
      BY <2>1 DEF Accounted
  <1>3. CASE ~Exists(i)
    <2>1. m.pc = "readback" /\ i = nextId
      BY <1>1, <1>3 DEF VolumeStep
    <2>2. m.id = nextId
      BY <2>1, StepIs DEF Effects
    <2>3. Makes(m)
      <3>1. m # Idle
        BY <2>1, IdleIs
      <3>2. Goes(l, m)
        BY <3>1, MadeIs
      <3> QED
        BY <2>1, <3>2 DEF Goes
    <2> QED
      BY <1>1, <1>2, <2>1, <2>2, <2>3
  <1>4. CASE Exists(i) /\ i \in KnownIds
    BY <1>1, <1>4 DEF Accounted
  <1>5. ASSUME Exists(i), NEW a \in answers, a.call.op = "CreateSnapshot", a.status = "INTERNAL",
               a.call.name = volume[i].name
        PROVE  Accounted(i)'
    <2>1. volume'[i].name = volume[i].name /\ a \in answers'
      BY <1>1, <1>5 DEF VolumeStep, Ages
    <2> QED
      BY <1>5, <2>1 DEF Accounted
  <1>6. ASSUME Exists(i), NEW u \in Threads, Makes(loc[u]), loc[u].id = i
        PROVE  Accounted(i)'
    <2>1. CASE u # t
      BY <1>1, <1>2, <1>6, <2>1
    <2>2. CASE u = t /\ m # Idle
      <3>1. Goes(l, m) /\ Makes(l)
        BY <1>6, <2>2, MadeIs
      <3>2. Makes(m)
        BY <3>1 DEF Goes
      <3>3. m.id = l.id
        <4>1. l.pc # "create"
          BY <3>1 DEF Makes, Filling, Unflashed, Removing
        <4> QED
          BY <3>2, <4>1, MadeIs
      <3> QED
        BY <1>1, <1>2, <1>6, <2>2, <3>2, <3>3
    <2>3. CASE u = t /\ m = Idle
      <3>1. Makes(l) /\ l.id = i
        BY <1>6, <2>3
      <3>2. \/ i \in KnownIds'
            \/ \E a \in answers' : /\ a.call.op = "CreateSnapshot" /\ a.status = "INTERNAL"
                                   /\ a.call.name = volume[i].name
        BY <1>6, <2>3, <3>1, EndLeaves
      <3>3. volume'[i].name = volume[i].name
        BY <1>1, <1>6 DEF VolumeStep
      <3> QED
        BY <3>2, <3>3 DEF Accounted
    <2> QED
      BY <2>1, <2>2, <2>3
  <1> QED
    BY <1>3, <1>4, <1>5, <1>6 DEF Accounted

LEMMA AdvanceClean ==
  ASSUME Sound, Owned, Alone, Clean, NEW t \in Threads, Advance(t)
  PROVE  Clean'
  <1> PICK l \in LocRecs, m \in LocRecs : l = loc[t] /\ Step(t, l, m)
    BY DEF Advance
  <1> SUFFICES ASSUME ~overlap', faults' = 0, crashes' = 0
               PROVE  /\ (\A u \in Threads : Unbound(loc[u]))'
                      /\ (\A i \in Ids : Exists(i) => Accounted(i))'
    BY DEF Clean
  <1>1. ~overlap /\ crashes = 0 /\ faults \in Nat /\ faults' \in {faults, faults + 1}
    BY DEF Step, Sound, Counted
  <1>2. faults = 0 /\ faults' = faults
    BY <1>1
  <1>3. Untold /\ (\A u \in Threads : Unbound(loc[u])) /\ (\A i \in Ids : Exists(i) => Accounted(i))
    BY <1>1, <1>2 DEF Alone, Clean
  <1>4. Unbound(l)
    BY <1>3
  <1>5. loc'[t] = m /\ \A u \in Threads : u # t => loc'[u] = loc[u]
    BY StepIs
  <1>6. Unbound(m)'
    <2>1. m.undo # "none" => m.pc \notin {"ensure", "rmrels", "rmtargetrel"} /\ ~IsCopy(m.id)'
      BY <1>2, <1>3, <1>4, UndoStays
    <2> QED
      BY <2>1 DEF Unbound
  <1>7. ASSUME NEW o \in Threads, o # t, NEW k, k = loc[o] PROVE Unbound(k)'
    <2> SUFFICES ASSUME k.undo # "none"
                 PROVE  k.pc \notin {"ensure", "rmrels", "rmtargetrel"} /\ ~IsCopy(k.id)'
      BY DEF Unbound
    <2>1. k.pc \notin {"ensure", "rmrels", "rmtargetrel"} /\ ~IsCopy(k.id)
      BY <1>3, <1>7 DEF Unbound
    <2>2. Makes(k) /\ k.id \in Ids
      BY <1>7, LocIs, UndoIsMaker, OwnedIs
    <2>3. Makes(l) => k.id # l.id
      BY <1>7, <2>2, OneMaker
    <2>4. Unmarked(l) => Makes(l)
      BY OwnedIs
    <2> QED
      BY <2>1, <2>2, <2>3, <2>4, NewTargets
  <1>8. ASSUME NEW u \in Threads PROVE Unbound(loc[u])'
    <2> PICK k : k = loc'[u]
      OBVIOUS
    <2>1. Unbound(k)'
      BY <1>5, <1>6, <1>7
    <2> QED
      BY <2>1
  <1>9. \A i \in Ids : Exists(i)' => Accounted(i)'
    BY <1>2, <1>3, <1>4, AccountedStays
  <1> QED
    BY <1>8, <1>9

LEMMA CleanStarts ==
  ASSUME Sound, Clean, NEW t \in Threads, Start(t)
  PROVE  Clean'
  <1> PICK c, m : CallOK(c) /\ Opens(t, c, m)
    BY StartOpens
  <1> SUFFICES ASSUME ~overlap', faults' = 0, crashes' = 0
               PROVE  /\ (\A u \in Threads : Unbound(loc[u]))'
                      /\ (\A i \in Ids : Exists(i) => Accounted(i))'
    BY DEF Clean
  <1>1. ~overlap /\ faults = 0 /\ crashes = 0
    BY DEF Opens
  <1>2. (\A u \in Threads : Unbound(loc[u])) /\ (\A i \in Ids : Exists(i) => Accounted(i))
    BY <1>1 DEF Clean
  <1>3. /\ loc'[t] = m /\ m.undo = "none" /\ loc[t] = Idle /\ \A u \in Threads : u # t => loc'[u] = loc[u]
    BY DEF Opens, Sound
  <1>4. volume' = volume /\ flashcopy' = flashcopy /\ answers' = answers
    BY DEF Opens
  <1>5. ASSUME NEW u \in Threads PROVE Unbound(loc[u])'
    <2> PICK k : k = loc'[u]
      OBVIOUS
    <2>1. k.undo = "none" \/ Unbound(k)
      BY <1>2, <1>3
    <2>2. Unbound(k)'
      BY <1>4, <2>1 DEF Unbound, IsCopy
    <2> QED
      BY <2>2
  <1>6. \A u \in Threads : Makes(loc[u]) => loc'[u] = loc[u]
    BY <1>3, IdleIs DEF Makes, Creates, NoCall
  <1>7. ASSUME NEW i \in Ids, Accounted(i) PROVE Accounted(i)'
    <2>1. KnownIds' = KnownIds
      BY <1>4 DEF KnownIds, OkTo
    <2>2. (\E u \in Threads : Makes(loc[u]) /\ loc[u].id = i) => (\E u \in Threads : Makes(loc[u]) /\ loc[u].id = i)'
      BY <1>6 DEF Makes
    <2> QED
      BY <1>4, <1>7, <2>1, <2>2 DEF Accounted
  <1>8. \A i \in Ids : Exists(i)' <=> Exists(i)
    BY <1>4 DEF Exists
  <1> QED
    BY <1>2, <1>5, <1>7, <1>8

LEMMA CleanQuiet ==
  ASSUME Sound, Owned, Clean, BackgroundCopy \/ UNCHANGED vars
  PROVE  Clean'
  <1>1. UNCHANGED <<volume, loc, answers, overlap, deleting, refused, faults, crashes>>
    BY BackgroundQuiet
  <1>2. \A i \in Ids : IsCopy(i)' <=> IsCopy(i)
    <2>1. CASE BackgroundCopy
      BY <2>1, CopyFinishes DEF Finishes
    <2>2. CASE UNCHANGED vars
      BY <2>2 DEF vars, arrayVars, IsCopy
    <2> QED
      BY <2>1, <2>2
  <1>3. ASSUME NEW u \in Threads, Unbound(loc[u]) PROVE Unbound(loc[u])'
    <2> PICK k : k = loc[u]
      OBVIOUS
    <2>1. k.undo # "none" => k.id \in Ids
      BY LocIs, UndoIsMaker, OwnedIs
    <2>2. Unbound(k)'
      BY <1>2, <1>3, <2>1 DEF Unbound
    <2> QED
      BY <1>1, <2>2
  <1>4. ASSUME NEW i \in Ids PROVE (Exists(i)' <=> Exists(i)) /\ (Accounted(i) => Accounted(i)')
    BY <1>1 DEF Exists, Accounted, KnownIds, OkTo
  <1> QED
    BY <1>1, <1>3, <1>4 DEF Clean

LEMMA CleanCrashes ==
  ASSUME Sound, Crash
  PROVE  Clean'
  <1>1. crashes' # 0
    BY DEF Crash, Sound, Counted
  <1> QED
    BY <1>1 DEF Clean

LEMMA CleanNext == Sound /\ Owned /\ Alone /\ Clean /\ [Next]_vars => Clean'
  BY RequestAdvances, AdvanceClean, CleanStarts, CleanCrashes, CleanQuiet DEF Next

-----------------------------------------------------------------------------
(***************************************************************************)
(* Expanded volumes have their size.                                       *)
(***************************************************************************)

LEMMA SizeStays ==
  ASSUME Sound, NEW l, NEW m, Effects(l, m), Ages, NEW i \in Nat, i < nextId, Exists(i)', NEW z \in Nat,
         Exists(i) => volume[i].size >= z
  PROVE  volume'[i].size >= z
  <1>1. Exists(i) /\ volume'[i].size >= volume[i].size /\ i \in Ids
    BY DEF Ages, Exists
  <1>2. volume[i].size \in Nat
    BY <1>1, ArrayedIs DEF Sizeds
  <1>3. volume'[i].size \in Nat
    <2>1. volume'[i] \in Sizeds
      BY <1>1 DEF Effects, Arrayed, Exists
    <2> QED
      BY <2>1 DEF Sizeds
  <1> QED
    BY <1>1, <1>2, <1>3

LEMMA AdvanceGrown ==
  ASSUME Sound, Grown, NEW t \in Threads, Advance(t)
  PROVE  Grown'
  <1> PICK l \in LocRecs, m \in LocRecs : l = loc[t] /\ Step(t, l, m)
    BY DEF Advance
  <1> SUFFICES ASSUME faults' = 0
               PROVE  /\ (\A u \in Threads : loc[u].pc = "xafter" /\ Exists(loc[u].id) /\ loc[u].id \notin refused =>
                             volume[loc[u].id].size >= loc[u].call.size)'
                      /\ (\A a \in OkTo({"Expand"}) :
                             Exists(a.id) /\ a.id \notin refused => volume[a.id].size >= a.call.size)'
    BY DEF Grown, ExpandedWhenOk
  <1>1. faults \in Nat /\ faults' \in {faults, faults + 1} /\ refused \subseteq refused'
    BY DEF Step, Sound, Counted
  <1>2. faults = 0 /\ faults' = faults
    BY <1>1
  <1>3. \A u \in Threads : loc[u].pc = "xafter" /\ Exists(loc[u].id) /\ loc[u].id \notin refused =>
                             volume[loc[u].id].size >= loc[u].call.size
    BY <1>2 DEF Grown
  <1>4. \A a \in OkTo({"Expand"}) : Exists(a.id) /\ a.id \notin refused => volume[a.id].size >= a.call.size
    BY <1>2 DEF Grown, ExpandedWhenOk
  <1>5. /\ loc'[t] = m /\ \A u \in Threads : u # t => loc'[u] = loc[u]
        /\ Effects(l, m) /\ Ages
    BY StepIs
  <1>6. ASSUME m.pc = "xafter", Exists(m.id)', m.id \notin refused'
        PROVE  volume'[m.id].size >= m.call.size
    <2>1. m # Idle
      BY <1>6, IdleIs
    <2>2. Goes(l, m) /\ m.call = l.call
      BY <2>1, MadeIs
    <2>3. m.id = l.id
      BY <1>6, <2>2 DEF Goes
    <2>4. ~(faults' > faults)
      BY <1>1, <1>2
    <2> QED
      BY <1>6, <2>2, <2>3, <2>4 DEF Goes
  <1>7. ASSUME NEW k \in LocRecs, k.id < nextId, k.pc = "xafter", Exists(k.id)', k.id \notin refused',
               Exists(k.id) /\ k.id \notin refused => volume[k.id].size >= k.call.size
        PROVE  volume'[k.id].size >= k.call.size
    <2>1. k.id \in Nat /\ k.call.size \in Nat
      BY DEF LocRecs, CallRecs
    <2> QED
      BY <1>1, <1>5, <1>7, <2>1, SizeStays
  <1>8. ASSUME NEW u \in Threads PROVE (loc[u].pc = "xafter" /\ Exists(loc[u].id) /\ loc[u].id \notin refused =>
                             volume[loc[u].id].size >= loc[u].call.size)'
    <2> PICK k : k = loc'[u]
      OBVIOUS
    <2>1. CASE u = t
      BY <1>5, <1>6, <2>1
    <2>2. CASE u # t
      <3>1. k = loc[u] /\ k \in LocRecs /\ k.id < nextId
        BY <1>5, <2>2, LocIs DEF Sound, LocOK
      <3>2. k.pc = "xafter" /\ Exists(k.id)' /\ k.id \notin refused' => volume'[k.id].size >= k.call.size
        BY <1>3, <1>7, <3>1
      <3> QED
        BY <3>2
    <2> QED
      BY <2>1, <2>2
  <1>9. ASSUME NEW a \in OkTo({"Expand"})', Exists(a.id)', a.id \notin refused'
        PROVE  volume'[a.id].size >= a.call.size
    <2>1. a \in answers' /\ a.status = "OK" /\ a.call.op = "Expand" /\ a.call.op \notin Creates
      BY DEF OkTo, Creates
    <2>2. CASE a \in answers
      <3>1. a \in OkTo({"Expand"}) /\ AnswerOK(a)
        BY <2>1, <2>2 DEF OkTo, Sound
      <3>2. a.id \in Nat /\ a.id < nextId /\ a.call.size \in Nat
        <4>1. a.id \in KnownIds /\ a \in AnswerRecs
          BY <2>1, <3>1 DEF AnswerOK
        <4> QED
          BY <4>1, KnownIs DEF AnswerRecs, CallRecs
      <3>3. Exists(a.id) => volume[a.id].size >= a.call.size
        BY <1>1, <1>4, <1>9, <3>1
      <3> QED
        BY <1>5, <1>9, <3>2, <3>3, SizeStays
    <2>3. CASE a \notin answers
      <3>1. a.call = l.call /\ Ends(l, a.status, a.id)
        BY <2>1, <2>3, ToldIs
      <3>2. a.id = l.id /\ (volume[l.id].size >= l.call.size \/ l.pc = "xafter")
        BY <2>1, <3>1 DEF Ends
      <3>3. l.id \in Nat /\ l.id < nextId /\ l.call.size \in Nat
        BY LocIs DEF Sound, LocOK, LocRecs, CallRecs
      <3>4. Exists(l.id) => volume[l.id].size >= l.call.size
        BY <1>1, <1>3, <1>9, <3>2
      <3> QED
        BY <1>5, <1>9, <3>1, <3>2, <3>3, <3>4, SizeStays
    <2> QED
      BY <2>2, <2>3
  <1> QED
    BY <1>8, <1>9

LEMMA GrownRests ==
  ASSUME Sound, Grown, UNCHANGED <<volume, answers, refused, faults>>,
         \A u \in Threads : loc'[u] = loc[u] \/ loc'[u].pc # "xafter"
  PROVE  Grown'
  <1>1. \A i : Exists(i)' <=> Exists(i)
    BY DEF Exists
  <1>2. OkTo({"Expand"})' = OkTo({"Expand"})
    BY DEF OkTo
  <1> QED
    BY <1>1, <1>2 DEF Grown, ExpandedWhenOk

LEMMA GrownNext == Sound /\ Grown /\ [Next]_vars => Grown'
  <1> SUFFICES ASSUME Sound, Grown, [Next]_vars PROVE Grown'
    OBVIOUS
  <1>1. CASE (\E t \in Threads : Start(t)) \/ Crash
    <2>1. /\ UNCHANGED <<volume, answers, refused, faults>>
          /\ \A u \in Threads : loc'[u] = loc[u] \/ loc'[u].pc # "xafter"
      BY <1>1, RestsIs
    <2> QED
      BY <2>1, GrownRests
  <1>2. CASE BackgroundCopy \/ UNCHANGED vars
    BY <1>2, BackgroundQuiet, GrownRests
  <1> QED
    BY <1>1, <1>2, RequestAdvances, AdvanceGrown DEF Next

-----------------------------------------------------------------------------
(***************************************************************************)
(* The properties of the runs.                                             *)
(***************************************************************************)

\* All of it, for the induction.
Kept == Sound /\ Owned /\ Alone /\ Copied /\ Clean /\ Grown

LEMMA KeptInit == Init => Kept
  <1> SUFFICES ASSUME Init PROVE Kept
    OBVIOUS
  <1>1. Sound /\ Owned
    BY SoundInit, OwnedInit
  <1>2. \A t \in Threads : loc[t] = Idle
    BY DEF Init
  <1>3. ~Makes(Idle)
    BY IdleIs DEF Makes, Creates, NoCall
  <1>4. answers = {} /\ OkTo(Creates) = {} /\ OkTo({"Expand"}) = {} /\ \A i \in Ids : ~IsCopy(i)
    BY DEF Init, OkTo, IsCopy
  <1>5. Alone
    BY <1>2, <1>3, IdleIs DEF Alone, Apart, Unfound, Untold, ReadsSource
  <1>6. Copied
    BY <1>4 DEF Copied
  <1>7. Clean
    <2>1. \A i \in Ids : Exists(i) => i = 1
      BY DEF Init, Exists
    <2> QED
      BY <1>2, <2>1, IdleIs DEF Clean, Unbound, Accounted, KnownIds
  <1>8. Grown
    BY <1>2, <1>4, IdleIs DEF Grown, ExpandedWhenOk
  <1> QED
    BY <1>1, <1>5, <1>6, <1>7, <1>8 DEF Kept

LEMMA KeptNext == Kept /\ [Next]_vars => Kept'
  BY SoundNext, OwnedNext, AloneNext, CopiedNext, CleanNext, GrownNext DEF Kept

\* The inductive invariant: what is being made, copied, rolled back and expanded is
\* as the handlers take it to be.
THEOREM KeptAlways == Spec => []Kept
  <1>1. Init => Kept
    BY KeptInit
  <1>2. Kept /\ [Next]_vars => Kept'
    BY KeptNext
  <1> QED
    BY <1>1, <1>2, PTL DEF Spec

\* What was answered as created from a source holds the data of that source, under
\* any one failure or restart, as long as calls about one object do not overlap.
THEOREM CopiesHoldTheirSource == Spec => []CopiedWhenOk
  <1>1. Kept => CopiedWhenOk
    BY DEF Kept, Copied, CopiedWhenOk
  <1> QED
    BY <1>1, KeptAlways, PTL

LEMMA CleanNoOrphans ==
  ASSUME Sound, Clean
  PROVE  NoOrphans
  <1> SUFFICES ASSUME ~overlap, faults = 0, crashes = 0, NEW i \in Ids, Exists(i)
               PROVE  \/ i \in {k.id : k \in Known}
                      \/ \E t \in Threads : loc[t].call.op \in Creates /\ loc[t].call.name = volume[i].name
                      \/ \E a \in answers : /\ a.call.op = "CreateSnapshot" /\ a.status = "INTERNAL"
                                           /\ a.call.name = volume[i].name
    BY DEF NoOrphans
  <1>1. Accounted(i)
    BY DEF Clean
  <1>2. ASSUME NEW t \in Threads, Makes(loc[t]), loc[t].id = i
        PROVE  loc[t].call.op \in Creates /\ loc[t].call.name = volume[i].name
    BY <1>2 DEF Makes, Sound, LocOK
  <1> QED
    BY <1>1, <1>2, KnownIdsAre DEF Accounted

\* The array is consistent and agrees with the answers: what was deleted is gone
\* with its relationships, a failed clone has left nothing but what a request that
\* failed left, and an expanded volume has its size unless the array refused it.
THEOREM AnswersMatchTheArray == Spec => []ArrayAgrees
  <1>1. Kept => ArrayAgrees
    BY SoundTypeOK, SoundVolumeGone, CleanNoOrphans DEF Kept, Grown, ArrayAgrees, ExpandedWhenOk
  <1> QED
    BY <1>1, KeptAlways, PTL

=============================================================================
