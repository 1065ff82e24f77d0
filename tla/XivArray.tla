------------------------------ MODULE XivArray -------------------------------
(***************************************************************************)
(* A XIV / FlashSystem A9000 as its mediator (array_mediator_xiv.py) uses  *)
(* it through XCLI: volumes and snapshots share one space of names, have a *)
(* wwn each, and commands take the names.  The array is not part of the    *)
(* repository; what a command does is taken from the calls and from the    *)
(* errors the mediator has cases for.                                      *)
(***************************************************************************)
EXTENDS Integers, FiniteSets

CONSTANTS Names,          \* names of volumes and snapshots
          MaxObjects      \* bound: objects that are ever created

ASSUME ArrayAssumption == MaxObjects \in Nat \ {0} /\ "none" \notin Names

\* A volume's size is in blocks; master is the volume a snapshot belongs to;
\* copied is its copy_master_wwn; data is the object whose data it holds.
VARIABLES object,         \* the object of each wwn, or NoObject
          nextId          \* the next wwn

arrayVars == <<object, nextId>>

Ids      == 1..MaxObjects
NoId     == 0
NoObject == [name |-> "none", blocks |-> 0, master |-> NoId, copied |-> NoId, data |-> NoId]

Exists(i)     == i \in Ids /\ object[i] # NoObject
Called(n)     == {i \in Ids : Exists(i) /\ object[i].name = n}
Snapshots(i)  == {k \in Ids : Exists(k) /\ object[k].master = i}
IsSnapshot(i) == object[i].master # NoId

\* An object may be made as long as MaxObjects allows.
VolCreate(n, blocks) ==
    /\ nextId \in Ids
    /\ object' = [object EXCEPT ![nextId] = [NoObject EXCEPT !.name = n, !.blocks = blocks]]
    /\ nextId' = nextId + 1

SnapshotCreate(n, i) ==
    /\ nextId \in Ids
    /\ object' = [object EXCEPT ![nextId] = [name |-> n, blocks |-> object[i].blocks, master |-> i,
                                             copied |-> i, data |-> i]]
    /\ nextId' = nextId + 1

\* vol_format erases; vol_copy makes the target as big as the source.
VolFormat(i) == object' = [object EXCEPT ![i].data = NoId] /\ UNCHANGED nextId
VolCopy(s, i) ==
    /\ object' = [object EXCEPT ![i].blocks = object[s].blocks, ![i].copied = s, ![i].data = s]
    /\ UNCHANGED nextId

VolResize(i, blocks) == object' = [object EXCEPT ![i].blocks = blocks] /\ UNCHANGED nextId

\* vol_delete takes the snapshots of the volume with it.
Remove(gone)   == object' = [i \in Ids |-> IF i \in gone THEN NoObject ELSE object[i]] /\ UNCHANGED nextId
VolDelete(i)      == Remove({i} \cup Snapshots(i))
SnapshotDelete(i) == Remove({i})
=============================================================================
