------------------------------ MODULE SvcArray ------------------------------
(***************************************************************************)
(* A SAN Volume Controller as its mediator (array_mediator_svc.py) uses    *)
(* it: the volumes, the FlashCopy mappings between them, and what each CLI *)
(* command does to them.  The array is not part of the repository; the     *)
(* effect of a command, and when it is refused, is taken from the calls    *)
(* the mediator makes and the CMMVC codes it handles.                      *)
(***************************************************************************)
EXTENDS Naturals

CONSTANTS Names,        \* names of volumes and snapshots (one name space)
          BlockSize     \* BLOCK_SIZE_IN_BYTES

ASSUME ArrayAssumption == BlockSize \in Nat \ {0}

\* A volume's copyOf is the id of the volume whose data it reads as, NoUid if
\* it is no copy (any more).
VARIABLES vdisk,        \* the volume of each name, or NoDisk
          fcmap,        \* the mapping whose target is that name, or NoMap
          nextUid       \* the next vdisk_UID; the array never reuses one

arrayVars == <<vdisk, fcmap, nextUid>>

NoUid  == 0
NoDisk == [uid |-> NoUid, size |-> 0, copyOf |-> NoUid]
NoMap  == [src |-> "none", rate0 |-> FALSE, status |-> "none"]

\* "idle" and "copied" are both reported as idle_or_copied.
MapStatus == {"idle", "copying", "copied", "stopped"}

Exists(n) == vdisk[n] # NoDisk
Mapped(n) == fcmap[n] # NoMap

\* lsvdisk -filtervalue vdisk_UID: the names that have this id (one or none).
NamesOf(uid) == {n \in Names : Exists(n) /\ vdisk[n].uid = uid}

\* lsfcmap -filtervalue source_vdisk_name.
MapsFrom(n) == {m \in Names : Mapped(m) /\ fcmap[m].src = n}

\* The mappings a volume takes part in, and its FC_id: the mapping, if it is one.
FcIds(n) == {m \in Names : Mapped(m) /\ (m = n \/ fcmap[m].src = n)}
FcId(n)  == {m \in FcIds(n) : FcIds(n) = {m}}

\* status == FCMAP_STATUS_DONE and copy_rate != "0".
Finished(m) == fcmap[m].status \in {"idle", "copied"} /\ ~fcmap[m].rate0

-----------------------------------------------------------------------------
\* mkvolume; the caller has checked that the name is free.
MkVolume(n, size) ==
    /\ vdisk' = [vdisk EXCEPT ![n] = [uid |-> nextUid, size |-> size, copyOf |-> NoUid]]
    /\ nextUid' = nextUid + 1
    /\ UNCHANGED fcmap

\* rmvolume is refused while the volume takes part in a mapping.
Removable(n) == Exists(n) /\ FcIds(n) = {}

RmVolume(n) == /\ vdisk' = [vdisk EXCEPT ![n] = NoDisk]
               /\ UNCHANGED <<fcmap, nextUid>>

\* expandvdisksize is refused in the same case.
ExpandVdisk(n, increase) == /\ vdisk' = [vdisk EXCEPT ![n].size = @ + increase]
                            /\ UNCHANGED <<fcmap, nextUid>>

\* mkfcmap needs both volumes, and a target that is not yet a target.
Mappable(src, tgt) == Exists(src) /\ Exists(tgt) /\ ~Mapped(tgt)

MkFcmap(src, tgt, rate0) ==
    /\ fcmap' = [fcmap EXCEPT ![tgt] = [src |-> src, rate0 |-> rate0, status |-> "idle"]]
    /\ UNCHANGED <<vdisk, nextUid>>

\* startfcmap -prep: from now on the target reads as the source did; a mapping
\* that is copying is left alone (FCMAP_ALREADY_COPYING).
StartFcmap(m) ==
    /\ fcmap' = [fcmap EXCEPT ![m].status = "copying"]
    /\ vdisk' = IF fcmap[m].status = "copying" THEN vdisk
                ELSE [vdisk EXCEPT ![m].copyOf = vdisk[fcmap[m].src].uid]
    /\ UNCHANGED nextUid

\* A target that loses its mapping before the copy is complete is no copy.
Broken(m) == IF fcmap[m].status = "copying" /\ Exists(m)
               THEN [vdisk EXCEPT ![m].copyOf = NoUid]
               ELSE vdisk

\* stopfcmap: refused unless it is copying.
StopFcmap(m) == /\ fcmap' = IF fcmap[m].status = "copying"
                              THEN [fcmap EXCEPT ![m].status = "stopped"] ELSE fcmap
                /\ vdisk' = Broken(m)
                /\ UNCHANGED nextUid

\* rmfcmap: refused while it is copying, unless forced.
RmFcmap(m, force) ==
    /\ IF force \/ fcmap[m].status # "copying"
         THEN fcmap' = [fcmap EXCEPT ![m] = NoMap] /\ vdisk' = Broken(m)
         ELSE UNCHANGED <<fcmap, vdisk>>
    /\ UNCHANGED nextUid

\* The background copy of a mapping with a copy rate comes to its end.
CopyDone(m) == /\ Mapped(m) /\ fcmap[m].status = "copying" /\ ~fcmap[m].rate0
               /\ fcmap' = [fcmap EXCEPT ![m].status = "copied"]
               /\ UNCHANGED <<vdisk, nextUid>>

\* What the array guarantees by itself: the types, and that the source and the
\* target of a mapping exist as long as the mapping does.
ArrayTypeOK ==
    /\ vdisk \in [Names -> {NoDisk} \cup [uid: Nat \ {NoUid}, size: Nat, copyOf: Nat]]
    /\ fcmap \in [Names -> {NoMap} \cup [src: Names, rate0: BOOLEAN, status: MapStatus]]
    /\ nextUid \in Nat \ {NoUid}
    /\ \A m \in Names : Mapped(m) => Exists(m) /\ Exists(fcmap[m].src)
=============================================================================
