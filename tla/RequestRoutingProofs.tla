------------------------ MODULE RequestRoutingProofs ------------------------
(***************************************************************************)
(* The safety of request routing for any systems, secrets, classes, names, *)
(* ids, calls and edits of the secret.                                     *)
(***************************************************************************)
EXTENDS RequestRouting, SequenceTheorems, WellFoundedInduction, TLAPS

Kinds == {"volume", "snapshot"}

\* The number of an object is one its array has given.
Made(uid) == uid = <<uid[1], uid[2]>> /\ uid[1] \in Systems /\ uid[2] \in 1..made[uid[1]]

Typed ==
    /\ secret \in Secrets
    /\ made \in [Systems -> Nat]
    /\ \A o \in held : Made(o.uid) /\ o.kind \in Kinds
    /\ \A o, p \in held : o.uid = p.uid => o = p
    /\ \A o, p \in held : o.uid[1] = p.uid[1] /\ o.name = p.name => o = p
    /\ \A i \in issued : Made(i.uid) /\ i.kind \in Kinds /\ i.secret \in Secrets
    /\ calls \in 0..MaxCalls /\ edits \in 0..MaxEdits

\* The id of an answer leads back to the system: it is the only one of the secret,
\* or the id names it.  A snapshot's id does so only without a config.
Leads(i) ==
    /\ SameSystems(i.secret, secret)
    /\ i.secret.config = <<>> => i.secret.conn = i.uid[1] /\ i.id = <<TypeOf[i.uid[1]], i.uid>>
    /\ i.secret.config # <<>> =>
         \/ i.kind = "snapshot" /\ i.id = <<TypeOf[i.uid[1]], i.uid>>
         \/ /\ i.kind = "volume"
            /\ \E e \in ToSet(i.secret.config) :
                  e.conn = i.uid[1] /\ e.id = <<e.id[1]>> /\ i.id = <<TypeOf[i.uid[1]], e.id[1], i.uid>>

\* The system is the one that the request and the secret ask for.
Asked(i) ==
    /\ i.req.rpc = IF i.kind = "volume" THEN "CreateVolume" ELSE "CreateSnapshot"
    /\ i.uid[1] = IF i.kind = "volume" THEN SystemFor(i.secret, i.req.place, NoId).system
                                       ELSE SystemFor(i.secret, NoPlace, SystemId(i.req.id)).system

NamesOf(kind) == IF kind = "volume" THEN VolumeNames \ {<<>>} ELSE SnapshotNames \ {<<>>}

\* The name that a request and a secret ask for.
Title(i) ==
    LET to == IF i.kind = "volume" THEN SystemFor(i.secret, i.req.place, NoId)
                                   ELSE SystemFor(i.secret, NoPlace, SystemId(i.req.id))
        id == IF i.kind = "volume" THEN to.id ELSE SystemId(i.req.id)
    IN FinalName(Prefix(i.req.class, id, TypeOf[to.system]), i.req.name, TypeOf[to.system])

\* The name of an object is the one that each request it was answered to asks for,
\* and ends like the name in it.
NamedAs(i) ==
    /\ i.req.name \in NamesOf(i.kind)
    /\ \A o \in held : o.uid = i.uid =>
          o.kind = i.kind /\ Last(o.name) = Last(i.req.name) /\ o.name = Title(i)

\* The RPCs about an id.
IdRpcs == {"DeleteVolume", "DeleteSnapshot", "CreateSnapshot", "Expand", "Publish", "Unpublish"}

\* What the invariant asks of a failure of a request.
Explained(req, status) ==
    /\ status = "OK" /\ req.rpc \in {"DeleteVolume", "DeleteSnapshot"} =>
          \A i \in issued : i.id = req.id => \A o \in held : o.uid # i.uid
    /\ req.rpc \in {"DeleteVolume", "Expand", "Publish", "Unpublish"} /\ req.sound =>
          \A i \in issued : i.id = req.id /\ i.kind = "volume" /\ Lists(secret, i.secret, i.uid[1]) =>
                               status \notin {"INVALID_ARGUMENT", "INTERNAL"}
    /\ status = "INTERNAL" =>
          \/ Len(req.id) = 3 /\ \A e \in ToSet(secret.config) : e.id # SystemId(req.id)
          \/ req.rpc = "CreateVolume" /\ ~LegalId(req.id)
          \/ req.rpc = "CreateSnapshot" /\ Objects(req) = {}

\* What holds of the objects, the answers and the secret ...
Base == Typed /\ SameVolumeSameName /\ \A i \in issued : Leads(i) /\ Asked(i) /\ NamedAs(i)

\* ... and with what is asked of the last answer, the inductive invariant.
IInv == Base /\ ActsOnOwn /\ DeletedWhenOk /\ KnownServed /\ InternalExplained

-----------------------------------------------------------------------------
(***************************************************************************)
(* The choice of the system.                                               *)
(***************************************************************************)

\* A set of numbers has a least one.
LEMMA MinIsIn ==
  ASSUME NEW S \in SUBSET Nat, S # {}
  PROVE  Min(S) \in S
  <1>1. PICK x \in S : \A y \in S : ~(<<y, x>> \in OpToRel(<, Nat))
    BY NatLessThanWellFounded, WFMin
  <1>2. \A y \in S : ~(y < x)
    BY <1>1, Zenon DEF OpToRel
  <1>3. \A y \in S : x <= y
    BY <1>2
  <1> QED
    BY <1>3 DEF Min

\* The place of a system in a config, by its id.
LEMMA NamedIs ==
  ASSUME NEW x \in Secrets, NEW id, NEW k, k = WithId(x.config, id)
  PROVE  \/ k = 0 /\ \A e \in ToSet(x.config) : e.id # id
         \/ k # 0 /\ x.config[k] \in ToSet(x.config) /\ x.config[k].id = id
  <1> DEFINE I == {i \in 1..Len(x.config) : x.config[i].id = id}
  <1>1. k = IF I # {} THEN Min(I) ELSE 0
    BY DEF SelectInSeq, WithId, FirstFor
  <1>2. x.config \in Seq(ToSet(x.config))
    BY SecretsAssumption
  <1>3. DOMAIN x.config = 1..Len(x.config) /\ Len(x.config) \in Nat
    BY <1>2
  <1>4. \A e \in ToSet(x.config) : \E i \in 1..Len(x.config) : e = x.config[i]
    BY <1>3 DEF ToSet
  <1>5. \A i \in 1..Len(x.config) : x.config[i] \in ToSet(x.config)
    BY <1>3 DEF ToSet
  <1>6. CASE I = {}
    BY <1>1, <1>4, <1>6
  <1>7. CASE I # {}
    <2>1. I \in SUBSET Nat
      BY <1>3
    <2>2. k \in I
      BY <1>1, <1>7, <2>1, MinIsIn
    <2> QED
      BY <1>3, <1>5, <2>2
  <1> QED
    BY <1>6, <1>7

\* The place of a system in a config, by its topologies.
LEMMA MatchIs ==
  ASSUME NEW x \in Secrets, NEW place, NEW k, k = FirstFor(x.config, place)
  PROVE  k = 0 \/ x.config[k] \in ToSet(x.config)
  <1> DEFINE I == {i \in 1..Len(x.config) : Matches(x.config[i], place)}
  <1>1. k = IF I # {} THEN Min(I) ELSE 0
    BY DEF SelectInSeq, WithId, FirstFor
  <1>2. x.config \in Seq(ToSet(x.config))
    BY SecretsAssumption
  <1>3. DOMAIN x.config = 1..Len(x.config) /\ Len(x.config) \in Nat
    BY <1>2
  <1>4. \A i \in 1..Len(x.config) : x.config[i] \in ToSet(x.config)
    BY <1>3 DEF ToSet
  <1>5. ASSUME I # {} PROVE k \in I
    <2>1. I \in SUBSET Nat
      BY <1>3
    <2> QED
      BY <1>1, <1>5, <2>1, MinIsIn
  <1> QED
    BY <1>1, <1>4, <1>5

\* The system that a secret, a place and an id give.
LEMMA SystemForIs ==
  ASSUME NEW x \in Secrets, NEW place, NEW id, NEW r, r = SystemFor(x, place, id)
  PROVE  /\ r.ex \in {"none", "TypeError", "ValidationException"}
         /\ x.config = <<>> => r.ex = "none" /\ r.system = x.conn /\ r.id = id
         /\ x.config # <<>> /\ id # NoId =>
              /\ r.ex # "none" => r.ex = "TypeError" /\ \A e \in ToSet(x.config) : e.id # id
              /\ r.ex = "none" => \E e \in ToSet(x.config) : e.id = id /\ r.system = e.conn
         /\ x.config # <<>> /\ id = NoId =>
              /\ r.ex = "none" => place # NoPlace /\ \E e \in ToSet(x.config) : r.system = e.conn /\ r.id = e.id
              /\ r.ex = "TypeError" => \E e \in ToSet(x.config) : e.places = {}
              /\ place = NoPlace => r.ex = "ValidationException"
  <1>1. PICK named : named = WithId(x.config, id)
    OBVIOUS
  <1>2. PICK match : match = FirstFor(x.config, place)
    OBVIOUS
  <1>3. r = IF x.config = <<>> THEN Chosen(x.conn, id)
            ELSE IF id # NoId THEN
                IF named = 0 THEN Refused("TypeError") ELSE Chosen(x.config[named].conn, id)
            ELSE IF place = NoPlace THEN Refused("ValidationException")
            ELSE IF \E e \in ToSet(x.config) : e.places = {} THEN Refused("TypeError")
            ELSE IF match = 0 THEN Refused("ValidationException")
            ELSE Chosen(x.config[match].conn, x.config[match].id)
    BY <1>1, <1>2 DEF SystemFor
  <1>4. \A ex : Refused(ex).ex = ex
    BY DEF Refused
  <1>5. \A c, i : Chosen(c, i).ex = "none" /\ Chosen(c, i).system = c /\ Chosen(c, i).id = i
    BY DEF Chosen
  <1>6. \/ named = 0 /\ \A e \in ToSet(x.config) : e.id # id
        \/ named # 0 /\ x.config[named] \in ToSet(x.config) /\ x.config[named].id = id
    BY <1>1, NamedIs
  <1>7. match = 0 \/ x.config[match] \in ToSet(x.config)
    BY <1>2, MatchIs
  <1>8. CASE x.config = <<>>
    BY <1>3, <1>5, <1>8
  <1>9. CASE x.config # <<>> /\ id # NoId
    <2>1. CASE named = 0
      BY <1>3, <1>4, <1>6, <1>9, <2>1
    <2>2. CASE named # 0
      <3>1. r = Chosen(x.config[named].conn, id)
        BY <1>3, <1>9, <2>2
      <3> QED
        BY <1>5, <1>6, <1>9, <2>2, <3>1
    <2> QED
      BY <2>1, <2>2
  <1>10. CASE x.config # <<>> /\ id = NoId
    <2>1. CASE place = NoPlace
      BY <1>3, <1>4, <1>10, <2>1
    <2>2. CASE place # NoPlace /\ \E e \in ToSet(x.config) : e.places = {}
      <3>1. r = Refused("TypeError")
        BY <1>3, <1>10, <2>2
      <3> QED
        BY <1>4, <1>10, <2>2, <3>1
    <2>3. CASE place # NoPlace /\ ~(\E e \in ToSet(x.config) : e.places = {}) /\ match = 0
      <3>1. r = Refused("ValidationException")
        BY <1>3, <1>10, <2>3
      <3> QED
        BY <1>4, <1>10, <2>3, <3>1
    <2>4. CASE place # NoPlace /\ ~(\E e \in ToSet(x.config) : e.places = {}) /\ match # 0
      <3>1. r = Chosen(x.config[match].conn, x.config[match].id)
        BY <1>3, <1>10, <2>4
      <3> QED
        BY <1>5, <1>7, <1>10, <2>4, <3>1
    <2> QED
      BY <2>1, <2>2, <2>3, <2>4
  <1> QED
    BY <1>8, <1>9, <1>10

-----------------------------------------------------------------------------
(***************************************************************************)
(* Ids.                                                                    *)
(***************************************************************************)

\* Two parts make a pair.
LEMMA PairIs == ASSUME NEW a, NEW b PROVE <<a>> \o <<b>> = <<a, b>>
  <1> DEFINE S == {a, b}
  <1>1. <<a>> \in Seq(S) /\ <<b>> \in Seq(S) /\ <<a, b>> \in Seq(S)
    OBVIOUS
  <1>2. PICK t : t = <<a>> \o <<b>>
    OBVIOUS
  <1>3. t \in Seq(S) /\ Len(t) = 2 /\ t[1] = a /\ t[2] = b
    BY <1>1, <1>2, ConcatProperties
  <1>4. t = <<a, b>>
    BY <1>1, <1>3, SeqEqual
  <1> QED
    BY <1>2, <1>4

\* The parts of the id of a volume.
LEMMA VolumeIdIs ==
  ASSUME NEW uid, NEW id
  PROVE  /\ id = NoId => VolumeId(uid, id) = <<TypeOf[uid[1]], uid>>
         /\ \A y : id = <<y>> => VolumeId(uid, id) = <<TypeOf[uid[1]], y, uid>>
  <1>1. PICK a : a = TypeOf[uid[1]]
    OBVIOUS
  <1>2. ASSUME id = NoId PROVE VolumeId(uid, id) = <<a, uid>>
    <2> DEFINE S == {a, uid}
    <2>1. <<a>> \in Seq(S) /\ <<uid>> \in Seq(S) /\ <<a, uid>> \in Seq(S)
      OBVIOUS
    <2>2. VolumeId(uid, id) = <<a>> \o <<uid>>
      BY <1>1, <1>2, <2>1, ConcatEmptySeq DEF VolumeId, NoId
    <2> QED
      BY <2>2, PairIs
  <1>3. ASSUME NEW y, id = <<y>> PROVE VolumeId(uid, id) = <<a, y, uid>>
    <2> DEFINE S == {a, y, uid}
    <2>1. <<a>> \o id = <<a, y>>
      BY <1>3, PairIs
    <2>2. VolumeId(uid, id) = <<a, y>> \o <<uid>>
      BY <1>1, <2>1 DEF VolumeId
    <2>3. <<a, y>> \in Seq(S) /\ <<uid>> \in Seq(S) /\ <<a, y, uid>> \in Seq(S)
      OBVIOUS
    <2>4. PICK t : t = <<a, y>> \o <<uid>>
      OBVIOUS
    <2>5. t \in Seq(S) /\ Len(t) = 3 /\ t[1] = a /\ t[2] = y /\ t[3] = uid
      BY <2>3, <2>4, ConcatProperties
    <2>6. t = <<a, y, uid>>
      BY <2>3, <2>5, SeqEqual
    <2> QED
      BY <2>2, <2>4, <2>6
  <1> QED
    BY <1>1, <1>2, <1>3

\* An id of two parts is understood again.
LEMMA PairParts ==
  ASSUME NEW a, NEW b, NEW id, id = <<a, b>>
  PROVE  LegalId(id) /\ SystemId(id) = NoId /\ Uid(id) = b /\ id # NoId
  BY DEF LegalId, SystemId, Uid, NoId

\* An id of three parts is understood again.
LEMMA TripleParts ==
  ASSUME NEW a, NEW b, NEW c, NEW id, id = <<a, b, c>>
  PROVE  LegalId(id) /\ SystemId(id) = <<b>> /\ Uid(id) = c /\ id # NoId /\ <<b>> # NoId
  BY DEF LegalId, SystemId, Uid, NoId

\* What an answered id leads to, whatever the secret is by now.
LEMMA RouteIs ==
  ASSUME IInv, NEW i \in issued, NEW r, r = SystemFor(secret, NoPlace, SystemId(i.id))
  PROVE  /\ LegalId(i.id) /\ i.id # NoId /\ Uid(i.id) = i.uid
         /\ r.ex = "none" => r.system = i.uid[1]
         /\ i.kind = "volume" /\ Lists(secret, i.secret, i.uid[1]) => r.ex = "none"
  <1>1. /\ secret \in Secrets /\ i.secret \in Secrets /\ i.kind \in Kinds /\ SameSystems(i.secret, secret)
        /\ Leads(i)
    BY DEF IInv, Base, Typed, Leads
  <1>2. PICK a, u : a = TypeOf[i.uid[1]] /\ u = i.uid
    OBVIOUS
  <1>3. CASE i.secret.config = <<>>
    <2>1. i.id = <<a, u>> /\ secret.config = <<>> /\ secret.conn = i.uid[1]
      BY <1>1, <1>2, <1>3 DEF Leads, SameSystems
    <2>2. r.ex = "none" /\ r.system = i.uid[1]
      BY <1>1, <2>1, SystemForIs
    <2> QED
      BY <1>2, <2>1, <2>2, PairParts
  <1>4. CASE i.secret.config # <<>> /\ i.kind = "snapshot"
    <2>1. i.id = <<a, u>> /\ secret.config # <<>>
      BY <1>1, <1>2, <1>4 DEF Leads, SameSystems
    <2>2. SystemId(i.id) = NoId
      BY <2>1, PairParts
    <2>3. r.ex = "ValidationException"
      BY <1>1, <2>1, <2>2, SystemForIs
    <2> QED
      BY <1>2, <1>4, <2>1, <2>3, PairParts
  <1>5. CASE i.secret.config # <<>> /\ i.kind = "volume"
    <2>1. secret.config # <<>>
      BY <1>1, <1>5 DEF SameSystems
    <2>2. PICK e \in ToSet(i.secret.config) : e.conn = i.uid[1] /\ e.id = <<e.id[1]>> /\ i.id = <<a, e.id[1], u>>
      BY <1>1, <1>2, <1>5 DEF Leads
    <2>3. PICK y : y = e.id[1]
      OBVIOUS
    <2>4. SystemId(i.id) = e.id /\ e.id # NoId /\ LegalId(i.id) /\ i.id # NoId /\ Uid(i.id) = u
      BY <2>2, <2>3, TripleParts
    <2>5. r.ex = "none" => r.system = i.uid[1]
      <3>1. r.ex = "none" => \E f \in ToSet(secret.config) : f.id = e.id /\ r.system = f.conn
        BY <1>1, <2>1, <2>4, SystemForIs
      <3> QED
        BY <1>1, <2>2, <3>1, SecretsAssumption
    <2>6. Lists(secret, i.secret, i.uid[1]) => r.ex = "none"
      <3>1. Lists(secret, i.secret, i.uid[1]) => \E f \in ToSet(secret.config) : f.id = e.id
        BY <2>2 DEF Lists
      <3>2. r.ex # "none" => \A f \in ToSet(secret.config) : f.id # e.id
        BY <1>1, <2>1, <2>4, SystemForIs
      <3> QED
        BY <3>1, <3>2
    <2> QED
      BY <1>2, <2>4, <2>5, <2>6
  <1> QED
    BY <1>1, <1>3, <1>4, <1>5 DEF Kinds

\* On its own array, the object of an answer is told by its number.
LEMMA SameIs ==
  ASSUME IInv, NEW i \in issued, NEW o \in held
  PROVE  SameObject(i.uid[1], i.uid, o) <=> o.uid = i.uid
  <1>1. Made(i.uid) /\ Made(o.uid)
    BY DEF IInv, Base, Typed
  <1>2. PICK u, w : u = i.uid /\ w = o.uid
    OBVIOUS
  <1>3. u = <<u[1], u[2]>> /\ w = <<w[1], w[2]>>
    BY <1>1, <1>2 DEF Made
  <1>4. (w[1] = u[1] /\ w[2] = u[2]) <=> w = u
    BY <1>3
  <1> QED
    BY <1>2, <1>4 DEF SameObject

\* The status of what the choice of the system and the lookup raise.
LEMMA StatusesAre ==
  ASSUME NEW rpc \in IdRpcs
  PROVE  /\ Status(rpc, "TypeError") = "INTERNAL"
         /\ Status(rpc, "ValidationException") = "INVALID_ARGUMENT"
         /\ Status(rpc, "ObjectNotFoundError") \in {"OK", "NOT_FOUND"}
         /\ Status(rpc, "ObjectIsStillInUseError") = "FAILED_PRECONDITION"
         /\ IllegalIdStatus[rpc] \in {"OK", "INVALID_ARGUMENT", "NOT_FOUND"}
  <1>1. /\ CommonStatus("TypeError") = "INTERNAL" /\ CommonStatus("ValidationException") = "INVALID_ARGUMENT"
        /\ CommonStatus("ObjectNotFoundError") = "NOT_FOUND"
        /\ CommonStatus("ObjectIsStillInUseError") = "FAILED_PRECONDITION"
    BY DEF CommonStatus
  <1>2. CASE rpc = "DeleteVolume"
    BY <1>1, <1>2 DEF Status, DeleteVolumeStatus, IllegalIdStatus
  <1>3. CASE rpc = "DeleteSnapshot"
    BY <1>1, <1>3 DEF Status, DeleteSnapshotStatus, IllegalIdStatus
  <1>4. CASE rpc = "CreateSnapshot"
    BY <1>1, <1>4 DEF Status, CreateSnapshotStatus, IllegalIdStatus
  <1>5. CASE rpc = "Expand"
    BY <1>1, <1>5 DEF Status, ExpandStatus, IllegalIdStatus
  <1>6. CASE rpc = "Publish"
    BY <1>1, <1>6 DEF Status, PublishStatus, IllegalIdStatus
  <1>7. CASE rpc = "Unpublish"
    BY <1>1, <1>7 DEF Status, UnpublishStatus, IllegalIdStatus
  <1> QED
    BY <1>2, <1>3, <1>4, <1>5, <1>6, <1>7 DEF IdRpcs

\* The checks of an RPC about an id: passed, they give a system and the object of
\* the answer; what they refuse is explained.
LEMMA ByIdCheckIs ==
  ASSUME IInv, NEW req, req.rpc \in IdRpcs, NEW c, c = ByIdCheck(req), NEW r, r = Target(req)
  PROVE  /\ c = "go" =>  /\ r.system \in Systems /\ ValidSecret(secret)
                         /\ \A i \in issued : i.id = req.id => r.system = i.uid[1] /\ Uid(req.id) = i.uid
         /\ c # "go" => Explained(req, c)
  <1>1. secret \in Secrets
    BY DEF IInv, Base, Typed
  <1>2. PICK id, sid : id = req.id /\ sid = SystemId(id)
    OBVIOUS
  <1>3. r = SystemFor(secret, NoPlace, sid)
    BY <1>2 DEF Target
  <1>4. \A i \in issued : i.id = id =>
           /\ LegalId(id) /\ id # NoId /\ Uid(id) = i.uid
           /\ r.ex = "none" => r.system = i.uid[1]
           /\ i.kind = "volume" /\ Lists(secret, i.secret, i.uid[1]) => r.ex = "none"
    <2> SUFFICES ASSUME NEW i \in issued, i.id = id
                 PROVE  /\ LegalId(id) /\ id # NoId /\ Uid(id) = i.uid
                        /\ r.ex = "none" => r.system = i.uid[1]
                        /\ i.kind = "volume" /\ Lists(secret, i.secret, i.uid[1]) => r.ex = "none"
      OBVIOUS
    <2>1. r = SystemFor(secret, NoPlace, SystemId(i.id))
      BY <1>2, <1>3
    <2> QED
      BY <2>1, RouteIs
  <1>5. PICK st : st = Status(req.rpc, r.ex)
    OBVIOUS
  <1>6. /\ r.ex \in {"none", "TypeError", "ValidationException"}
        /\ r.ex = "TypeError" => st = "INTERNAL"
        /\ r.ex = "ValidationException" => st = "INVALID_ARGUMENT"
    BY <1>1, <1>3, <1>5, SystemForIs, StatusesAre
  <1>7. PICK ill : ill = IllegalIdStatus[req.rpc]
    OBVIOUS
  <1>8. ill \in {"OK", "INVALID_ARGUMENT", "NOT_FOUND"}
    BY <1>7, StatusesAre
  <1>9. c = IF ~req.sound \/ ~ValidSecret(secret) THEN "INVALID_ARGUMENT"
            ELSE IF id = NoId /\ req.rpc # "Publish" THEN "INVALID_ARGUMENT"
            ELSE IF ~LegalId(id) THEN ill
            ELSE IF r.ex # "none" THEN st ELSE "go"
    BY <1>2, <1>5, <1>7 DEF ByIdCheck
  <1>10. c = "go" => req.sound /\ ValidSecret(secret) /\ LegalId(id) /\ r.ex = "none"
    BY <1>6, <1>8, <1>9
  <1>11. ASSUME r.ex = "none", ValidSecret(secret) PROVE r.system \in Systems
    <2>1. CASE secret.config = <<>>
      BY <1>1, <1>3, <1>11, <2>1, SystemForIs, SecretsAssumption DEF ValidSecret
    <2>2. CASE secret.config # <<>>
      <3>1. PICK e \in ToSet(secret.config) : r.system = e.conn
        BY <1>1, <1>3, <1>11, <2>2, SystemForIs
      <3>2. e.conn # NoSystem
        BY <1>11, <2>2 DEF ValidSecret, ValidEntry
      <3> QED
        BY <1>1, <3>1, <3>2, SecretsAssumption
    <2> QED
      BY <2>1, <2>2
  <1>12. CASE c = "go"
    BY <1>2, <1>4, <1>10, <1>11, <1>12
  <1>13. CASE c # "go"
    <2>1. ASSUME c = "OK", NEW i \in issued, i.id = req.id PROVE FALSE
      BY <1>2, <1>4, <1>6, <1>8, <1>9, <2>1
    <2>2. ASSUME req.sound, NEW i \in issued, i.id = req.id, i.kind = "volume",
                 Lists(secret, i.secret, i.uid[1]), c \in {"INVALID_ARGUMENT", "INTERNAL"}
          PROVE  FALSE
      <3>1. ValidSecret(secret)
        BY <2>2 DEF Lists
      <3> QED
        BY <1>2, <1>4, <1>9, <2>2, <3>1
    <2>3. ASSUME c = "INTERNAL"
          PROVE  Len(req.id) = 3 /\ \A e \in ToSet(secret.config) : e.id # SystemId(req.id)
      <3>1. r.ex = "TypeError" /\ LegalId(id) /\ ValidSecret(secret)
        BY <1>6, <1>8, <1>9, <2>3
      <3>2. secret.config # <<>>
        BY <1>1, <1>3, <3>1, SystemForIs
      <3>3. sid # NoId
        BY <1>1, <1>3, <3>1, <3>2, SystemForIs
      <3>4. \A e \in ToSet(secret.config) : e.id # sid
        BY <1>1, <1>3, <3>1, <3>2, <3>3, SystemForIs
      <3>5. Len(id) = 3
        BY <1>2, <3>3 DEF SystemId
      <3> QED
        BY <1>2, <3>4, <3>5
    <2> QED
      BY <1>13, <2>1, <2>2, <2>3 DEF Explained
  <1> QED
    BY <1>12, <1>13

-----------------------------------------------------------------------------
(***************************************************************************)
(* Names.                                                                  *)
(***************************************************************************)

\* What is put before a name does not change its end.
LEMMA LastOfConcat ==
  ASSUME NEW A, NEW B, NEW p \in Seq(A), NEW q \in Seq(B), q # <<>>
  PROVE  Last(p \o q) = Last(q)
  <1> DEFINE S == A \cup B
  <1>1. p \in Seq(S) /\ q \in Seq(S)
    BY SeqMonotonic
  <1>2. Len(p) \in Nat /\ Len(q) \in Nat \ {0}
    BY <1>1, LenProperties, EmptySeq
  <1>3. Len(p \o q) = Len(p) + Len(q) /\ (p \o q)[Len(p) + Len(q)] = q[Len(q)]
    BY <1>1, <1>2, ConcatProperties
  <1> QED
    BY <1>3 DEF Last

\* The prefix of a mediator is a list of parts.
LEMMA DefaultPrefixIs ==
  ASSUME NEW s \in Systems
  PROVE  \E S : DefaultPrefix(TypeOf[s]) \in Seq(S)
  <1>1. PICK t : t = TypeOf[s]
    OBVIOUS
  <1>2. \E c \in DOMAIN Mediators : Mediators[c].type = t
    BY <1>1, RoutingAssumption
  <1>3. PICK c : c = CHOOSE d \in DOMAIN Mediators : Mediators[d].type = t
    OBVIOUS
  <1>4. c \in DOMAIN Mediators
    BY <1>2, <1>3
  <1>5. DefaultPrefix(t) = Mediators[c].prefix
    BY <1>3 DEF DefaultPrefix
  <1>6. Mediators[c].prefix \in Seq({"CSI"})
    <2>1. /\ SvcClass.prefix = <<"CSI">> /\ XivClass.prefix = <<>> /\ Ds8kClass.prefix = <<>>
      BY DEF SvcClass, XivClass, Ds8kClass
    <2>2. <<"CSI">> \in Seq({"CSI"}) /\ <<>> \in Seq({"CSI"})
      BY EmptySeq
    <2>3. Mediators[c] \in {SvcClass, XivClass, Ds8kClass}
      BY <1>4 DEF Mediators
    <2> QED
      BY <2>1, <2>2, <2>3
  <1> QED
    BY <1>1, <1>5, <1>6

\* The name on the array ends like the name in the request.
LEMMA FinalNameIs ==
  ASSUME NEW s \in Systems, NEW class \in Classes \cup SnapshotClasses, NEW id,
         NEW name \in VolumeNames \cup SnapshotNames, name # <<>>
  PROVE  Last(FinalName(Prefix(class, id, TypeOf[s]), name, TypeOf[s])) = Last(name)
  <1>1. PICK t : t = TypeOf[s]
    OBVIOUS
  <1>2. PICK d : d = Get(class.by, id, <<>>)
    OBVIOUS
  <1>3. PICK p : p = Parameter(class, id, "prefix", <<>>)
    OBVIOUS
  <1>4. \E S : p \in Seq(S)
    <2>1. CASE "prefix" \in DOMAIN d
      <3>1. p = d["prefix"]
        BY <1>2, <1>3, <2>1 DEF Parameter, Get
      <3>2. d \in {class.by[i] : i \in DOMAIN class.by}
        BY <1>2, <2>1 DEF Get
      <3> QED
        BY <2>1, <3>1, <3>2, NamesAssumption
    <2>2. CASE "prefix" \notin DOMAIN d
      <3>1. p = Get(class.default, "prefix", <<>>)
        BY <1>2, <1>3, <2>2 DEF Parameter, Get
      <3> QED
        BY <3>1, NamesAssumption DEF Get
    <2> QED
      BY <2>1, <2>2
  <1>5. PICK f : f = Prefix(class, id, t)
    OBVIOUS
  <1>6. f = IF p = <<>> THEN DefaultPrefix(t) ELSE p
    BY <1>3, <1>5 DEF Prefix
  <1>7. PICK S : f \in Seq(S)
    BY <1>1, <1>4, <1>6, DefaultPrefixIs
  <1>8. PICK T : name \in Seq(T)
    BY NamesAssumption
  <1>9. PICK h : h = Hashed(name)
    OBVIOUS
  <1>10. h \in Seq(T \cup {"#"}) /\ h # <<>> /\ Last(h) = Last(name)
    <2>1. name \in Seq(T \cup {"#"})
      BY <1>8, SeqMonotonic
    <2>2. <<"#">> \in Seq(T \cup {"#"}) /\ Len(<<"#">>) = 1
      OBVIOUS
    <2>3. h = <<"#">> \o name
      BY <1>9 DEF Hashed
    <2>4. Len(name) \in Nat
      BY <1>8, LenProperties
    <2>5. h \in Seq(T \cup {"#"}) /\ Len(h) = 1 + Len(name)
      BY <2>1, <2>2, <2>3, ConcatProperties
    <2>6. h # <<>>
      BY <2>4, <2>5
    <2>7. Last(h) = Last(name)
      <3>1. PICK g : g = <<"#">>
        OBVIOUS
      <3>2. g \in Seq(T \cup {"#"}) /\ h = g \o name
        BY <2>2, <2>3, <3>1
      <3> QED
        BY <2>1, <3>2, LastOfConcat
    <2> QED
      BY <2>5, <2>6, <2>7
  <1>11. Last(f \o name) = Last(name)
    BY <1>7, <1>8, LastOfConcat
  <1>12. Last(f \o h) = Last(name)
    BY <1>7, <1>10, LastOfConcat
  <1>13. FinalName(f, name, t) \in {f \o name, f \o h}
    BY <1>9 DEF FinalName
  <1> QED
    BY <1>1, <1>5, <1>11, <1>12, <1>13

-----------------------------------------------------------------------------
(***************************************************************************)
(* How a call ends.                                                        *)
(***************************************************************************)

\* The checks of CreateVolume: passed, they give a system and its id; what they
\* refuse is explained.
LEMMA CreateVolumeCheckIs ==
  ASSUME IInv, NEW req, req.rpc = "CreateVolume",
         NEW to, to = SystemFor(secret, req.place, NoId),
         NEW c, c = CreateVolumeCheck(req, to)
  PROVE  /\ c = "OK" =>  /\ req.sound /\ to.system \in Systems
                         /\ secret.config = <<>> => to.system = secret.conn /\ to.id = NoId
                         /\ secret.config # <<>> => \E e \in ToSet(secret.config) :
                               e.conn = to.system /\ e.id = to.id /\ e.id = <<e.id[1]>>
         /\ c # "OK" => Explained(req, c)
  <1>1. secret \in Secrets
    BY DEF IInv, Base, Typed
  <1>2. PICK st : st = CreateVolumeStatus(to.ex)
    OBVIOUS
  <1>3. /\ to.ex = "ValidationException" => st = "INVALID_ARGUMENT"
        /\ to.ex \in {"none", "TypeError", "ValidationException"}
    BY <1>1, <1>2, SystemForIs DEF CreateVolumeStatus, CommonStatus, InvalidArgumentErrors
  <1>4. PICK bad \in BOOLEAN : bad = (\/ BadJson(req.class, to.id) \/ Parameter(req.class, to.id, "pool", "") = ""
                                      \/ PrefixTooLong(req.class, to.id, TypeOf[to.system]))
    OBVIOUS
  <1>5. c = IF ~req.sound \/ ~ValidSecret(secret) \/ ~ValidClass(req.class) THEN "INVALID_ARGUMENT"
            ELSE IF Len(req.id) = 1 THEN "NOT_FOUND"
            ELSE IF req.id # NoId /\ ~LegalId(req.id) THEN "INTERNAL"
            ELSE IF to.ex # "none" THEN st
            ELSE IF bad THEN "INVALID_ARGUMENT" ELSE "OK"
    BY <1>2, <1>4 DEF CreateVolumeCheck
  <1>6. ValidSecret(secret) => to.ex # "TypeError"
    <2>1. CASE secret.config = <<>>
      BY <1>1, <2>1, SystemForIs
    <2>2. CASE secret.config # <<>>
      BY <1>1, <2>2, SystemForIs DEF ValidSecret, ValidEntry
    <2> QED
      BY <2>1, <2>2
  <1>7. CASE c = "OK"
    <2>1. req.sound /\ ValidSecret(secret) /\ to.ex = "none"
      BY <1>3, <1>5, <1>6, <1>7
    <2>2. CASE secret.config = <<>>
      BY <1>1, <1>7, <2>1, <2>2, SystemForIs, SecretsAssumption DEF ValidSecret
    <2>3. CASE secret.config # <<>>
      <3>1. PICK e \in ToSet(secret.config) : to.system = e.conn /\ to.id = e.id
        BY <1>1, <2>1, <2>3, SystemForIs
      <3>2. e.conn # NoSystem /\ e.id \in LegalSystemIds
        BY <2>1, <2>3 DEF ValidSecret, ValidEntry
      <3>3. e.conn \in Systems
        BY <1>1, <3>2, SecretsAssumption
      <3>4. e.id = <<e.id[1]>>
        BY <3>2, RoutingAssumption
      <3> QED
        BY <1>7, <2>1, <2>3, <3>1, <3>3, <3>4
    <2> QED
      BY <2>2, <2>3
  <1>8. CASE c # "OK"
    <2>1. c = "INTERNAL" => ~LegalId(req.id)
      BY <1>3, <1>5, <1>6, <1>8
    <2> QED
      BY <1>8, <2>1 DEF Explained
  <1> QED
    BY <1>7, <1>8

\* What a call leaves alone.
LEMMA CallIs ==
  ASSUME Base, Call
  PROVE  /\ secret' = secret /\ edits' = edits /\ edits \in 0..MaxEdits /\ calls' \in 0..MaxCalls
         /\ secret \in Secrets
  BY RoutingAssumption DEF Base, Typed, Call

\* What is left alone stays as the invariant says, and so it does if objects are deleted.
LEMMA KeepBase ==
  ASSUME Base, held' \subseteq held, made' = made, issued' = issued, secret' = secret,
         calls' \in 0..MaxCalls, edits' \in 0..MaxEdits
  PROVE  Base'
  <1>1. Typed'
    BY DEF Base, Typed, Made
  <1>2. SameVolumeSameName'
    BY DEF Base, SameVolumeSameName
  <1>3. \A i \in issued : Leads(i)' /\ Asked(i)' /\ NamedAs(i)'
    BY DEF Base, Leads, Asked, NamedAs
  <1> QED
    BY <1>1, <1>2, <1>3 DEF Base

\* A call that fails with an explained status.
LEMMA FailStep ==
  ASSUME IInv, Call, NEW req, NEW st, Fail(req, st), Explained(req, st)
  PROVE  IInv'
  <1>1. held' = held /\ made' = made /\ issued' = issued /\ secret' = secret
    BY DEF Fail, Call
  <1>2. Base'
    BY <1>1, CallIs, KeepBase DEF IInv
  <1>3. PICK l : l = [req |-> req, status |-> st, id |-> NoId, uid |-> NoUid]
    OBVIOUS
  <1>4. last' = l /\ l.req = req /\ l.status = st /\ l.uid = NoUid
    BY <1>3 DEF Fail, Answer
  <1>5. Meant' = {i \in issued : i.id = req.id}
    BY <1>1, <1>4 DEF Meant
  <1>6. ActsOnOwn'
    BY <1>4 DEF ActsOnOwn
  <1>7. DeletedWhenOk'
    BY <1>1, <1>4, <1>5 DEF DeletedWhenOk, Explained
  <1>8. KnownServed'
    BY <1>1, <1>4, <1>5 DEF KnownServed, Explained
  <1>9. InternalExplained'
    <2>1. Objects(req)' = Objects(req)
      BY <1>1 DEF Objects, Lookup, Target
    <2> QED
      BY <1>1, <1>4, <2>1 DEF InternalExplained, Explained
  <1> QED
    BY <1>2, <1>6, <1>7, <1>8, <1>9 DEF IInv

\* The objects of an answered id: the one that was answered, if it is there.
LEMMA ObjectsAre ==
  ASSUME IInv, NEW req, req.rpc \in IdRpcs, ByIdCheck(req) = "go",
         NEW i \in issued, i.id = req.id, NEW o \in held
  PROVE  o \in Objects(req) <=> o.uid = i.uid
  <1>1. PICK s, u : s = Target(req).system /\ u = Uid(req.id)
    OBVIOUS
  <1>2. s = i.uid[1] /\ u = i.uid
    BY <1>1, ByIdCheckIs
  <1>3. o.kind \in Kinds
    BY DEF IInv, Base, Typed
  <1>4. o \in Objects(req) <=> SameObject(s, u, o)
    BY <1>1, <1>3 DEF Objects, Lookup, Kinds
  <1>5. SameObject(i.uid[1], i.uid, o) <=> o.uid = i.uid
    BY SameIs
  <1> QED
    BY <1>2, <1>4, <1>5

\* A call about an id that has used its object.
LEMMA UseStep ==
  ASSUME IInv, Call, NEW req, req.rpc \in {"Expand", "Publish", "Unpublish"}, ByIdCheck(req) = "go",
         NEW o \in Objects(req), Answer(req, "OK", NoId, o.uid), held' = held, made' = made, issued' = issued
  PROVE  IInv'
  <1>1. o \in held
    BY DEF Objects, Lookup
  <1>2. Base'
    BY CallIs, KeepBase DEF IInv
  <1>3. PICK l : l = [req |-> req, status |-> "OK", id |-> NoId, uid |-> o.uid]
    OBVIOUS
  <1>4. last' = l /\ l.req = req /\ l.status = "OK" /\ l.uid = o.uid
    BY <1>3 DEF Answer
  <1>5. Meant' = {i \in issued : i.id = req.id}
    BY <1>4 DEF Meant
  <1>6. \A i \in issued : i.id = req.id => o.uid = i.uid
    BY <1>1, ObjectsAre DEF IdRpcs
  <1>7. ActsOnOwn'
    BY <1>4, <1>5, <1>6 DEF ActsOnOwn
  <1>8. DeletedWhenOk' /\ KnownServed' /\ InternalExplained'
    BY <1>4 DEF DeletedWhenOk, KnownServed, InternalExplained
  <1> QED
    BY <1>2, <1>7, <1>8 DEF IInv

\* A call that has deleted its object.
LEMMA DeleteStep ==
  ASSUME IInv, Call, NEW req, req.rpc \in {"DeleteVolume", "DeleteSnapshot"}, ByIdCheck(req) = "go",
         NEW o \in Objects(req), Answer(req, "OK", NoId, o.uid), held' = held \ {o}, made' = made,
         issued' = issued
  PROVE  IInv'
  <1>1. o \in held
    BY DEF Objects, Lookup
  <1>2. Base'
    BY CallIs, KeepBase DEF IInv
  <1>3. PICK l : l = [req |-> req, status |-> "OK", id |-> NoId, uid |-> o.uid]
    OBVIOUS
  <1>4. last' = l /\ l.req = req /\ l.status = "OK" /\ l.uid = o.uid
    BY <1>3 DEF Answer
  <1>5. Meant' = {i \in issued : i.id = req.id}
    BY <1>4 DEF Meant
  <1>6. \A i \in issued : i.id = req.id => o.uid = i.uid
    BY <1>1, ObjectsAre DEF IdRpcs
  <1>7. ActsOnOwn'
    BY <1>4, <1>5, <1>6 DEF ActsOnOwn
  <1>8. DeletedWhenOk'
    <2>1. \A p \in held \ {o} : p.uid # o.uid
      BY <1>1 DEF IInv, Base, Typed
    <2> QED
      BY <1>4, <1>5, <1>6, <2>1 DEF DeletedWhenOk
  <1>9. KnownServed' /\ InternalExplained'
    BY <1>4 DEF KnownServed, InternalExplained
  <1> QED
    BY <1>2, <1>7, <1>8, <1>9 DEF IInv

\* A new answer.
LEMMA GrowBase ==
  ASSUME Base, NEW x, issued' = issued \cup {x}, secret' = secret, Typed',
         Leads(x), Asked(x), NamedAs(x)', \A i \in issued : NamedAs(i)',
         \A i \in issued : i.uid = x.uid /\ i.kind = x.kind => i.req.name = x.req.name
  PROVE  Base'
  <1>1. \A i \in issued \cup {x} : Leads(i)' /\ Asked(i)' /\ NamedAs(i)'
    BY DEF Base, Leads, Asked
  <1>2. SameVolumeSameName'
    BY DEF Base, SameVolumeSameName
  <1> QED
    BY <1>1, <1>2 DEF Base

\* An answer with an object that is there.
LEMMA ExistingBase ==
  ASSUME Base, Call, NEW o \in held, NEW x, issued' = issued \cup {x}, held' = held, made' = made,
         x.uid = o.uid, x.kind = o.kind, x.secret = secret, Leads(x), Asked(x),
         x.req.name \in NamesOf(o.kind), Last(o.name) = Last(x.req.name), o.name = Title(x)
  PROVE  Base'
  <1>1. Typed'
    BY CallIs DEF Base, Typed, Made
  <1>2. \A i \in issued : NamedAs(i)'
    BY DEF Base, NamedAs
  <1>3. \A p \in held : p.uid = o.uid => p = o
    BY DEF Base, Typed
  <1>4. NamedAs(x)'
    BY <1>3 DEF NamedAs
  <1>5. \A m, n \in NamesOf(o.kind) : Last(m) = Last(n) => m = n
    BY NamesAssumption DEF NamesOf
  <1>6. ASSUME NEW i \in issued, i.uid = x.uid, i.kind = x.kind PROVE i.req.name = x.req.name
    <2>1. i.req.name \in NamesOf(o.kind) /\ Last(o.name) = Last(i.req.name)
      BY <1>6 DEF Base, NamedAs
    <2> QED
      BY <1>5, <2>1
  <1> QED
    BY <1>1, <1>2, <1>4, <1>6, CallIs, GrowBase

\* An answer with an object that was made for it.
LEMMA NewBase ==
  ASSUME Base, Call, NEW s \in Systems, NEW o, Make(s, o), o.uid = <<s, made[s] + 1>>, o.kind \in Kinds,
         NEW x, issued' = issued \cup {x},
         x.uid = o.uid, x.kind = o.kind, x.secret = secret, Leads(x), Asked(x),
         x.req.name \in NamesOf(o.kind), Last(o.name) = Last(x.req.name), o.name = Title(x),
         \A p \in held : p.uid[1] = s => p.name # o.name
  PROVE  Base'
  <1>1. PICK n : n = made[s] + 1
    OBVIOUS
  <1>2. held' = held \cup {o} /\ made' = [made EXCEPT ![s] = n] /\ made \in [Systems -> Nat] /\ n \in Nat \ {0}
    BY <1>1 DEF Make, Base, Typed
  <1>3. made' \in [Systems -> Nat] /\ made'[s] = n /\ \A t \in Systems : made[t] <= made'[t]
    BY <1>1, <1>2
  <1>4. ASSUME NEW u, Made(u) PROVE Made(u)' /\ u # o.uid
    <2>1. u = <<u[1], u[2]>> /\ u[1] \in Systems /\ u[2] \in 1..made[u[1]]
      BY <1>4 DEF Made
    <2>2. u[2] \in 1..made'[u[1]]
      BY <1>2, <1>3, <2>1
    <2>3. u[1] = s => u[2] # n
      BY <1>1, <1>2, <2>1
    <2> QED
      BY <1>1, <2>1, <2>2, <2>3 DEF Made
  <1>5. Made(o.uid)'
    BY <1>1, <1>2, <1>3 DEF Made
  <1>6. Typed'
    <2>1. \A p \in held' : Made(p.uid)' /\ p.kind \in Kinds
      BY <1>2, <1>4, <1>5 DEF Base, Typed
    <2>2. \A p, q \in held' : p.uid = q.uid => p = q
      BY <1>2, <1>4 DEF Base, Typed
    <2>4. \A p, q \in held' : p.uid[1] = q.uid[1] /\ p.name = q.name => p = q
      <3>1. o.uid[1] = s
        OBVIOUS
      <3> QED
        BY <1>2, <3>1 DEF Base, Typed
    <2>3. \A i \in issued' : Made(i.uid)' /\ i.kind \in Kinds /\ i.secret \in Secrets
      BY <1>4, <1>5, CallIs DEF Base, Typed
    <2> QED
      BY <1>3, <2>1, <2>2, <2>3, <2>4, CallIs DEF Typed
  <1>7. \A i \in issued : i.uid # o.uid
    BY <1>4 DEF Base, Typed
  <1>8. \A p \in held : p.uid # o.uid
    BY <1>4 DEF Base, Typed
  <1>9. \A i \in issued : NamedAs(i)'
    BY <1>2, <1>7 DEF Base, NamedAs
  <1>10. NamedAs(x)'
    BY <1>2, <1>8 DEF NamedAs
  <1> QED
    BY <1>6, <1>7, <1>9, <1>10, CallIs, GrowBase

\* What an answer with an object says of the last call.
LEMMA IssueStep ==
  ASSUME Base', NEW o, NEW id, NEW req, Issue(o, id, req), req.rpc \in {"CreateVolume", "CreateSnapshot"},
         req.rpc = "CreateSnapshot" => o \in held' /\ \A i \in issued : i.id = req.id => o.of = i.uid
  PROVE  IInv'
  <1>1. PICK l : l = [req |-> req, status |-> "OK", id |-> id, uid |-> o.uid]
    OBVIOUS
  <1>2. last' = l /\ l.req = req /\ l.status = "OK" /\ l.uid = o.uid
    BY <1>1 DEF Issue, Answer
  <1>3. PICK x : x = [uid |-> o.uid, kind |-> o.kind, id |-> id, req |-> req, secret |-> secret]
    OBVIOUS
  <1>4. issued' = issued \cup {x} /\ x.uid = o.uid
    BY <1>3 DEF Issue
  <1>5. Meant' = {i \in issued \cup {x} : i.id = req.id}
    BY <1>2, <1>4 DEF Meant
  <1>6. ActsOnOwn'
    <2>1. \A i \in Meant' : i.uid = o.uid \/ (req.rpc = "CreateSnapshot" => o \in held' /\ o.of = i.uid)
      BY <1>4, <1>5
    <2> QED
      BY <1>2, <2>1 DEF ActsOnOwn
  <1>7. DeletedWhenOk' /\ KnownServed' /\ InternalExplained'
    BY <1>2 DEF DeletedWhenOk, KnownServed, InternalExplained
  <1> QED
    BY <1>6, <1>7 DEF IInv

-----------------------------------------------------------------------------
(***************************************************************************)
(* The RPCs.                                                               *)
(***************************************************************************)

\* CreateVolume.
LEMMA CreateVolumeStep == ASSUME IInv, CreateVolume PROVE IInv'
  <1>1. PICK name \in VolumeNames, class \in Classes, place \in Places,
             sound \in CreateArguments,
             source \in {NoId} \cup IssuedIds("volume") \cup IssuedIds("snapshot") \cup StrayIds :
          LET req   == [rpc |-> "CreateVolume", id |-> source, name |-> name, class |-> class,
                        place |-> place, sound |-> name # <<>> /\ sound]
              to    == SystemFor(secret, place, NoId)
              check == CreateVolumeCheck(req, to)
              s     == to.system
              of    == IF source = NoId THEN NoUid ELSE Uid(source)
              final == FinalName(Prefix(class, to.id, TypeOf[s]), name, TypeOf[s])
              from  == IF source = NoId THEN {NoUid}
                       ELSE {o.uid : o \in Lookup(s, of, {"volume", "snapshot"})} IN
          /\ Call
          /\ \/ check # "OK" /\ Fail(req, check)
             \/ /\ check = "OK"
                /\ \E o \in Named(s, final) :
                     IF o.of = of /\ o.kind = "volume"
                     THEN Issue(o, VolumeId(o.uid, to.id), req) /\ UNCHANGED <<held, made>>
                     ELSE Fail(req, "ALREADY_EXISTS")
             \/ /\ check = "OK" /\ Named(s, final) = {}
                /\ IF Parameter(class, to.id, "se", "") \notin SupportedSpaceEfficiency(TypeOf[s])
                   THEN Fail(req, "INVALID_ARGUMENT")
                   ELSE IF from = {} THEN Fail(req, "NOT_FOUND")
                   ELSE \E f \in from :
                          LET o == NewObject(s, "volume", final, f) IN
                          Make(s, o) /\ Issue(o, VolumeId(o.uid, to.id), req)
    BY Zenon DEF CreateVolume
  <1>2. PICK req : req = [rpc |-> "CreateVolume", id |-> source, name |-> name, class |-> class,
                          place |-> place, sound |-> name # <<>> /\ sound]
    OBVIOUS
  <1>3. PICK to : to = SystemFor(secret, place, NoId)
    OBVIOUS
  <1>4. PICK s, check : s = to.system /\ check = CreateVolumeCheck(req, to)
    OBVIOUS
  <1>5. PICK final : final = FinalName(Prefix(class, to.id, TypeOf[s]), name, TypeOf[s])
    OBVIOUS
  <1>6. /\ Call
        /\ \/ check # "OK" /\ Fail(req, check)
           \/ check = "OK" /\ \E st \in {"ALREADY_EXISTS", "INVALID_ARGUMENT", "NOT_FOUND"} : Fail(req, st)
           \/ /\ check = "OK"
              /\ \E o \in Named(s, final) : /\ o.kind = "volume"
                                            /\ Issue(o, VolumeId(o.uid, to.id), req)
                                            /\ UNCHANGED <<held, made>>
           \/ /\ check = "OK" /\ Named(s, final) = {}
              /\ \E f : /\ Make(s, NewObject(s, "volume", final, f))
                        /\ Issue(NewObject(s, "volume", final, f),
                                 VolumeId(NewObject(s, "volume", final, f).uid, to.id), req)
    BY <1>1, <1>2, <1>3, <1>4, <1>5, Zenon
  <1>7. /\ req.rpc = "CreateVolume" /\ req.name = name /\ req.place = place /\ req.class = class
        /\ req.sound => name # <<>>
    BY <1>2
  <1>8. /\ check = "OK" => /\ req.sound /\ s \in Systems
                           /\ secret.config = <<>> => s = secret.conn /\ to.id = NoId
                           /\ secret.config # <<>> => \E e \in ToSet(secret.config) :
                                 e.conn = s /\ e.id = to.id /\ e.id = <<e.id[1]>>
        /\ check # "OK" => Explained(req, check)
    BY <1>3, <1>4, <1>7, CreateVolumeCheckIs
  <1>9. \A st \in {"ALREADY_EXISTS", "INVALID_ARGUMENT", "NOT_FOUND"} : Explained(req, st)
    BY <1>7 DEF Explained
  <1>10. ASSUME check = "OK", NEW o, NEW x, o.uid[1] = s, x.kind = "volume", x.uid = o.uid,
                x.id = VolumeId(o.uid, to.id), x.req = req, x.secret = secret
         PROVE  Leads(x) /\ Asked(x) /\ x.req.name \in NamesOf("volume") /\ final = Title(x)
    <2>0. final = Title(x)
      BY <1>3, <1>4, <1>5, <1>7, <1>10 DEF Title
    <2>1. SameSystems(secret, secret)
      BY DEF SameSystems
    <2>2. CASE secret.config = <<>>
      <3>1. x.id = <<TypeOf[x.uid[1]], x.uid>>
        BY <1>8, <1>10, <2>2, VolumeIdIs
      <3> QED
        BY <1>3, <1>4, <1>7, <1>8, <1>10, <2>0, <2>1, <2>2, <3>1 DEF Leads, Asked, NamesOf
    <2>3. CASE secret.config # <<>>
      <3>1. PICK e \in ToSet(secret.config) : e.conn = s /\ e.id = to.id /\ e.id = <<e.id[1]>>
        BY <1>8, <1>10, <2>3
      <3>2. PICK y : y = e.id[1]
        OBVIOUS
      <3>3. to.id = <<y>>
        BY <3>1, <3>2
      <3>4. x.id = <<TypeOf[x.uid[1]], e.id[1], x.uid>>
        BY <1>10, <3>2, <3>3, VolumeIdIs
      <3> QED
        BY <1>3, <1>4, <1>7, <1>8, <1>10, <2>0, <2>1, <2>3, <3>1, <3>4 DEF Leads, Asked, NamesOf
    <2> QED
      BY <2>0, <2>2, <2>3
  <1>11. check = "OK" => Last(final) = Last(name)
    BY <1>5, <1>7, <1>8, FinalNameIs
  <1>12. CASE check # "OK" /\ Fail(req, check)
    BY <1>6, <1>8, <1>12, FailStep
  <1>13. CASE check = "OK" /\ \E st \in {"ALREADY_EXISTS", "INVALID_ARGUMENT", "NOT_FOUND"} : Fail(req, st)
    BY <1>6, <1>9, <1>13, FailStep
  <1>14. ASSUME check = "OK", NEW o \in Named(s, final), o.kind = "volume",
                Issue(o, VolumeId(o.uid, to.id), req), UNCHANGED <<held, made>>
         PROVE  IInv'
    <2>1. o \in held /\ o.uid[1] = s /\ o.name = final
      BY DEF Named
    <2>2. PICK x : x = [uid |-> o.uid, kind |-> o.kind, id |-> VolumeId(o.uid, to.id), req |-> req,
                        secret |-> secret]
      OBVIOUS
    <2>3. /\ x.uid = o.uid /\ x.kind = o.kind /\ x.id = VolumeId(o.uid, to.id) /\ x.req = req
          /\ x.secret = secret /\ issued' = issued \cup {x}
      BY <1>14, <2>2 DEF Issue
    <2>4. Leads(x) /\ Asked(x) /\ x.req.name \in NamesOf(o.kind) /\ o.name = Title(x)
      BY <1>10, <1>14, <2>1, <2>3
    <2>5. Last(o.name) = Last(x.req.name)
      BY <1>7, <1>11, <1>14, <2>1, <2>3
    <2>6. Base'
      BY <1>6, <1>14, <2>1, <2>3, <2>4, <2>5, ExistingBase DEF IInv
    <2> QED
      BY <1>7, <1>14, <2>6, IssueStep
  <1>15. ASSUME check = "OK", Named(s, final) = {}, NEW f, NEW o, o = NewObject(s, "volume", final, f), Make(s, o),
                Issue(o, VolumeId(o.uid, to.id), req)
         PROVE  IInv'
    <2>1. o.uid = <<s, made[s] + 1>> /\ o.kind = "volume" /\ o.name = final
      BY <1>15 DEF NewObject
    <2>2. PICK x : x = [uid |-> o.uid, kind |-> o.kind, id |-> VolumeId(o.uid, to.id), req |-> req,
                        secret |-> secret]
      OBVIOUS
    <2>3. /\ x.uid = o.uid /\ x.kind = o.kind /\ x.id = VolumeId(o.uid, to.id) /\ x.req = req
          /\ x.secret = secret /\ issued' = issued \cup {x}
      BY <1>15, <2>2 DEF Issue
    <2>4. o.uid[1] = s
      BY <2>1
    <2>5. Leads(x) /\ Asked(x) /\ x.req.name \in NamesOf(o.kind) /\ o.name = Title(x)
      BY <1>10, <1>15, <2>1, <2>3, <2>4
    <2>6. Last(o.name) = Last(x.req.name) /\ o.kind \in Kinds /\ s \in Systems
          /\ \A p \in held : p.uid[1] = s => p.name # o.name
      BY <1>7, <1>8, <1>11, <1>15, <2>1, <2>3 DEF Kinds, Named
    <2>7. Base'
      BY <1>6, <1>15, <2>1, <2>3, <2>5, <2>6, NewBase DEF IInv
    <2> QED
      BY <1>7, <1>15, <2>7, IssueStep
  <1> QED
    BY <1>6, <1>12, <1>13, <1>14, <1>15, Zenon

\* CreateSnapshot.
LEMMA CreateSnapshotStep == ASSUME IInv, CreateSnapshot PROVE IInv'
  <1>1. PICK id \in IssuedIds("volume") \cup StrayIds, name \in SnapshotNames, class \in SnapshotClasses :
          LET req   == [NoRequest EXCEPT !.rpc = "CreateSnapshot", !.id = id, !.name = name,
                                         !.class = class, !.sound = name # <<>>]
              check == ByIdCheck(req)
              s     == Target(req).system
              final == FinalName(Prefix(class, SystemId(id), TypeOf[s]), name, TypeOf[s]) IN
          /\ Call
          /\ \/ check # "go" /\ Fail(req, check)
             \/ /\ check = "go"
                /\ BadJson(class, SystemId(id)) \/ PrefixTooLong(class, SystemId(id), TypeOf[s])
                /\ Fail(req, "INVALID_ARGUMENT")
             \/ /\ check = "go"
                /\ ~BadJson(class, SystemId(id)) /\ ~PrefixTooLong(class, SystemId(id), TypeOf[s])
                /\ \/ \E o \in Named(s, final) :
                        IF o.of = Uid(id) /\ o.kind = "snapshot"
                        THEN Issue(o, SnapshotId(o.uid), req) /\ UNCHANGED <<held, made>>
                        ELSE Fail(req, "ALREADY_EXISTS")
                   \/ /\ Named(s, final) = {} /\ Objects(req) = {}
                      /\ Fail(req, IF TypeOf[s] = "A9000" THEN "INTERNAL" ELSE "NOT_FOUND")
                   \/ /\ Named(s, final) = {}
                      /\ \E v \in Objects(req) :
                           LET o == NewObject(s, "snapshot", final, v.uid) IN
                           Make(s, o) /\ Issue(o, SnapshotId(o.uid), req)
    BY Zenon DEF CreateSnapshot
  <1>2. PICK req : req = [NoRequest EXCEPT !.rpc = "CreateSnapshot", !.id = id, !.name = name,
                                           !.class = class, !.sound = name # <<>>]
    OBVIOUS
  <1>3. PICK s, check : s = Target(req).system /\ check = ByIdCheck(req)
    OBVIOUS
  <1>4. PICK final : final = FinalName(Prefix(class, SystemId(id), TypeOf[s]), name, TypeOf[s])
    OBVIOUS
  <1>5. PICK gone : gone = IF TypeOf[s] = "A9000" THEN "INTERNAL" ELSE "NOT_FOUND"
    OBVIOUS
  <1>6. /\ Call
        /\ \/ check # "go" /\ Fail(req, check)
           \/ check = "go" /\ \E st \in {"ALREADY_EXISTS", "INVALID_ARGUMENT"} : Fail(req, st)
           \/ check = "go" /\ Objects(req) = {} /\ Fail(req, gone)
           \/ /\ check = "go"
              /\ \E o \in Named(s, final) : /\ o.of = Uid(id) /\ o.kind = "snapshot"
                                            /\ Issue(o, SnapshotId(o.uid), req)
                                            /\ UNCHANGED <<held, made>>
           \/ /\ check = "go" /\ Named(s, final) = {}
              /\ \E v \in Objects(req) :
                    /\ Make(s, NewObject(s, "snapshot", final, v.uid))
                    /\ Issue(NewObject(s, "snapshot", final, v.uid),
                             SnapshotId(NewObject(s, "snapshot", final, v.uid).uid), req)
    BY <1>1, <1>2, <1>3, <1>4, <1>5, ZenonT(30)
  <1>7. /\ req.rpc = "CreateSnapshot" /\ req.name = name /\ req.id = id /\ req.class = class
        /\ req.sound => name # <<>>
    BY <1>2 DEF NoRequest
  <1>8. PICK r : r = Target(req)
    OBVIOUS
  <1>9. /\ check = "go" => /\ s \in Systems
                           /\ \A i \in issued : i.id = id => s = i.uid[1] /\ Uid(id) = i.uid
        /\ check # "go" => Explained(req, check)
    BY <1>3, <1>7, ByIdCheckIs DEF IdRpcs
  <1>10. check = "go" => name # <<>>
    <2>1. check = "go" => req.sound
      BY <1>3 DEF ByIdCheck
    <2> QED
      BY <1>7, <2>1
  <1>11. /\ \A st \in {"ALREADY_EXISTS", "INVALID_ARGUMENT"} : Explained(req, st)
         /\ Objects(req) = {} => Explained(req, gone)
    BY <1>5, <1>7 DEF Explained
  <1>12. ASSUME check = "go", NEW o, NEW x, o.uid[1] = s, x.kind = "snapshot", x.uid = o.uid,
                x.id = SnapshotId(o.uid), x.req = req, x.secret = secret
         PROVE  Leads(x) /\ Asked(x) /\ x.req.name \in NamesOf("snapshot") /\ final = Title(x)
    <2>1. SameSystems(secret, secret) /\ secret \in Secrets
      BY DEF SameSystems, IInv, Base, Typed
    <2>2. x.id = <<TypeOf[x.uid[1]], x.uid>>
      BY <1>12 DEF SnapshotId
    <2>3. s = SystemFor(secret, NoPlace, SystemId(x.req.id)).system
      BY <1>3, <1>12 DEF Target
    <2>4. secret.config = <<>> => s = secret.conn
      BY <1>3, <2>1, SystemForIs DEF Target
    <2>5. Leads(x)
      BY <1>12, <2>1, <2>2, <2>4 DEF Leads
    <2>6. Asked(x)
      BY <1>7, <1>12, <2>3 DEF Asked
    <2>7. x.req.name \in NamesOf("snapshot")
      BY <1>7, <1>10, <1>12 DEF NamesOf
    <2>8. final = Title(x)
      BY <1>4, <1>7, <1>12, <2>3 DEF Title
    <2> QED
      BY <2>5, <2>6, <2>7, <2>8
  <1>13. check = "go" => Last(final) = Last(name)
    BY <1>4, <1>9, <1>10, FinalNameIs
  <1>14. CASE check # "go" /\ Fail(req, check)
    BY <1>6, <1>9, <1>14, FailStep
  <1>15. CASE check = "go" /\ \E st \in {"ALREADY_EXISTS", "INVALID_ARGUMENT"} : Fail(req, st)
    BY <1>6, <1>11, <1>15, FailStep
  <1>16. CASE check = "go" /\ Objects(req) = {} /\ Fail(req, gone)
    BY <1>6, <1>11, <1>16, FailStep
  <1>17. ASSUME check = "go", NEW o \in Named(s, final), o.of = Uid(id), o.kind = "snapshot",
                Issue(o, SnapshotId(o.uid), req), UNCHANGED <<held, made>>
         PROVE  IInv'
    <2>1. o \in held /\ o.uid[1] = s /\ o.name = final
      BY DEF Named
    <2>2. PICK x : x = [uid |-> o.uid, kind |-> o.kind, id |-> SnapshotId(o.uid), req |-> req,
                        secret |-> secret]
      OBVIOUS
    <2>3. /\ x.uid = o.uid /\ x.kind = o.kind /\ x.id = SnapshotId(o.uid) /\ x.req = req
          /\ x.secret = secret /\ issued' = issued \cup {x}
      BY <1>17, <2>2 DEF Issue
    <2>4. Leads(x) /\ Asked(x) /\ x.req.name \in NamesOf(o.kind) /\ o.name = Title(x)
      BY <1>12, <1>17, <2>1, <2>3
    <2>5. Last(o.name) = Last(x.req.name)
      BY <1>7, <1>13, <1>17, <2>1, <2>3
    <2>6. Base'
      BY <1>6, <1>17, <2>1, <2>3, <2>4, <2>5, ExistingBase DEF IInv
    <2>7. o \in held' /\ \A i \in issued : i.id = req.id => o.of = i.uid
      BY <1>7, <1>9, <1>17, <2>1
    <2> QED
      BY <1>7, <1>17, <2>6, <2>7, IssueStep
  <1>18. ASSUME check = "go", Named(s, final) = {}, NEW v \in Objects(req), NEW o, o = NewObject(s, "snapshot", final, v.uid),
                Make(s, o), Issue(o, SnapshotId(o.uid), req)
         PROVE  IInv'
    <2>1. o.uid = <<s, made[s] + 1>> /\ o.kind = "snapshot" /\ o.name = final /\ o.of = v.uid
      BY <1>18 DEF NewObject
    <2>2. PICK x : x = [uid |-> o.uid, kind |-> o.kind, id |-> SnapshotId(o.uid), req |-> req,
                        secret |-> secret]
      OBVIOUS
    <2>3. /\ x.uid = o.uid /\ x.kind = o.kind /\ x.id = SnapshotId(o.uid) /\ x.req = req
          /\ x.secret = secret /\ issued' = issued \cup {x}
      BY <1>18, <2>2 DEF Issue
    <2>4. o.uid[1] = s
      BY <2>1
    <2>5. Leads(x) /\ Asked(x) /\ x.req.name \in NamesOf(o.kind) /\ o.name = Title(x)
      BY <1>12, <1>18, <2>1, <2>3, <2>4
    <2>6. Last(o.name) = Last(x.req.name) /\ o.kind \in Kinds /\ s \in Systems
          /\ \A p \in held : p.uid[1] = s => p.name # o.name
      BY <1>7, <1>9, <1>13, <1>18, <2>1, <2>3 DEF Kinds, Named
    <2>7. Base'
      BY <1>6, <1>18, <2>1, <2>3, <2>5, <2>6, NewBase DEF IInv
    <2>8. o \in held'
      BY <1>18 DEF Make
    <2>9. v \in held
      BY DEF Objects, Lookup
    <2>10. \A i \in issued : i.id = req.id => o.of = i.uid
      <3>1. req.rpc \in IdRpcs /\ ByIdCheck(req) = "go"
        BY <1>3, <1>7, <1>18 DEF IdRpcs
      <3>2. \A i \in issued : i.id = req.id => v.uid = i.uid
        BY <2>9, <3>1, ObjectsAre
      <3> QED
        BY <2>1, <3>2
    <2> QED
      BY <1>7, <1>18, <2>7, <2>8, <2>10, IssueStep
  <1> QED
    BY <1>6, <1>14, <1>15, <1>16, <1>17, <1>18, Zenon

\* An id without an object is answered as if it had been deleted.
LEMMA GoneIsExplained ==
  ASSUME IInv, NEW req, req.rpc \in IdRpcs \ {"CreateSnapshot"}, ByIdCheck(req) = "go", Objects(req) = {}
  PROVE  Explained(req, Status(req.rpc, "ObjectNotFoundError"))
  <1>1. PICK st : st = Status(req.rpc, "ObjectNotFoundError")
    OBVIOUS
  <1>2. st \in {"OK", "NOT_FOUND"}
    BY <1>1, StatusesAre
  <1>3. \A i \in issued : i.id = req.id => \A o \in held : o.uid # i.uid
    BY ObjectsAre
  <1> QED
    BY <1>1, <1>2, <1>3 DEF Explained

\* DeleteVolume and DeleteSnapshot.
LEMMA DeletionStep ==
  ASSUME IInv, NEW rpc \in {"DeleteVolume", "DeleteSnapshot"}, NEW ids, Delete(rpc, ids)
  PROVE  IInv'
  <1>1. PICK id \in ids \cup StrayIds :
          LET req == [NoRequest EXCEPT !.rpc = rpc, !.id = id] check == ByIdCheck(req) IN
          /\ Call
          /\ \/ check # "go" /\ Fail(req, check)
             \/ check = "go" /\ Objects(req) = {} /\ Fail(req, Status(rpc, "ObjectNotFoundError"))
             \/ /\ check = "go"
                /\ \E o \in Objects(req) :
                     IF \E d \in held : d.kind = "snapshot" /\ d.of = o.uid
                     THEN Fail(req, Status(rpc, "ObjectIsStillInUseError"))
                     ELSE /\ held' = held \ {o}
                          /\ Answer(req, "OK", NoId, o.uid)
                          /\ UNCHANGED <<made, issued>>
    BY Zenon DEF Delete
  <1>2. PICK req : req = [NoRequest EXCEPT !.rpc = rpc, !.id = id]
    OBVIOUS
  <1>3. PICK check : check = ByIdCheck(req)
    OBVIOUS
  <1>4. /\ Call
        /\ \/ check # "go" /\ Fail(req, check)
           \/ check = "go" /\ Objects(req) = {} /\ Fail(req, Status(rpc, "ObjectNotFoundError"))
           \/ check = "go" /\ Fail(req, Status(rpc, "ObjectIsStillInUseError"))
           \/ /\ check = "go"
              /\ \E o \in Objects(req) : /\ held' = held \ {o}
                                         /\ Answer(req, "OK", NoId, o.uid)
                                         /\ UNCHANGED <<made, issued>>
    BY <1>1, <1>2, <1>3, Zenon
  <1>5. req.rpc = rpc /\ rpc \in IdRpcs \ {"CreateSnapshot"}
    BY <1>2 DEF NoRequest, IdRpcs
  <1>6. CASE check # "go" /\ Fail(req, check)
    BY <1>3, <1>4, <1>5, <1>6, ByIdCheckIs, FailStep
  <1>7. CASE check = "go" /\ Objects(req) = {} /\ Fail(req, Status(rpc, "ObjectNotFoundError"))
    BY <1>3, <1>4, <1>5, <1>7, GoneIsExplained, FailStep
  <1>8. CASE check = "go" /\ Fail(req, Status(rpc, "ObjectIsStillInUseError"))
    <2>1. Status(rpc, "ObjectIsStillInUseError") = "FAILED_PRECONDITION"
      BY <1>5, StatusesAre
    <2>2. Explained(req, "FAILED_PRECONDITION")
      BY DEF Explained
    <2> QED
      BY <1>4, <1>8, <2>1, <2>2, FailStep
  <1>9. ASSUME check = "go", NEW o \in Objects(req), held' = held \ {o},
               Answer(req, "OK", NoId, o.uid), UNCHANGED <<made, issued>>
        PROVE  IInv'
    <2>1. made' = made /\ issued' = issued /\ req.rpc \in {"DeleteVolume", "DeleteSnapshot"}
      BY <1>5, <1>9
    <2>2. Call /\ ByIdCheck(req) = "go"
      BY <1>3, <1>4, <1>9
    <2> QED
      BY <1>9, <2>1, <2>2, DeleteStep
  <1> QED
    BY <1>4, <1>6, <1>7, <1>8, <1>9

\* Expansion, publication and its undoing.
LEMMA UsageStep ==
  ASSUME IInv, NEW rpc \in {"Expand", "Publish", "Unpublish"}, NEW sound, Use(rpc, sound)
  PROVE  IInv'
  <1>1. PICK id \in IssuedIds("volume") \cup StrayIds :
          LET req == [NoRequest EXCEPT !.rpc = rpc, !.id = id, !.sound = sound] check == ByIdCheck(req) IN
          /\ Call
          /\ \/ check # "go" /\ Fail(req, check)
             \/ check = "go" /\ Objects(req) = {} /\ Fail(req, Status(rpc, "ObjectNotFoundError"))
             \/ /\ check = "go"
                /\ \E o \in Objects(req) : Answer(req, "OK", NoId, o.uid)
                /\ UNCHANGED <<held, made, issued>>
    BY Zenon DEF Use
  <1>2. PICK req : req = [NoRequest EXCEPT !.rpc = rpc, !.id = id, !.sound = sound]
    OBVIOUS
  <1>3. PICK check : check = ByIdCheck(req)
    OBVIOUS
  <1>4. /\ Call
        /\ \/ check # "go" /\ Fail(req, check)
           \/ check = "go" /\ Objects(req) = {} /\ Fail(req, Status(rpc, "ObjectNotFoundError"))
           \/ /\ check = "go"
              /\ \E o \in Objects(req) : Answer(req, "OK", NoId, o.uid)
              /\ UNCHANGED <<held, made, issued>>
    BY <1>1, <1>2, <1>3, Zenon
  <1>5. req.rpc = rpc /\ rpc \in IdRpcs \ {"CreateSnapshot"}
    BY <1>2 DEF NoRequest, IdRpcs
  <1>6. CASE check # "go" /\ Fail(req, check)
    BY <1>3, <1>4, <1>5, <1>6, ByIdCheckIs, FailStep
  <1>7. CASE check = "go" /\ Objects(req) = {} /\ Fail(req, Status(rpc, "ObjectNotFoundError"))
    BY <1>3, <1>4, <1>5, <1>7, GoneIsExplained, FailStep
  <1>8. ASSUME check = "go", NEW o \in Objects(req), Answer(req, "OK", NoId, o.uid),
               UNCHANGED <<held, made, issued>>
        PROVE  IInv'
    <2>1. /\ held' = held /\ made' = made /\ issued' = issued
          /\ req.rpc \in {"Expand", "Publish", "Unpublish"}
      BY <1>5, <1>8
    <2>2. Call /\ ByIdCheck(req) = "go"
      BY <1>3, <1>4, <1>8
    <2> QED
      BY <1>8, <2>1, <2>2, UseStep
  <1> QED
    BY <1>4, <1>6, <1>7, <1>8

\* The RPCs that are not implemented.
LEMMA UnimplementedStep == ASSUME IInv, Unimplemented PROVE IInv'
  <1>1. PICK rpc \in {"ValidateVolumeCapabilities", "ListVolumes", "GetCapacity"} :
          Call /\ Fail([NoRequest EXCEPT !.rpc = rpc], Status(rpc, "NotImplementedError"))
    BY DEF Unimplemented
  <1>2. PICK req : req = [NoRequest EXCEPT !.rpc = rpc]
    OBVIOUS
  <1>3. Status(rpc, "NotImplementedError") = "UNIMPLEMENTED"
    <2>1. CommonStatus("NotImplementedError") = "UNIMPLEMENTED"
      BY DEF CommonStatus
    <2> QED
      BY <2>1 DEF Status
  <1>4. Explained(req, "UNIMPLEMENTED")
    BY DEF Explained
  <1> QED
    BY <1>1, <1>2, <1>3, <1>4, FailStep

-----------------------------------------------------------------------------
(***************************************************************************)
(* The other steps, and the theorems.                                      *)
(***************************************************************************)

\* Without an answer nothing is asked of it.
LEMMA NoAnswerIs ==
  ASSUME last' = NoAnswer
  PROVE  ActsOnOwn' /\ DeletedWhenOk' /\ KnownServed' /\ InternalExplained'
  <1>1. /\ NoAnswer.uid = NoUid /\ NoAnswer.status = "none" /\ NoAnswer.req.rpc = "none"
    BY DEF NoAnswer, NoRequest
  <1> QED
    BY <1>1 DEF ActsOnOwn, DeletedWhenOk, KnownServed, InternalExplained

\* The administrator's changes keep what the ids stand for.
LEMMA EditSecretStep == ASSUME IInv, EditSecret PROVE IInv'
  <1>1. /\ secret' \in Secrets /\ SameSystems(secret, secret') /\ edits' \in 0..MaxEdits
        /\ held' = held /\ made' = made /\ issued' = issued /\ calls' = calls /\ last' = NoAnswer
    BY RoutingAssumption DEF EditSecret, IInv, Base, Typed
  <1>2. Typed'
    BY <1>1 DEF IInv, Base, Typed, Made
  <1>3. \A i \in issued : Leads(i)'
    BY <1>1 DEF IInv, Base, Leads, SameSystems
  <1>4. \A i \in issued : Asked(i)' /\ NamedAs(i)'
    BY <1>1 DEF IInv, Base, Asked, NamedAs
  <1>5. SameVolumeSameName'
    BY <1>1 DEF IInv, Base, SameVolumeSameName
  <1>6. Base'
    BY <1>1, <1>2, <1>3, <1>4, <1>5 DEF Base
  <1>7. ActsOnOwn' /\ DeletedWhenOk' /\ KnownServed' /\ InternalExplained'
    BY <1>1, NoAnswerIs
  <1> QED
    BY <1>6, <1>7 DEF IInv

\* The orchestrator takes the answer.
LEMMA ReceiveStep == ASSUME IInv, Receive PROVE IInv'
  <1>1. Base'
    BY KeepBase DEF Receive, IInv, Base, Typed
  <1>2. ActsOnOwn' /\ DeletedWhenOk' /\ KnownServed' /\ InternalExplained'
    BY NoAnswerIs DEF Receive
  <1> QED
    BY <1>1, <1>2 DEF IInv

\* The initial states.
LEMMA InitIs == ASSUME Init PROVE IInv
  <1>1. Typed
    BY RoutingAssumption DEF Init, Typed
  <1>2. Base
    BY <1>1 DEF Init, Base, SameVolumeSameName
  <1>3. ActsOnOwn /\ DeletedWhenOk /\ KnownServed /\ InternalExplained
    <2>1. /\ NoAnswer.uid = NoUid /\ NoAnswer.status = "none" /\ NoAnswer.req.rpc = "none"
      BY DEF NoAnswer, NoRequest
    <2> QED
      BY <2>1 DEF Init, ActsOnOwn, DeletedWhenOk, KnownServed, InternalExplained
  <1> QED
    BY <1>2, <1>3 DEF IInv

\* A step that changes nothing.
LEMMA StutterIs == ASSUME IInv, UNCHANGED vars PROVE IInv'
  <1>1. /\ held' = held /\ made' = made /\ issued' = issued /\ secret' = secret /\ last' = last
        /\ calls' = calls /\ edits' = edits
    BY DEF vars
  <1>2. Base'
    BY <1>1, KeepBase DEF IInv, Base, Typed
  <1>3. Meant' = Meant
    BY <1>1 DEF Meant
  <1>4. Objects(last.req)' = Objects(last.req)
    BY <1>1 DEF Objects, Lookup, Target
  <1>5. ActsOnOwn' /\ DeletedWhenOk' /\ KnownServed'
    BY <1>1, <1>3 DEF IInv, ActsOnOwn, DeletedWhenOk, KnownServed
  <1>6. InternalExplained'
    BY <1>1, <1>4 DEF IInv, InternalExplained
  <1> QED
    BY <1>2, <1>5, <1>6 DEF IInv

\* Every step keeps the invariant.
LEMMA NextStep == ASSUME IInv, [Next]_vars PROVE IInv'
  <1>1. CASE CreateVolume
    BY <1>1, CreateVolumeStep
  <1>2. CASE CreateSnapshot
    BY <1>2, CreateSnapshotStep
  <1>3. CASE Delete("DeleteVolume", IssuedIds("volume"))
    <2>1. PICK ids : ids = IssuedIds("volume")
      OBVIOUS
    <2> QED
      BY <1>3, <2>1, DeletionStep
  <1>4. CASE Delete("DeleteSnapshot", IssuedIds("snapshot"))
    <2>1. PICK ids : ids = IssuedIds("snapshot")
      OBVIOUS
    <2> QED
      BY <1>4, <2>1, DeletionStep
  <1>5. CASE Expand \/ Publish \/ Unpublish
    <2>1. CASE Expand
      BY <2>1, UsageStep DEF Expand
    <2>2. CASE Publish
      BY <2>2, UsageStep DEF Publish
    <2>3. CASE Unpublish
      BY <2>3, UsageStep DEF Unpublish
    <2> QED
      BY <1>5, <2>1, <2>2, <2>3
  <1>6. CASE Unimplemented
    BY <1>6, UnimplementedStep
  <1>7. CASE Receive
    BY <1>7, ReceiveStep
  <1>8. CASE EditSecret
    BY <1>8, EditSecretStep
  <1>9. CASE UNCHANGED vars
    BY <1>9, StutterIs
  <1> QED
    BY <1>1, <1>2, <1>3, <1>4, <1>5, <1>6, <1>7, <1>8, <1>9 DEF Next

\* The invariant always holds.
THEOREM RoutingInvariant == Spec => []IInv
  BY InitIs, NextStep, PTL DEF Spec

\* For all systems, secrets, ids and edits of the secret: a call about an id that
\* the driver has answered works on the object it was answered with, or on none.
THEOREM CallsActOnOwn == Spec => []ActsOnOwn
  <1>1. IInv => ActsOnOwn
    BY DEF IInv
  <1> QED
    BY <1>1, RoutingInvariant, PTL

\* OK to DeleteVolume and DeleteSnapshot always means that the object is gone.
THEOREM DeletionsAreTrue == Spec => []DeletedWhenOk
  <1>1. IInv => DeletedWhenOk
    BY DEF IInv
  <1> QED
    BY <1>1, RoutingInvariant, PTL

\* Requests that were answered with one object have asked for one name, whatever
\* prefixes, classes and lengths there are: names do not meet.
THEOREM NamesDoNotMeet == Spec => []SameVolumeSameName
  <1>1. IInv => SameVolumeSameName
    BY DEF IInv, Base
  <1> QED
    BY <1>1, RoutingInvariant, PTL

\* An id that was answered is understood again as long as the secret lists its
\* system, a repeated request is answered with the object it was answered with before,
\* and INTERNAL is explained.
THEOREM RequestsAreServed == Spec => []RequestsServed
  <1>1. ASSUME IInv PROVE RequestsServed
    <2>1. \A i \in issued : LegalId(i.id)
      <3> SUFFICES ASSUME NEW i \in issued PROVE LegalId(i.id)
        OBVIOUS
      <3>1. PICK r : r = SystemFor(secret, NoPlace, SystemId(i.id))
        OBVIOUS
      <3> QED
        BY <1>1, <3>1, RouteIs
    <2>2. TypeOK
      BY <1>1, <2>1 DEF IInv, Base, Typed, Made, TypeOK, Kinds
    <2>3. SameRequestSameVolume
      <3>0. SUFFICES ASSUME NEW i \in issued, NEW j \in issued, i.req = j.req, i.secret = j.secret,
                            {i.uid, j.uid} \subseteq {o.uid : o \in held}
                     PROVE  i.uid = j.uid
        BY Zenon DEF SameRequestSameVolume
      <3> PICK o \in held : o.uid = i.uid
        BY <3>0
      <3> PICK p \in held : p.uid = j.uid
        BY <3>0
      <3>1. Asked(i) /\ Asked(j) /\ NamedAs(i) /\ NamedAs(j) /\ i.kind \in Kinds /\ j.kind \in Kinds
        BY <1>1 DEF IInv, Base, Typed
      <3>2. i.kind = j.kind /\ i.uid[1] = j.uid[1]
        BY <3>0, <3>1 DEF Asked, Kinds
      <3>3. Title(i) = Title(j)
        BY <3>0, <3>2 DEF Title
      <3>4. o.name = p.name /\ o.uid[1] = p.uid[1]
        BY <3>1, <3>2, <3>3 DEF NamedAs
      <3>5. o = p
        BY <1>1, <3>4 DEF IInv, Base, Typed
      <3> QED
        BY <3>5
    <2> QED
      BY <1>1, <2>2, <2>3 DEF IInv, RequestsServed
  <1> QED
    BY <1>1, RoutingInvariant, PTL

=============================================================================
