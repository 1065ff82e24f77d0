--------------------------- MODULE MCVolumeMapping ---------------------------
(* Instances of VolumeMapping for TLC.  The two wwns of n1 belong to two     *)
(* hosts, of which one is not defined at first; n2 has a wwn on one host and *)
(* its iqn on another; the id of n3 has too many parts.  The array writes    *)
(* ports in upper case.  The LUN ids of the DS8K are the examples of         *)
(* scsilun_to_int.                                                           *)
EXTENDS VolumeMapping

MCPort(name, case) == <<name, case>>

MCNodeId ==
    [n \in {"n1", "n2", "n3"} |->
        CASE n = "n1" -> <<"n1", {MCPort("wwn1", "lower"), MCPort("wwn2", "lower")}>>
          [] n = "n2" -> <<"n2", {MCPort("wwn3", "lower")}, MCPort("iqn1", "lower")>>
          [] n = "n3" -> <<"n3", {}, MCPort("iqn2", "lower"), {}>>]

MCListing ==
    <<[name |-> "h1", wwns |-> {MCPort("wwn1", "upper")}, iqns |-> {}],
      [name |-> "h2", wwns |-> {MCPort("wwn2", "upper")}, iqns |-> {}],
      [name |-> "h3", wwns |-> {MCPort("wwn3", "upper")}, iqns |-> {}],
      [name |-> "h4", wwns |-> {}, iqns |-> {MCPort("iqn1", "upper")}]>>

\* '0c' is 12, '40294018' is 1075331113.
MCDs8kLuns == {12, 1076445208}
MCHostLun == [l \in MCDs8kLuns |-> IF l = 12 THEN 12 ELSE 1075331113]

\* On an SVC two lost races leave a LUN free; an XIV may be full.
MCNumLuns == [a \in {"svc", "xiv", "ds8k"} |-> IF a = "svc" THEN 3 ELSE 2]

Symmetry == Permutations(Threads) \cup Permutations(Volumes)
=============================================================================
