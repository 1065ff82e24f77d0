----------------------------- MODULE HostLookup -----------------------------
(***************************************************************************)
(* get_host_by_host_identifiers: from the node id of a request to the host *)
(* of the array that has the node's ports, for the three mediators.  A     *)
(* port is a pair of its name and the case it is written in.               *)
(***************************************************************************)
EXTENDS Integers, SequencesExt

\* The empty string, as a port.
Blank == <<"", "">>

Lower(port) == port[1]

\* Mutated form of IsMatch: the array's ports are compared as they are written.
IsMatchExact(own, ports) == \E p \in own : <<Lower(p), "lower">> \in ports

\* Initiators: ports are compared in lower case.
IsMatch(own, ports) == \E p \in own, q \in ports : Lower(p) = Lower(q)

\* get_node_id_info and NodeIdInfo: an id is split into the name, the fc wwns
\* and the iqn, which may be missing; splitting no wwns gives one blank wwn.
LegalNodeId(id) == Len(id) \in {2, 3}
FcWwns(id)      == IF id[2] = {} THEN {Blank} ELSE id[2]
Iqn(id)         == IF Len(id) = 3 THEN id[3] ELSE Blank

-----------------------------------------------------------------------------
(***************************************************************************)
(* SVCListResultsReader, over lines that are <<param, value>>, or <<>> if  *)
(* blank: a line with param "id" starts an object.                         *)
(***************************************************************************)
Text(lines) == SelectSeq(lines, LAMBDA l : l # <<>>)
IdLines(ls) == {i \in DOMAIN ls : ls[i][1] = "id"}

\* Where the first object starts: an id without a value is passed over, any
\* other line before it is an InvalidCliResponseError.
FirstObject(ls) == {i \in IdLines(ls) : ls[i][2] # "" /\ \A j \in 1..(i - 1) : ls[j] = <<"id", "">>}
InvalidStart(ls) == \E i \in DOMAIN ls : ls[i][1] # "id" /\ \A j \in 1..(i - 1) : ls[j] = <<"id", "">>

\* The later objects; an id without a value ends the iteration.
ObjectStarts(ls) ==
    {i \in IdLines(ls) : \E f \in FirstObject(ls) :
        f <= i /\ \A j \in IdLines(ls) \cap (f..i) : ls[j][2] # ""}

\* SVCListResultsElement.get_as_list: the values of a param in the object at i.
GetAsList(ls, i, param) ==
    {ls[k][2] : k \in {m \in (i + 1)..Len(ls) :
                          ls[m][1] = param /\ (i + 1)..m \cap IdLines(ls) = {}}}

\* The output of the batch of lshost commands, with a blank line after each.
\* A host that was removed since it was listed has no lines.
HostLines(h) ==
    <<<<"id", h.name>>, <<"name", h.name>>>>
      \o SetToSeq({<<"WWPN", w>> : w \in h.wwns}) \o SetToSeq({<<"iscsi_name", q>> : q \in h.iqns})
      \o <<<<>>>>
BatchOutput(hosts) == FlattenSeq([i \in DOMAIN hosts |-> HostLines(hosts[i])])

\* _get_detailed_hosts_list.
DetailedHosts(lines) ==
    LET ls == Text(lines)
        starts == SetToSortSeq(ObjectStarts(ls), <)
    IN [n \in DOMAIN starts |->
            [name |-> CHOOSE h \in GetAsList(ls, starts[n], "name") : TRUE,
             wwns |-> GetAsList(ls, starts[n], "WWPN"),
             iqns |-> GetAsList(ls, starts[n], "iscsi_name")]]

-----------------------------------------------------------------------------
Found(host, types) == [ex |-> "none", host |-> host, types |-> types]
NotFound(ex)       == [ex |-> ex, host |-> "none", types |-> {}]

ByFc(hosts, id)    == {i \in DOMAIN hosts : IsMatch(FcWwns(id), hosts[i].wwns)}
ByIscsi(hosts, id) == {i \in DOMAIN hosts : IsMatch({Iqn(id)}, hosts[i].iqns)}

\* The last host that matches counts, for each kind of port.
SvcHost(listed, id) ==
    LET hosts == DetailedHosts(BatchOutput(listed))
        fc    == ByFc(hosts, id)
        iscsi == ByIscsi(hosts, id)
    IN CASE InvalidStart(Text(BatchOutput(listed))) -> NotFound("InvalidCliResponseError")
         [] fc = {} /\ iscsi = {} -> NotFound("HostNotFoundError")
         [] fc = {} /\ iscsi # {} -> Found(hosts[Max(iscsi)].name, {"iscsi"})
         [] fc # {} /\ iscsi = {} -> Found(hosts[Max(fc)].name, {"fc"})
         [] fc # {} /\ iscsi # {} ->
               IF hosts[Max(fc)].name = hosts[Max(iscsi)].name
                 THEN Found(hosts[Max(fc)].name, {"fc", "iscsi"})
                 ELSE NotFound("MultipleHostsFoundError")

\* Every host that matches counts.
XivHost(hosts, id) ==
    LET all == ByFc(hosts, id) \cup ByIscsi(hosts, id) IN
    CASE all = {} -> NotFound("HostNotFoundError")
      [] Cardinality(all) = 1 ->
            Found(hosts[Max(all)].name,
                  (IF ByFc(hosts, id) # {} THEN {"fc"} ELSE {})
                    \cup (IF ByIscsi(hosts, id) # {} THEN {"iscsi"} ELSE {}))
      [] OTHER -> NotFound("MultipleHostsFoundError")

\* The first host that matches counts, and only wwpns do.
Ds8kHost(hosts, id) ==
    IF ByFc(hosts, id) = {} THEN NotFound("HostNotFoundError")
                            ELSE Found(hosts[Min(ByFc(hosts, id))].name, {"fc"})

\* NodeIdInfo, then the mediator's get_host_by_host_identifiers.
GetHost(array, hosts, id) ==
    IF ~LegalNodeId(id) THEN NotFound("HostNotFoundError")
    ELSE CASE array = "svc"  -> SvcHost(hosts, id)
           [] array = "xiv"  -> XivHost(hosts, id)
           [] array = "ds8k" -> Ds8kHost(hosts, id)

\* choose_connectivity_type prefers FC; both callers have at least one type.
ChooseConnectivityType(types) == IF "fc" \in types THEN "fc" ELSE "iscsi"
=============================================================================
