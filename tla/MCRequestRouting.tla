-------------------------- MODULE MCRequestRouting --------------------------
EXTENDS RequestRouting

\* Secrets: for one system, without an address, and with a config: both systems,
\* the other order, one system dropped, an illegal id, no topologies, not JSON.
Plain(s)     == [conn |-> s, config |-> <<>>, json |-> TRUE]
Config(c)    == [conn |-> NoSystem, config |-> c, json |-> TRUE]
Entry(i, s, p) == [id |-> i, conn |-> s, places |-> p]

MCSystems == {"s1", "s2", "s3", "s4"}
E1 == Entry(<<"one">>, "s1", {{"east"}})
E2 == Entry(<<"two">>, "s2", {{"east"}, {"west"}})
MCSecrets ==
    {Plain("s3"), Plain("s4"), Plain(NoSystem), Config(<<E1, E2>>), Config(<<E2, E1>>), Config(<<E1>>),
     Config(<<Entry(<<"o", "ne">>, "s1", {{"east"}})>>), Config(<<E1, Entry(<<"two">>, "s2", {})>>),
     [Config(<<E1, E2>>) EXCEPT !.json = FALSE]}
MCSourceSecrets == {Config(<<E1, Entry(<<"two">>, "s2", {{"west"}})>>)}
MCLegalSystemIds == {<<"one">>, <<"two">>}

Class(default, by) == [default |-> default, by |-> by, json |-> TRUE]
MCClasses ==
    {Class([pool |-> "p", prefix |-> <<"x", "y">>, se |-> "thin"], <<>>),
     Class([prefix |-> <<"x">>], [i \in {<<"one">>} |-> [pool |-> "q"]]),
     Class([pool |-> "", se |-> "none"], <<>>),
     [Class([pool |-> "p", prefix |-> <<"x", "y", "z">>], [i \in {<<"two">>} |-> [pool |-> "q"]]) EXCEPT !.json = FALSE]}
MCSourceClasses == {Class([pool |-> "p"], <<>>)}
MCSnapshotClasses == {NoClass, Class([prefix |-> <<"x", "y", "z">>], <<>>)}

MCCapabilities ==
    {[access |-> "mount", fs |-> "xfs", mode |-> "SINGLE_NODE_WRITER"],
     [access |-> "mount", fs |-> "ntfs", mode |-> "SINGLE_NODE_WRITER"],
     [access |-> "block", fs |-> "", mode |-> "MULTI_NODE"]}
MCSourceCapabilities == {[access |-> "block", fs |-> "", mode |-> "SINGLE_NODE_WRITER"]}

MCVolumeNames == {<<>>, <<"v1">>, <<"v2">>}
MCSourceVolumeNames == {<<"v1">>, <<"v2">>}
MCSnapshotNames == {<<>>, <<"n1">>}
MCPlaces == {NoPlace, {"east"}, {"west", "rack"}}
MCSourcePlaces == {{"east"}, {"west"}}
MCStrayIds == {<<"SVC">>, <<"SVC", <<"s1", 9>>>>, <<"SVC", "a", "b", "c">>, <<"SVC", "gone", <<"s1", 1>>>>}
NoStrayIds == {}
MCSizes == {-1, 0}

MCTypeOf == [s1 |-> "DS8K", s2 |-> "DS8K", s3 |-> "A9000", s4 |-> "SVC"]
MCMaxNameLength   == [SVC |-> 2, A9000 |-> 2, DS8K |-> 2]
MCMaxPrefixLength == [SVC |-> 2, A9000 |-> 2, DS8K |-> 2]
=============================================================================
