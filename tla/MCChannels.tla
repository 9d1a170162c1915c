----------------------------- MODULE MCChannels -----------------------------
(* An instance of Channels for TLC: a throttled sequential channel "s" below  *)
(* the root, as the configuration "root:1, s:1:sequential:throttle=1" makes   *)
(* them, and the channels of jobs named "s", "s" and nothing.                 *)
EXTENDS Channels, ChannelNames, ChannelQueues

Entry(name, sequential) ==
    [name |-> name, limits |-> [capacity |-> 1, sequential |-> sequential]]
Tree == simple_configure(<<Entry(<<"root">>, FALSE), Entry(<<"s">>, TRUE)>>)
S == FullName(<<"s">>)

MCChannelSet == DOMAIN Tree
MCRoot == RootName
MCUp == [c \in MCChannelSet |-> {d \in MCChannelSet : \E k \in 1..Len(c) : d = SubSeq(c, 1, k)}]
MCVisits == <<S, RootName>>
MCChannelOf == [j \in Jobs |-> get_channel_by_name(Tree, IF j = 3 THEN <<>> ELSE <<"s">>)]
MCCapacity == [c \in MCChannelSet |-> Tree[c].capacity]
MCSequential == {c \in MCChannelSet : Tree[c].sequential}
MCThrottle == [c \in MCChannelSet |-> IF c = S THEN 1 ELSE 0]
MCDependsOn == [j \in Jobs |-> IF j = 3 THEN {1} ELSE {}]
=============================================================================
