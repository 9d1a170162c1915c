----------------------------- MODULE ChannelNames -----------------------------
(***************************************************************************)
(* channels.py: the names of channels.  A configuration names some of      *)
(* them; jobs name others, for which a channel is found or made the first  *)
(* time the manager hears of them.  Functions only, and checks of them.    *)
(*                                                                         *)
(* A name is the sequence of its segments, with the root's or without.     *)
(* The manager is its tree: the full names it knows, each with its limits. *)
(***************************************************************************)
EXTENDS Integers, Sequences

RootName == <<"root">>
FullName(name) ==
    IF name = <<>> \/ Head(name) # "root" THEN RootName \o name ELSE name

NoLimits == [capacity |-> 0, sequential |-> FALSE]
NewManager == [n \in {RootName} |-> [capacity |-> 1, sequential |-> FALSE]]

\* A channel and those it is in, up to the root.
Lineage(full) == {SubSeq(full, 1, l) : l \in 1..Len(full)}

\* A channel comes with those between it and the root, which have no limits.
Grown(tree, full) ==
    [n \in DOMAIN tree \cup Lineage(full) |->
       IF n \in DOMAIN tree THEN tree[n] ELSE NoLimits]

get_channel_from_config(tree, config) ==
    [Grown(tree, FullName(config.name)) EXCEPT ![FullName(config.name)] = config.limits]

\* An entry "name:capacity:sequential" of the configuration; without a capacity it is 1.
\* A malformed entry is an error: there is no manager then.
Absent == -1
Parsed(entry) == [entry EXCEPT !.limits.capacity = IF @ = Absent THEN 1 ELSE @]

simple_configure(entries) ==
    LET tree[n \in 0..Len(entries)] ==
          IF n = 0 THEN NewManager
          ELSE get_channel_from_config(tree[n - 1], Parsed(entries[n]))
    IN  tree[Len(entries)]

\* The nearest channel above a name that the manager knows.
Fallback(tree, full) ==
    LET above == (Lineage(full) \ {full}) \cap DOMAIN tree
    IN  CHOOSE p \in above : above \subseteq Lineage(p)

\* The channel of a job.  One that is not known is made below the nearest that is,
\* under its whole name: root.sub.new becomes root.sub.sub.new.
get_channel_by_name(tree, name) ==
    LET full == FullName(name)
    IN  IF full \in DOMAIN tree THEN full ELSE Fallback(tree, full) \o Tail(full)

\* What the manager knows after it heard of the job, and of several jobs.
Heard(tree, name) == Grown(tree, get_channel_by_name(tree, name))

-----------------------------------------------------------------------------
(* Checks, over all configurations of up to two channels and all pairs of  *)
(* names that jobs may have.                                               *)

Names(depth) == UNION {[1..k -> {"a", "b"}] : k \in 0..depth}
Limits == {[capacity |-> Absent, sequential |-> TRUE], [capacity |-> 2, sequential |-> FALSE]}
Entries == [name : Names(2), limits : Limits]
Configurations == UNION {[1..k -> Entries] : k \in 0..2}
Trees == {simple_configure(c) : c \in Configurations}

\* "The parent channels are auto created with an infinite capacity": whatever the order
\* in which a channel and its parents are configured, the last configuration of each holds,
\* and what is not configured has no limit, the root aside.
ConfiguredAsWritten ==
    \A c \in Configurations :
      LET tree == simple_configure(c)
          Latest(n) == {i \in DOMAIN c : /\ FullName(c[i].name) = n
                                     /\ \A k \in DOMAIN c : k > i => FullName(c[k].name) # n}
      IN  \A n \in DOMAIN tree :
            tree[n] = IF Latest(n) = {}
                      THEN IF n = RootName THEN NewManager[n] ELSE NoLimits
                      ELSE Parsed(c[CHOOSE i \in Latest(n) : TRUE]).limits

\* "Look for first direct parent w/ config": whatever names the manager has heard before,
\* a job is under the limits of every channel configured above the name it has, though
\* its own channel is somewhere else.
LimitsApply ==
    \A tree \in Trees : \A n, m \in Names(3) :
      Lineage(FullName(n)) \cap DOMAIN tree
        \subseteq Lineage(get_channel_by_name(Heard(tree, m), n))

\* A job that is notified again has the channel it had, or the manager would drop what
\* it knows of the job - unless the name repeats a segment.
NoRepeat(name) == \A i, k \in DOMAIN name : name[i] = name[k] => i = k
Distinct == {n \in UNION {[1..k -> {"a", "b", "c"}] : k \in 0..3} : NoRepeat(n)}
ChannelsStay ==
    \A tree \in Trees : \A n, m \in Distinct :
      get_channel_by_name(Heard(Heard(tree, n), m), n) = get_channel_by_name(tree, n)

ASSUME NamesAreRight == ConfiguredAsWritten /\ LimitsApply /\ ChannelsStay
=============================================================================
