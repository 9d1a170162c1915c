---------------------------- MODULE ChannelsProofs ----------------------------
(***************************************************************************)
(* Proofs about Channels, for every tree of channels, every capacity and   *)
(* throttle, every set of jobs and dependencies, and any number of users'  *)
(* actions and faults.                                                     *)
(***************************************************************************)
EXTENDS Channels, ChannelQueues, ChannelNames, FiniteSetTheorems, WellFoundedInduction, TLAPS

USE DEF row, manager, counters, Path, Chain

-------------------------------------------------------------------------------
(* Types.                                                                  *)

LEMMA TurnType == Asleep \in Nat /\ Len(Visits) \in Nat /\ Asleep = Len(Visits) + 1
BY ConfigurationAssumption DEF Asleep

LEMMA ConstantsType ==
    /\ ChannelOf \in [Jobs -> Channels] /\ Throttle \in [Channels -> Nat]
    /\ MaxNow \in Nat /\ MaxUser \in Nat /\ MaxFault \in Nat
BY ChannelsAssumption

LEMMA InitType == Init => TypeOK
BY TurnType, ConstantsType DEF Init, TypeOK, States

PlacesType ==
    /\ queue \in [Channels -> SUBSET Jobs]
    /\ running \in [Channels -> SUBSET Jobs]
    /\ failed \in [Channels -> SUBSET Jobs]
    /\ wait \in [Jobs -> Nat]

LEMMA Moved ==
  ASSUME NEW places \in [Channels -> SUBSET Jobs], NEW j \in Jobs, NEW c \in Channels
  PROVE  /\ Without(places, j) \in [Channels -> SUBSET Jobs]
         /\ [Without(places, j) EXCEPT ![c] = @ \cup {j}] \in [Channels -> SUBSET Jobs]
BY DEF Without

LEMMA PlacesKept ==
  ASSUME PlacesType, eta \in [Jobs -> Nat], NEW j \in Jobs, NEW kept \in BOOLEAN,
         \/ Remove(j) \/ SetPending(j, kept) \/ SetRunning(j, kept)
         \/ SetFailed(j, kept) \/ SetWaiting(j, kept)
  PROVE  PlacesType'
<1> USE ConstantsType DEF PlacesType
<1>1. CASE Remove(j) BY <1>1 DEF Remove, Without
<1>2. CASE SetPending(j, kept)
  <2>1. \/ UNCHANGED <<queue, running, failed, wait>>
        \/ /\ queue' = [Without(queue, j) EXCEPT ![ChannelOf[j]] = @ \cup {j}]
           /\ running' = Without(running, j)
           /\ failed' = Without(failed, j)
           /\ wait' = IF kept THEN wait ELSE [wait EXCEPT ![j] = eta[j]]
    BY <1>2, Zenon DEF SetPending
  <2>2. /\ Without(queue, j) \in [Channels -> SUBSET Jobs] /\ ChannelOf[j] \in Channels
        /\ Without(running, j) \in [Channels -> SUBSET Jobs]
        /\ Without(failed, j) \in [Channels -> SUBSET Jobs]
        /\ (IF kept THEN wait ELSE [wait EXCEPT ![j] = eta[j]]) \in [Jobs -> Nat]
    BY Moved
  <2> QED BY <2>1, <2>2
<1>3. CASE SetRunning(j, kept) BY <1>3 DEF SetRunning
<1>4. CASE SetFailed(j, kept)
  <2>1. \/ UNCHANGED <<queue, running, failed, wait>>
        \/ /\ failed' = [Without(failed, j) EXCEPT ![ChannelOf[j]] = @ \cup {j}]
           /\ running' = Without(running, j)
           /\ queue' = Without(queue, j)
           /\ wait' = IF kept THEN wait ELSE [wait EXCEPT ![j] = eta[j]]
    BY <1>4, Zenon DEF SetFailed
  <2>2. /\ Without(failed, j) \in [Channels -> SUBSET Jobs] /\ ChannelOf[j] \in Channels
        /\ Without(running, j) \in [Channels -> SUBSET Jobs]
        /\ Without(queue, j) \in [Channels -> SUBSET Jobs]
        /\ (IF kept THEN wait ELSE [wait EXCEPT ![j] = eta[j]]) \in [Jobs -> Nat]
    BY Moved
  <2> QED BY <2>1, <2>2
<1>5. CASE SetWaiting(j, kept) BY <1>1, <1>5 DEF SetWaiting
<1> QED BY <1>1, <1>2, <1>3, <1>4, <1>5

(* What a notification does, by the state of its row. *)
Kept(j) == Known(j) /\ wait[j] = eta[j]
LEMMA Outcome ==
  ASSUME TypeOK, NEW j \in Jobs, Notify(j)
  PROVE  \/ db[j] \in {"done", "cancelled", "deleted"} /\ Remove(j)
         \/ db[j] = "pending" /\ SetPending(j, Kept(j))
         \/ db[j] \in {"enqueued", "started"} /\ SetRunning(j, Kept(j))
         \/ db[j] = "failed" /\ SetFailed(j, Kept(j))
         \/ db[j] = "wait_dependencies" /\ SetWaiting(j, Kept(j))
BY DEF TypeOK, States, Notify, Kept

LEMMA KeptType == \A j : Kept(j) \in BOOLEAN
BY DEF Kept

LEMMA NotifyType ==
  ASSUME TypeOK, NEW j \in Jobs, Notify(j)
  PROVE  TypeOK'
<1>1. PlacesType'
  BY Outcome, PlacesKept, KeptType DEF TypeOK, PlacesType
<1> QED BY <1>1 DEF Notify, TypeOK, PlacesType

LEMMA RoundType ==
  ASSUME TypeOK, Round \/ Restart \/ Tick
  PROVE  TypeOK'
<1> USE TurnType, ConstantsType DEF TypeOK
<1>1. CASE StartRound BY <1>1 DEF StartRound
<1>2. CASE Wake BY <1>2 DEF Wake
<1>3. ASSUME NEW c \in Channels PROVE Competing(c) \in [Jobs -> Nat]
  BY DEF Competing
<1>4. ASSUME NEW c \in Channels, Pop(c) PROVE TypeOK'
  <2>1. PICK j \in Ready(c) :
          /\ queue' = [d \in Channels |-> IF d = c THEN queue[d] \ {j}
                                          ELSE IF IsParent(d, c) THEN queue[d] \cup {j}
                                          ELSE queue[d]]
          /\ running' = [running EXCEPT ![c] = @ \cup {j}]
          /\ IF c = Root THEN Enqueue(j) ELSE UNCHANGED <<db, notes>>
    BY <1>4 DEF Pop
  <2>2. j \in Jobs BY DEF Ready, Late
  <2>3. queue' \in [Channels -> SUBSET Jobs] /\ running' \in [Channels -> SUBSET Jobs]
    BY <2>1, <2>2
  <2>4. db' \in [Jobs -> States] /\ notes' \subseteq Jobs
    BY <2>1, <2>2 DEF Enqueue, States
  <2>5. pause' \in [Channels -> Nat]
    BY <1>4 DEF Pop
  <2>6. turn' \in 0..Asleep
    BY <1>4 DEF Pop, Visiting
  <2>7. wait' \in [Jobs -> Nat]
    BY <1>3, <1>4 DEF Pop
  <2> QED BY <1>4, <2>3, <2>4, <2>5, <2>6, <2>7 DEF Pop, counters
<1>5. ASSUME NEW c \in Channels, Leave(c) PROVE TypeOK'
  <2>1. pause' \in [Channels -> Nat] /\ wait' \in [Jobs -> Nat]
    BY <1>3, <1>5 DEF Leave
  <2>2. turn' \in 0..Asleep
    BY <1>5 DEF Leave, Visiting
  <2> QED BY <1>5, <2>1, <2>2 DEF Leave
<1>6. CASE Restart BY <1>6 DEF Restart
<1>7. CASE Tick BY <1>7 DEF Tick
<1> QED BY <1>1, <1>2, <1>4, <1>5, <1>6, <1>7 DEF Round

(* What happens to the rows is one of these, and all of it is notified but *)
(* for the deletion of a job that is done.                                 *)
RowStep(j) ==
    \/ Works(j) \/ Postpone(j) \/ Fail(j) \/ Dead(j)
    \/ ButtonDone(j) \/ ButtonCancelled(j) \/ Requeue(j) \/ Delete(j)

LEMMA RowType ==
  ASSUME TypeOK, NEW j \in Jobs, RowStep(j)
  PROVE  TypeOK'
<1> USE ConstantsType DEF TypeOK, Moves, Released, States, Queueable
<1>1. CASE Start(j) BY <1>1 DEF Start
<1>2. CASE Finish(j) BY <1>2 DEF Finish
<1>3. CASE Postpone(j) BY <1>3 DEF Postpone
<1>4. CASE Fail(j) BY <1>4 DEF Fail, Fault
<1>5. CASE Dead(j) BY <1>5 DEF Dead, Fault
<1>6. CASE ButtonDone(j) BY <1>6 DEF ButtonDone, UserActs
<1>7. CASE ButtonCancelled(j) BY <1>7 DEF ButtonCancelled, UserActs
<1>8. CASE Requeue(j) BY <1>8 DEF Requeue, UserActs
<1>9. CASE Delete(j) BY <1>9 DEF Delete, UserActs
<1> QED BY <1>1, <1>2, <1>3, <1>4, <1>5, <1>6, <1>7, <1>8, <1>9 DEF RowStep, Works

LEMMA Steps ==
  ASSUME [Next]_vars
  PROVE  \/ Round \/ Restart \/ Tick \/ UNCHANGED vars
         \/ \E j \in Jobs : Notify(j) \/ RowStep(j)
BY DEF Next, RowStep

LEMMA NextType == TypeOK /\ [Next]_vars => TypeOK'
<1> SUFFICES ASSUME TypeOK, [Next]_vars PROVE TypeOK'
  OBVIOUS
<1>1. CASE UNCHANGED vars BY <1>1 DEF vars, TypeOK
<1> QED BY <1>1, Steps, NotifyType, RoundType, RowType

(* The variables keep their types in every reachable state.                *)
THEOREM TypeCorrect == Spec => []TypeOK
BY InitType, NextType, PTL DEF Spec
-------------------------------------------------------------------------------
(* What makes the properties inductive.  A job counts in every channel it  *)
(* left on its way to the one it is queued or running in, so that what the *)
(* root hands out counts everywhere; and a channel that is sequential lets *)
(* no job in while another has failed, whether it knows already or not.    *)
Busies == {"enqueued", "started"}

Placed(j) ==
    \A c \in Channels : j \in queue[c] \cup running[c] =>
      /\ c \in Path(j)
      /\ \A d \in Path(j) : c \in Up[d] /\ d # c => j \in running[d]

Counted(j) == db[j] \in Busies => \A c \in Path(j) : j \in running[c]

Remembered(j) ==
    ChannelOf[j] \in Sequential /\ db[j] = "failed"
      => j \in running[ChannelOf[j]] \cup failed[ChannelOf[j]]

Unblocked(j) ==
    ChannelOf[j] \in Sequential /\ j \in running[ChannelOf[j]]
      => \A k \in Jobs \ {j} : ChannelOf[k] = ChannelOf[j] => db[k] # "failed"

Bounded(c) == Capacity[c] # 0 => Cardinality(running[c]) <= Capacity[c]

IInv ==
    /\ TypeOK
    /\ \A j \in Jobs : Placed(j) /\ Counted(j) /\ Remembered(j) /\ Unblocked(j)
    /\ \A c \in Channels : Bounded(c)

(* The channels form a tree. *)
LEMMA Tree ==
    /\ Root \in Channels /\ Up[Root] = {Root}
    /\ \A c \in Channels : c \in Up[c] /\ Root \in Up[c] /\ Up[c] \subseteq Channels
    /\ \A c, d \in Channels : d \in Up[c] => Up[d] \subseteq Up[c]
    /\ \A b, c, d \in Channels : c \in Up[b] /\ d \in Up[b] => c \in Up[d] \/ d \in Up[c]
    /\ \A c, d \in Channels : d \in Up[c] /\ c \in Up[d] => c = d
BY ChannelsAssumption

LEMMA Paths == \A j \in Jobs : ChannelOf[j] \in Path(j) /\ Root \in Path(j) /\ Path(j) \subseteq Channels
BY Tree, ConstantsType

LEMMA FiniteJobs ==
  ASSUME NEW S \in SUBSET Jobs
  PROVE  IsFiniteSet(S) /\ Cardinality(S) \in Nat
BY ChannelsAssumption, FS_Subset, FS_CardinalityType

(* A sequential channel runs one job. *)
LEMMA One ==
  ASSUME IInv, NEW s \in Sequential, NEW j \in running[s], NEW k \in running[s]
  PROVE  j = k
<1>1. s \in Channels /\ Capacity[s] = 1 BY ConfigurationAssumption
<1>2. running[s] \in SUBSET Jobs /\ Cardinality(running[s]) <= 1
  BY <1>1 DEF IInv, TypeOK, Bounded
<1>3. IsFiniteSet(running[s]) /\ Cardinality(running[s]) \in Nat
  BY <1>2, FiniteJobs
<1>4. Cardinality(running[s]) # 0 BY <1>3, FS_EmptySet
<1>5. Cardinality(running[s]) = 1 BY <1>2, <1>3, <1>4
<1>6. PICK x : running[s] = {x} BY <1>3, <1>5, FS_Singleton
<1> QED BY <1>6

LEMMA InitInv == Init => IInv
<1> SUFFICES ASSUME Init PROVE IInv OBVIOUS
<1>1. ASSUME NEW j \in Jobs PROVE Placed(j) /\ Counted(j) /\ Remembered(j) /\ Unblocked(j)
  BY ConstantsType DEF Init, Placed, Counted, Remembered, Unblocked, Busies
<1>2. ASSUME NEW c \in Channels PROVE Bounded(c)
  <2>1. running[c] = {} BY DEF Init
  <2>2. Cardinality(running[c]) = 0 BY <2>1, FS_EmptySet
  <2>3. Capacity[c] \in Nat BY ChannelsAssumption
  <2> QED BY <2>2, <2>3 DEF Bounded
<1> QED BY <1>1, <1>2, InitType DEF IInv

(* A notification changes nothing; or it takes the job away and queues it  *)
(* at most in its own channel; or the job is under way and stays so.       *)
Taken(j) ==
    /\ db[j] \notin Busies
    /\ \A c \in Channels :
         /\ running'[c] = running[c] \ {j}
         /\ failed[c] \ {j} \subseteq failed'[c]
         /\ queue'[c] \subseteq queue[c] \cup {j}
         /\ j \in queue'[c] => c = ChannelOf[j]
         /\ db[j] = "failed" /\ c = ChannelOf[j] => j \in failed'[c]

Stays(j) ==
    /\ db[j] \in Busies
    /\ running' = running
    /\ \A c \in Channels : queue'[c] \subseteq queue[c] /\ failed[c] \ {j} \subseteq failed'[c]

LEMMA NotifyEffect ==
  ASSUME IInv, NEW j \in Jobs, Notify(j)
  PROVE  UNCHANGED <<queue, running, failed>> \/ Taken(j) \/ Stays(j)
<1> USE DEF IInv, TypeOK, Busies
<1>0. ChannelOf[j] \in Channels BY ConstantsType
<1>1. ASSUME Remove(j), db[j] \in {"done", "cancelled", "deleted", "wait_dependencies"}
      PROVE  Taken(j)
  BY <1>1 DEF Remove, Without, Taken
<1>2. ASSUME SetPending(j, Kept(j)), db[j] = "pending"
      PROVE  UNCHANGED <<queue, running, failed>> \/ Taken(j)
  <2>1. \/ UNCHANGED <<queue, running, failed>>
        \/ /\ queue' = [Without(queue, j) EXCEPT ![ChannelOf[j]] = @ \cup {j}]
           /\ running' = Without(running, j)
           /\ failed' = Without(failed, j)
    BY <1>2, Zenon DEF SetPending
  <2>2. CASE UNCHANGED <<queue, running, failed>> BY <2>2
  <2>3. CASE /\ queue' = [Without(queue, j) EXCEPT ![ChannelOf[j]] = @ \cup {j}]
             /\ running' = Without(running, j)
             /\ failed' = Without(failed, j)
    <3>1. \A c \in Channels : queue'[c] = IF c = ChannelOf[j] THEN (queue[c] \ {j}) \cup {j}
                                                          ELSE queue[c] \ {j}
      BY <1>0, <2>3 DEF Without
    <3>2. \A c \in Channels : running'[c] = running[c] \ {j} /\ failed'[c] = failed[c] \ {j}
      BY <2>3 DEF Without
    <3>3. \A c \in Channels : failed[c] \ {j} \subseteq failed'[c]
      BY <3>1, <3>2
    <3>4. \A c \in Channels : queue'[c] \subseteq queue[c] \cup {j}
      BY <3>1, <3>2
    <3>5. \A c \in Channels : j \in queue'[c] => c = ChannelOf[j]
      <4>1. \A c \in Channels : c # ChannelOf[j] => queue'[c] = queue[c] \ {j}
        BY <3>1, Zenon
      <4> QED BY <4>1, Zenon
    <3>6. \A c \in Channels : db[j] = "failed" /\ c = ChannelOf[j] => j \in failed'[c]
      BY <1>2, <3>1
    <3>7. db[j] \notin Busies
      BY <1>2
    <3> QED BY <3>2, <3>3, <3>4, <3>5, <3>6, <3>7, Zenon DEF Taken
  <2> QED BY <2>1, <2>2, <2>3
<1>3. ASSUME SetRunning(j, Kept(j)), db[j] \in Busies
      PROVE  Stays(j)
  <2>1. \A c \in Path(j) : j \in running[c] BY <1>3 DEF Counted
  <2>2. Reached(j, Kept(j)) \subseteq Path(j) BY DEF Reached
  <2>3. running' = running
    <3>1. running' = [c \in Channels |-> IF c \in Reached(j, Kept(j))
                                         THEN running[c] \cup {j} ELSE running[c]]
      BY <1>3 DEF SetRunning
    <3> QED BY <2>1, <2>2, <3>1
  <2>4. \A c \in Channels : queue'[c] \subseteq queue[c] /\ failed[c] \ {j} \subseteq failed'[c]
    BY <1>3 DEF SetRunning
  <2> QED BY <1>3, <2>3, <2>4 DEF Stays
<1>4. ASSUME SetFailed(j, Kept(j)), db[j] = "failed"
      PROVE  UNCHANGED <<queue, running, failed>> \/ Taken(j)
  <2>1. \/ UNCHANGED <<queue, running, failed>>
        \/ /\ failed' = [Without(failed, j) EXCEPT ![ChannelOf[j]] = @ \cup {j}]
           /\ running' = Without(running, j)
           /\ queue' = Without(queue, j)
    BY <1>4, Zenon DEF SetFailed
  <2>2. CASE UNCHANGED <<queue, running, failed>> BY <2>2
  <2>3. CASE /\ failed' = [Without(failed, j) EXCEPT ![ChannelOf[j]] = @ \cup {j}]
             /\ running' = Without(running, j)
             /\ queue' = Without(queue, j)
    <3>1. \A c \in Channels : failed'[c] = IF c = ChannelOf[j] THEN (failed[c] \ {j}) \cup {j}
                                                          ELSE failed[c] \ {j}
      BY <1>0, <2>3 DEF Without
    <3>2. \A c \in Channels : running'[c] = running[c] \ {j} /\ queue'[c] = queue[c] \ {j}
      BY <2>3 DEF Without
    <3>3. \A c \in Channels : failed[c] \ {j} \subseteq failed'[c]
      BY <3>1, <3>2
    <3>4. \A c \in Channels : queue'[c] \subseteq queue[c] \cup {j}
      BY <3>1, <3>2
    <3>5. \A c \in Channels : j \in queue'[c] => c = ChannelOf[j]
      BY <3>1, <3>2
    <3>6. \A c \in Channels : db[j] = "failed" /\ c = ChannelOf[j] => j \in failed'[c]
      BY <1>4, <3>1
    <3>7. db[j] \notin Busies
      BY <1>4
    <3> QED BY <3>2, <3>3, <3>4, <3>5, <3>6, <3>7, Zenon DEF Taken
  <2> QED BY <2>1, <2>2, <2>3
<1>5. ASSUME SetWaiting(j, Kept(j)), db[j] = "wait_dependencies"
      PROVE  UNCHANGED <<queue, running, failed>> \/ Taken(j)
  BY <1>1, <1>5 DEF SetWaiting
<1> QED BY <1>1, <1>2, <1>3, <1>4, <1>5, Outcome

LEMMA NotifyInv ==
  ASSUME IInv, NEW j \in Jobs, Notify(j)
  PROVE  IInv'
<1>0. TypeOK' /\ db' = db BY NotifyType DEF IInv, Notify
<1>1. CASE UNCHANGED <<queue, running, failed>>
  BY <1>0, <1>1 DEF IInv, Placed, Counted, Remembered, Unblocked, Bounded
<1>2. CASE Taken(j)
  <2> USE DEF Taken
  <2>1. ASSUME NEW k \in Jobs PROVE Placed(k)'
    <3>1. CASE k = j
      <4>1. \A c \in Channels : j \in queue'[c] \cup running'[c] => c = ChannelOf[j]
        BY <1>2
      <4> QED BY <3>1, <4>1, Paths, Tree DEF Placed
    <3>2. CASE k # j
      <4>1. Placed(k) BY DEF IInv
      <4>2. \A c \in Channels : (k \in queue'[c] => k \in queue[c]) /\ (k \in running'[c] <=> k \in running[c])
        BY <1>2, <3>2
      <4> QED BY <4>1, <4>2, Paths DEF Placed
    <3> QED BY <3>1, <3>2
  <2>2. ASSUME NEW k \in Jobs PROVE Counted(k)'
    <3>1. Counted(k) BY DEF IInv
    <3> QED BY <1>0, <1>2, <3>1, Paths DEF Counted
  <2>3. ASSUME NEW k \in Jobs PROVE Remembered(k)'
    <3>1. Remembered(k) BY DEF IInv
    <3>2. ChannelOf[k] \in Channels BY ConstantsType
    <3> QED BY <1>0, <1>2, <3>1, <3>2 DEF Remembered
  <2>4. ASSUME NEW k \in Jobs PROVE Unblocked(k)'
    <3>1. Unblocked(k) BY DEF IInv
    <3>2. ChannelOf[k] \in Channels BY ConstantsType
    <3> QED BY <1>0, <1>2, <3>1, <3>2 DEF Unblocked
  <2>5. ASSUME NEW c \in Channels PROVE Bounded(c)'
    <3>1. running[c] \in SUBSET Jobs /\ running'[c] = running[c] \ {j} /\ Capacity[c] \in Nat
      BY <1>2, ChannelsAssumption DEF IInv, TypeOK
    <3>2. Cardinality(running'[c]) <= Cardinality(running[c])
      BY <3>1, FiniteJobs, FS_Subset
    <3>3. Cardinality(running'[c]) \in Nat /\ Cardinality(running[c]) \in Nat
      BY <3>1, FiniteJobs
    <3>4. Bounded(c) BY DEF IInv
    <3> QED BY <3>1, <3>2, <3>3, <3>4 DEF Bounded
  <2> QED BY <1>0, <2>1, <2>2, <2>3, <2>4, <2>5 DEF IInv
<1>3. CASE Stays(j)
  <2> USE DEF Stays
  <2>1. ASSUME NEW k \in Jobs PROVE Placed(k)'
    <3>1. Placed(k) BY DEF IInv
    <3> QED BY <1>3, <3>1 DEF Placed
  <2>2. ASSUME NEW k \in Jobs PROVE Counted(k)' /\ Unblocked(k)'
    <3>1. Counted(k) /\ Unblocked(k) BY DEF IInv
    <3> QED BY <1>0, <1>3, <3>1 DEF Counted, Unblocked
  <2>3. ASSUME NEW k \in Jobs PROVE Remembered(k)'
    <3>1. Remembered(k) BY DEF IInv
    <3>2. ChannelOf[k] \in Channels BY ConstantsType
    <3> QED BY <1>0, <1>3, <3>1, <3>2 DEF Remembered, Busies
  <2>4. ASSUME NEW c \in Channels PROVE Bounded(c)'
    BY <1>3 DEF IInv, Bounded
  <2> QED BY <1>0, <2>1, <2>2, <2>3, <2>4 DEF IInv
<1> QED BY <1>1, <1>2, <1>3, NotifyEffect

(* A job leaves the queue of a channel for the parent's. *)
PassedFrom(c, j) ==
    /\ HasCapacity(c) /\ j \in queue[c] /\ failed' = failed
    /\ queue' = [d \in Channels |-> IF d = c THEN queue[d] \ {j}
                                    ELSE IF IsParent(d, c) THEN queue[d] \cup {j}
                                    ELSE queue[d]]
    /\ running' = [running EXCEPT ![c] = @ \cup {j}]
    /\ IF c = Root THEN db' = [db EXCEPT ![j] = IF @ = "deleted" THEN @ ELSE "enqueued"]
                   ELSE db' = db

LEMMA PopPasses ==
  ASSUME TypeOK, NEW c \in Channels, Pop(c)
  PROVE  \E j \in Jobs : PassedFrom(c, j)
<1>1. PICK j \in Ready(c) :
        /\ queue' = [d \in Channels |-> IF d = c THEN queue[d] \ {j}
                                        ELSE IF IsParent(d, c) THEN queue[d] \cup {j}
                                        ELSE queue[d]]
        /\ running' = [running EXCEPT ![c] = @ \cup {j}]
        /\ IF c = Root THEN Enqueue(j) ELSE UNCHANGED <<db, notes>>
  BY DEF Pop
<1>2. j \in queue[c] /\ j \in Jobs BY DEF Ready, Late, TypeOK
<1>3. HasCapacity(c) /\ failed' = failed BY DEF Pop, CanPop
<1> QED BY <1>1, <1>2, <1>3 DEF PassedFrom, Enqueue

(* A sequential channel with capacity has no other job that failed or is under way. *)
LEMMA Free ==
  ASSUME IInv, NEW c \in Sequential, HasCapacity(c), NEW k \in Jobs, ChannelOf[k] = c
  PROVE  running[c] = {} /\ db[k] \notin Busies \cup {"failed"}
<1>1. c \in Channels /\ Capacity[c] = 1 BY ConfigurationAssumption
<1>2. failed[c] = {} /\ Cardinality(running[c]) < 1 BY <1>1 DEF HasCapacity
<1>3. IsFiniteSet(running[c]) /\ Cardinality(running[c]) \in Nat
  BY <1>1, FiniteJobs DEF IInv, TypeOK
<1>4. Cardinality(running[c]) = 0 BY <1>2, <1>3
<1>5. running[c] = {} BY <1>3, <1>4, FS_EmptySet
<1>6. Counted(k) /\ Remembered(k) /\ c \in Path(k) BY Paths DEF IInv
<1> QED BY <1>2, <1>5, <1>6 DEF Counted, Remembered, Busies

LEMMA PopInv ==
  ASSUME IInv, TypeOK', NEW c \in Channels, NEW j \in Jobs, PassedFrom(c, j)
  PROVE  IInv'
<1>0. /\ running'[c] = running[c] \cup {j}
      /\ \A d \in Channels : d # c => running'[d] = running[d]
      /\ \A d \in Channels : running[d] \subseteq running'[d]
  BY DEF PassedFrom, IInv, TypeOK
<1>1. Placed(j) /\ c \in Path(j) /\ Path(j) \subseteq Channels
  BY Paths DEF IInv, PassedFrom, Placed
<1>2. Placed(j)'
  <2> SUFFICES ASSUME NEW e \in Channels, j \in queue'[e] \cup running'[e]
               PROVE  /\ e \in Path(j)
                      /\ \A d \in Path(j) : e \in Up[d] /\ d # e => j \in running'[d]
    BY Zenon DEF Placed
  <2>1. CASE j \in queue[e] \cup running[e]
    BY <1>0, <1>1, <2>1 DEF Placed
  <2>2. CASE e = c
    BY <1>0, <1>1, <2>2 DEF Placed, PassedFrom
  <2>3. CASE IsParent(e, c)
    <3>1. e \in Up[c] /\ e # c /\ Up[e] = Up[c] \ {c} BY <2>3 DEF IsParent
    <3>2. e \in Path(j) BY <1>1, <3>1, Tree, ConstantsType
    <3>3. ASSUME NEW d \in Path(j), e \in Up[d], d # e PROVE j \in running'[d]
      <4>1. CASE d = c BY <1>0, <4>1
      <4>2. CASE c \in Up[d] /\ d # c BY <1>0, <1>1, <4>2 DEF Placed, PassedFrom
      <4>3. CASE d \in Up[c] /\ d # c
        <5>1. d \in Up[e] BY <3>1, <4>3
        <5> QED BY <5>1, <3>3, <1>1, Tree
      <4>4. c \in Up[d] \/ d \in Up[c] BY <1>1, <3>3, Tree, ConstantsType
      <4> QED BY <4>1, <4>2, <4>3, <4>4
    <3> QED BY <3>2, <3>3
  <2>4. j \in queue[e] \cup running[e] \/ e = c \/ IsParent(e, c)
    BY <1>0 DEF PassedFrom
  <2> QED BY <2>1, <2>2, <2>3, <2>4
<1>3. ASSUME NEW k \in Jobs \ {j} PROVE Placed(k)'
  <2>1. Placed(k) BY DEF IInv
  <2>2. \A e \in Channels : (k \in queue'[e] <=> k \in queue[e]) /\ (k \in running'[e] <=> k \in running[e])
    BY <1>0 DEF PassedFrom
  <2> QED BY <2>1, <2>2, Paths DEF Placed
<1>4. ASSUME NEW k \in Jobs PROVE Counted(k)'
  <2>1. Counted(k) /\ Path(k) \subseteq Channels BY Paths DEF IInv
  <2>2. CASE db'[k] = db[k] BY <1>0, <2>1, <2>2 DEF Counted
  <2>3. CASE db'[k] # db[k]
    <3>1. k = j /\ c = Root BY <2>3 DEF PassedFrom, IInv, TypeOK
    <3>2. \A d \in Path(j) : Root \in Up[d] /\ (d # Root => j \in running[d])
      BY <1>1, <3>1, Tree DEF Placed, PassedFrom
    <3> QED BY <1>0, <1>1, <3>1, <3>2 DEF Counted
  <2> QED BY <2>2, <2>3
<1>5. \A k \in Jobs : db'[k] = "failed" => db[k] = "failed"
  BY DEF PassedFrom, IInv, TypeOK
<1>6. ASSUME NEW k \in Jobs PROVE Remembered(k)'
  <2>1. Remembered(k) /\ ChannelOf[k] \in Channels BY ConstantsType DEF IInv
  <2> QED BY <1>0, <1>5, <2>1 DEF Remembered, PassedFrom
<1>7. ASSUME NEW k \in Jobs PROVE Unblocked(k)'
  <2>1. Unblocked(k) /\ ChannelOf[k] \in Channels BY ConstantsType DEF IInv
  <2>2. CASE k \in running[ChannelOf[k]]
    BY <1>5, <2>1, <2>2 DEF Unblocked
  <2>3. CASE k \notin running[ChannelOf[k]] /\ k \in running'[ChannelOf[k]]
    <3>1. ChannelOf[k] = c BY <1>0, <2>1, <2>3
    <3> QED BY <1>5, <3>1, Free DEF Unblocked, PassedFrom
  <2> QED BY <2>2, <2>3 DEF Unblocked
<1>8. ASSUME NEW d \in Channels PROVE Bounded(d)'
  <2>1. Bounded(d) BY DEF IInv
  <2>2. CASE d # c BY <1>0, <2>1, <2>2 DEF Bounded
  <2>3. CASE d = c
    <3>1. IsFiniteSet(running[c]) /\ Cardinality(running[c]) \in Nat
      BY FiniteJobs DEF IInv, TypeOK
    <3>2. Cardinality(running'[c]) <= Cardinality(running[c]) + 1
      <4>1. Cardinality(running[c] \cup {j}) \in {Cardinality(running[c]), Cardinality(running[c]) + 1}
        BY <3>1, FS_AddElement, Zenon
      <4> QED BY <1>0, <3>1, <4>1
    <3>3. Cardinality(running'[c]) \in Nat
      BY FiniteJobs DEF TypeOK
    <3>4. Capacity[c] # 0 => Cardinality(running[c]) < Capacity[c]
      BY DEF PassedFrom, HasCapacity
    <3>5. Capacity[c] \in Nat BY ChannelsAssumption
    <3> QED BY <2>3, <3>1, <3>2, <3>3, <3>4, <3>5 DEF Bounded
  <2> QED BY <2>2, <2>3
<1> QED BY <1>2, <1>3, <1>4, <1>6, <1>7, <1>8 DEF IInv

(* A step of workers or users leaves the manager alone.  It makes no job   *)
(* busy, and none fail that was not.                                       *)
RowEffect ==
    /\ UNCHANGED <<queue, running, failed>>
    /\ \A k \in Jobs : /\ db'[k] \in Busies => db[k] \in Busies
                       /\ db'[k] = "failed" => db[k] \in Busies \cup {"failed"}

LEMMA RowStepEffect ==
  ASSUME TypeOK, NEW j \in Jobs, RowStep(j)
  PROVE  RowEffect
<1> USE DEF TypeOK, Moves, Released, States, Queueable, Busies, RowEffect
<1>1. CASE Start(j) BY <1>1 DEF Start
<1>2. CASE Finish(j) BY <1>2 DEF Finish
<1>3. CASE Postpone(j) BY <1>3 DEF Postpone
<1>4. CASE Fail(j) BY <1>4 DEF Fail, Fault
<1>5. CASE Dead(j) BY <1>5 DEF Dead, Fault
<1>6. CASE ButtonDone(j) BY <1>6 DEF ButtonDone, UserActs
<1>7. CASE ButtonCancelled(j) BY <1>7 DEF ButtonCancelled, UserActs
<1>8. CASE Requeue(j) BY <1>8 DEF Requeue, UserActs
<1>9. CASE Delete(j) BY <1>9 DEF Delete, UserActs
<1> QED BY <1>1, <1>2, <1>3, <1>4, <1>5, <1>6, <1>7, <1>8, <1>9 DEF RowStep, Works

LEMMA RowInv ==
  ASSUME IInv, TypeOK', RowEffect
  PROVE  IInv'
<1> USE DEF RowEffect
<1>1. ASSUME NEW k \in Jobs PROVE Placed(k)' /\ Counted(k)'
  BY DEF IInv, Placed, Counted
<1>2. ASSUME NEW k \in Jobs, db[k] \in Busies PROVE k \in running[ChannelOf[k]]
  BY <1>2, Paths DEF IInv, Counted
<1>3. ASSUME NEW k \in Jobs PROVE Remembered(k)'
  BY <1>2 DEF IInv, Remembered
<1>4. ASSUME NEW k \in Jobs PROVE Unblocked(k)'
  <2> SUFFICES ASSUME ChannelOf[k] \in Sequential, k \in running[ChannelOf[k]],
                      NEW i \in Jobs \ {k}, ChannelOf[i] = ChannelOf[k], db'[i] = "failed"
               PROVE  FALSE
    BY DEF Unblocked
  <2>1. db[i] # "failed" BY DEF IInv, Unblocked
  <2>2. i \in running[ChannelOf[k]] BY <1>2, <2>1
  <2> QED BY <2>2, One
<1>5. ASSUME NEW c \in Channels PROVE Bounded(c)'
  BY DEF IInv, Bounded
<1> QED BY <1>1, <1>3, <1>4, <1>5 DEF IInv

(* The runner that starts again counts the jobs that are under way, which  *)
(* it counted before.                                                      *)
LEMMA RestartInv ==
  ASSUME IInv, Restart
  PROVE  IInv'
<1>0. TypeOK' /\ db' = db BY RoundType DEF IInv, Restart
<1>1. \A c \in Channels : running'[c] = Busy(c) /\ Busy(c) \subseteq running[c]
  BY DEF Restart, Busy, IInv, Counted, Busies
<1>2. \A c \in Channels : /\ queue'[c] = {j \in Jobs : ChannelOf[j] = c /\ db[j] = "pending"}
                          /\ failed'[c] = {j \in Jobs : ChannelOf[j] = c /\ db[j] = "failed"}
  BY DEF Restart
<1>3. ASSUME NEW j \in Jobs PROVE Placed(j)'
  <2> SUFFICES ASSUME NEW c \in Channels, j \in queue'[c] \cup running'[c]
               PROVE  /\ c \in Path(j)
                      /\ \A d \in Path(j) : c \in Up[d] /\ d # c => j \in running'[d]
    BY Zenon DEF Placed
  <2>1. CASE j \in queue'[c]
    <3>1. c = ChannelOf[j] BY <1>2, <2>1
    <3> QED BY <3>1, Paths, Tree
  <2>2. CASE j \in running'[c]
    BY <1>1, <2>2, Paths DEF Busy
  <2> QED BY <2>1, <2>2
<1>4. ASSUME NEW j \in Jobs PROVE Counted(j)'
  BY <1>0, <1>1, Paths DEF Counted, Busy, Busies
<1>5. ASSUME NEW j \in Jobs PROVE Remembered(j)'
  BY <1>0, <1>2, Paths DEF Remembered
<1>6. ASSUME NEW j \in Jobs PROVE Unblocked(j)'
  BY <1>0, <1>1, Paths DEF Unblocked, IInv
<1>7. ASSUME NEW c \in Channels PROVE Bounded(c)'
  <2>1. running[c] \in SUBSET Jobs /\ running'[c] \subseteq running[c] /\ Bounded(c)
    BY <1>1 DEF IInv, TypeOK
  <2>2. Cardinality(running'[c]) <= Cardinality(running[c])
    BY <2>1, FiniteJobs, FS_Subset
  <2>3. Cardinality(running'[c]) \in Nat /\ Cardinality(running[c]) \in Nat /\ Capacity[c] \in Nat
    BY <2>1, FiniteJobs, ChannelsAssumption
  <2> QED BY <2>1, <2>2, <2>3 DEF Bounded
<1> QED BY <1>0, <1>3, <1>4, <1>5, <1>6, <1>7 DEF IInv

LEMMA NextInv == IInv /\ [Next]_vars => IInv'
<1> SUFFICES ASSUME IInv, [Next]_vars PROVE IInv'
  OBVIOUS
<1>0. TypeOK /\ TypeOK' BY NextType DEF IInv
<1>1. ASSUME UNCHANGED <<db, queue, running, failed>> PROVE IInv'
  BY <1>0, <1>1 DEF IInv, Placed, Counted, Remembered, Unblocked, Bounded
<1>2. CASE Round
  <2>1. CASE StartRound \/ Wake BY <1>1, <2>1 DEF StartRound, Wake
  <2>2. ASSUME NEW c \in Channels, Pop(c) PROVE IInv'
    BY <1>0, <2>2, PopPasses, PopInv
  <2>3. ASSUME NEW c \in Channels, Leave(c) PROVE IInv'
    BY <1>1, <2>3 DEF Leave
  <2> QED BY <1>2, <2>1, <2>2, <2>3 DEF Round
<1>3. CASE Tick \/ UNCHANGED vars BY <1>1, <1>3 DEF Tick, vars
<1>4. ASSUME NEW j \in Jobs, RowStep(j) PROVE IInv'
  BY <1>0, <1>4, RowStepEffect, RowInv
<1> QED BY <1>2, <1>3, <1>4, NotifyInv, RestartInv, Steps

(* In every reachable state what the rows show under way is in the books,  *)
(* of every channel it came through, and the books are within capacity.    *)
THEOREM Invariant == Spec => []IInv
BY InitInv, NextInv, PTL DEF Spec

(* However late its notifications are, and whenever it starts again, the   *)
(* runner never lets the jobs enqueued or performed in a channel and its   *)
(* subchannels exceed the channel's capacity.                              *)
THEOREM CapacityIsKept == Spec => []CapacityKept
<1>1. IInv => CapacityKept
  <2> SUFFICES ASSUME IInv, NEW c \in Channels, Capacity[c] # 0
               PROVE  Cardinality(Busy(c)) <= Capacity[c]
    BY DEF CapacityKept
  <2>1. Busy(c) \subseteq running[c] /\ running[c] \in SUBSET Jobs
    BY DEF Busy, IInv, Counted, Busies, TypeOK
  <2>2. Cardinality(Busy(c)) <= Cardinality(running[c])
    BY <2>1, FiniteJobs, FS_Subset
  <2>3. Cardinality(Busy(c)) \in Nat /\ Cardinality(running[c]) \in Nat /\ Capacity[c] \in Nat
    BY <2>1, FiniteJobs, ChannelsAssumption
  <2>4. Bounded(c) BY DEF IInv
  <2> QED BY <2>2, <2>3, <2>4 DEF Bounded
<1> QED BY <1>1, Invariant, PTL

(* A sequential channel hands out no job while another of its jobs has     *)
(* failed, even if the runner does not know yet, or is under way.          *)
THEOREM SequentialOrder == Spec => SequentialBlocks
<1>1. IInv /\ [Next]_vars
        => [\A j \in Jobs : db'[j] = "enqueued" /\ db[j] # "enqueued" =>
              \A k \in Jobs \ {j} :
                ChannelOf[k] = ChannelOf[j] /\ ChannelOf[j] \in Sequential
                  => db[k] \notin {"failed", "enqueued", "started"}]_vars
  <2> SUFFICES ASSUME IInv, [Next]_vars, NEW j \in Jobs,
                      db'[j] = "enqueued", db[j] # "enqueued",
                      NEW k \in Jobs \ {j}, ChannelOf[k] = ChannelOf[j],
                      ChannelOf[j] \in Sequential
               PROVE  db[k] \notin {"failed", "enqueued", "started"}
    OBVIOUS
  <2>0. TypeOK BY DEF IInv
  <2>1. \E c \in Channels : Pop(c)
    <3>1. ASSUME NEW i \in Jobs, RowStep(i) PROVE FALSE
      <4> USE <2>0 DEF TypeOK, Moves, Released, States, Queueable, UserActs
      <4>1. CASE Start(i) BY <4>1 DEF Start
      <4>2. CASE Finish(i) BY <4>2 DEF Finish
      <4>3. CASE Postpone(i) BY <4>3 DEF Postpone
      <4>4. CASE Fail(i) BY <4>4 DEF Fail
      <4>5. CASE Dead(i) BY <4>5 DEF Dead
      <4>6. CASE ButtonDone(i) BY <4>6 DEF ButtonDone
      <4>7. CASE ButtonCancelled(i) BY <4>7 DEF ButtonCancelled
      <4>8. CASE Requeue(i) BY <4>8 DEF Requeue
      <4>9. CASE Delete(i) BY <4>9 DEF Delete
      <4> QED BY <3>1, <4>1, <4>2, <4>3, <4>4, <4>5, <4>6, <4>7, <4>8, <4>9 DEF RowStep, Works
    <3>2. ASSUME NEW i \in Jobs, Notify(i) PROVE FALSE BY <3>2 DEF Notify
    <3>3. ASSUME NEW c \in Channels, Leave(c) PROVE FALSE BY <3>3 DEF Leave
    <3>4. ~(StartRound \/ Wake \/ Restart \/ Tick \/ UNCHANGED vars)
      BY DEF StartRound, Wake, Restart, Tick, vars
    <3> QED BY <3>1, <3>2, <3>3, <3>4, Steps DEF Round
  <2>2. PICK c \in Channels, i \in Jobs : PassedFrom(c, i) BY <2>0, <2>1, PopPasses
  <2>3. i = j /\ c = Root BY <2>0, <2>2 DEF PassedFrom, TypeOK
  <2>4. j \in queue[Root] /\ HasCapacity(Root) BY <2>2, <2>3 DEF PassedFrom
  <2>5. Placed(j) /\ Unblocked(j) /\ Counted(k) BY DEF IInv
  <2>6. CASE ChannelOf[j] = Root
    BY <2>4, <2>6, Free DEF Busies
  <2>7. CASE ChannelOf[j] # Root
    <3>1. j \in running[ChannelOf[j]] BY <2>4, <2>5, <2>7, Tree, Paths DEF Placed
    <3>2. db[k] # "failed" BY <2>5, <3>1 DEF Unblocked
    <3>3. k \notin running[ChannelOf[j]] BY <3>1, One
    <3> QED BY <2>5, <3>2, <3>3, Paths DEF Counted, Busies
  <2> QED BY <2>6, <2>7
<1> QED BY <1>1, Invariant, PTL DEF Spec, SequentialBlocks
-------------------------------------------------------------------------------
(* A set of numbers has a least one: the less-than relation is well-founded. *)
LEMMA LeastNumber ==
  ASSUME NEW T \in SUBSET Nat, T # {}
  PROVE  \E x \in T : \A y \in T : x <= y
<1> DEFINE R == OpToRel(<, Nat)
<1>1. IsWellFoundedOn(R, Nat) BY NatLessThanWellFounded
<1>2. \A x, y \in Nat : y < x => <<y, x>> \in R BY DEF OpToRel
<1>3. \E x \in T : \A y \in T : ~(<<y, x>> \in R)
  <2> HIDE DEF R
  <2> QED BY <1>1, WFMin
<1>4. PICK Q : Q = R OBVIOUS
<1>5. PICK x \in T : \A y \in T : ~(<<y, x>> \in Q) BY <1>3, <1>4
<1>6. \A y \in T : ~(y < x) BY <1>2, <1>4, <1>5
<1> QED BY <1>6

-------------------------------------------------------------------------------
(* Where the manager can have a job: in the queue of one channel of its    *)
(* path, counted by all those it came through; counted by its whole path;  *)
(* among the failed jobs of its own channel; or nowhere.  This holds of    *)
(* jobs with a notification under way too, which is why reading the        *)
(* notification, and so keeping or making the job, restores the agreement. *)
InQueueOf(j, c) ==
    \A d \in Channels : /\ j \in queue[d] <=> d = c
                        /\ j \in running[d] <=> d \in Path(j) /\ c \in Up[d] /\ d # c
                        /\ j \notin failed[d]
InQueue(j) == \E c \in Path(j) : InQueueOf(j, c)

Counting(j) ==
    \A d \in Channels : /\ j \notin queue[d] /\ j \notin failed[d]
                        /\ j \in running[d] <=> d \in Path(j)

Failing(j) ==
    \A d \in Channels : /\ j \notin queue[d] /\ j \notin running[d]
                        /\ j \in failed[d] <=> d = ChannelOf[j]

Shaped(j) == InQueue(j) \/ Counting(j) \/ Failing(j) \/ ~Known(j)

Agreed(j) ==
    /\ db[j] = "pending" => InQueue(j)
    /\ db[j] \in Busies => Counting(j)
    /\ db[j] = "failed" => Failing(j)
    /\ db[j] \in {"done", "cancelled", "deleted"} => ~Known(j)

AInv ==
    /\ TypeOK
    /\ \A j \in Jobs : /\ Shaped(j)
                       /\ db[j] \in Busies => Counting(j)
                       /\ j \notin notes => Agreed(j)

LEMMA InitAgrees == Init => AInv
BY InitType DEF Init, AInv, Shaped, Known, Busies

(* The channels keep the places of job j. *)
Untouched(j) ==
    \A d \in Channels : /\ j \in queue'[d] <=> j \in queue[d]
                        /\ j \in running'[d] <=> j \in running[d]
                        /\ j \in failed'[d] <=> j \in failed[d]

LEMMA SamePlaces ==
  ASSUME NEW j \in Jobs, Untouched(j)
  PROVE  /\ InQueue(j)' <=> InQueue(j)
         /\ Counting(j)' <=> Counting(j)
         /\ Failing(j)' <=> Failing(j)
         /\ Known(j)' <=> Known(j)
<1>1. ASSUME NEW c \in Path(j) PROVE InQueueOf(j, c)' <=> InQueueOf(j, c)
  BY DEF InQueueOf, Untouched
<1>2. InQueue(j)' <=> InQueue(j) BY <1>1 DEF InQueue
<1>3. Counting(j)' <=> Counting(j) BY DEF Counting, Untouched
<1>4. Failing(j)' <=> Failing(j) BY DEF Failing, Untouched
<1>5. Known(j)' <=> Known(j) BY DEF Known, Untouched
<1> QED BY <1>2, <1>3, <1>4, <1>5

LEMMA SameAgreement ==
  ASSUME NEW j \in Jobs, Untouched(j), db'[j] = db[j]
  PROVE  /\ Shaped(j)' <=> Shaped(j)
         /\ Agreed(j)' <=> Agreed(j)
BY SamePlaces DEF Shaped, Agreed

(* The four places a notification can put its job in. *)
LEMMA RemovedFromAll ==
  ASSUME TypeOK, NEW j \in Jobs, Remove(j)
  PROVE  ~Known(j)' /\ \A k \in Jobs \ {j} : Untouched(k)
BY DEF TypeOK, Remove, Without, Known, Untouched

LEMMA Requeued ==
  ASSUME AInv, NEW j \in Jobs, NEW kept \in BOOLEAN, SetPending(j, kept)
  PROVE  InQueue(j)' /\ \A k \in Jobs \ {j} : Untouched(k)
<1> USE DEF AInv, TypeOK
<1>0. ChannelOf[j] \in Channels /\ ChannelOf[j] \in Path(j) BY ConstantsType, Paths
<1>1. \/ j \in queue[ChannelOf[j]] /\ UNCHANGED <<queue, running, failed>>
      \/ /\ queue' = [Without(queue, j) EXCEPT ![ChannelOf[j]] = @ \cup {j}]
         /\ running' = Without(running, j)
         /\ failed' = Without(failed, j)
  BY Zenon DEF SetPending
<1>2. CASE j \in queue[ChannelOf[j]] /\ UNCHANGED <<queue, running, failed>>
  <2>1. InQueue(j)
    BY <1>0, <1>2 DEF Shaped, Counting, Failing, Known
  <2>2. \A k \in Jobs : Untouched(k) BY <1>2 DEF Untouched
  <2> QED BY <2>1, <2>2, SamePlaces
<1>3. CASE /\ queue' = [Without(queue, j) EXCEPT ![ChannelOf[j]] = @ \cup {j}]
           /\ running' = Without(running, j)
           /\ failed' = Without(failed, j)
  <2>1. \A c \in Channels : queue'[c] = IF c = ChannelOf[j] THEN (queue[c] \ {j}) \cup {j}
                                                        ELSE queue[c] \ {j}
    BY <1>0, <1>3 DEF Without
  <2>2. \A c \in Channels : running'[c] = running[c] \ {j} /\ failed'[c] = failed[c] \ {j}
    BY <1>3 DEF Without
  <2>3. \A d \in Path(j) : ChannelOf[j] \in Up[d] => d = ChannelOf[j]
    BY <1>0, Paths, Tree
  <2>4. InQueueOf(j, ChannelOf[j])'
    <3>1. ASSUME NEW d \in Channels PROVE j \in queue'[d] <=> d = ChannelOf[j]
      <4>1. CASE d = ChannelOf[j] BY <2>1, <4>1
      <4>2. CASE d # ChannelOf[j]
        <5>1. queue'[d] = queue[d] \ {j} BY <2>1, <4>2
        <5> QED BY <4>2, <5>1
      <4> QED BY <4>1, <4>2
    <3>2. ASSUME NEW d \in Channels PROVE j \notin running'[d] /\ j \notin failed'[d]
      BY <2>2
    <3> QED BY <2>3, <3>1, <3>2, Zenon DEF InQueueOf
  <2>5. \A k \in Jobs \ {j} : Untouched(k)
    BY <2>1, <2>2 DEF Untouched
  <2> QED BY <1>0, <2>4, <2>5 DEF InQueue
<1> QED BY <1>1, <1>2, <1>3

LEMMA CountedOn ==
  ASSUME AInv, NEW j \in Jobs, Counting(j), SetRunning(j, Kept(j))
  PROVE  Counting(j)' /\ \A k \in Jobs \ {j} : Untouched(k)
<1> USE DEF AInv, TypeOK
<1>1. Reached(j, Kept(j)) \subseteq Path(j) BY DEF Reached
<1>2. \A c \in Channels :
        /\ queue'[c] \subseteq queue[c] /\ queue[c] \ {j} \subseteq queue'[c]
        /\ failed'[c] \subseteq failed[c] /\ failed[c] \ {j} \subseteq failed'[c]
        /\ running[c] \subseteq running'[c]
        /\ running'[c] \subseteq running[c] \cup (IF c \in Path(j) THEN {j} ELSE {})
  BY <1>1 DEF SetRunning
<1>3. Counting(j)' BY <1>2 DEF Counting
<1>4. \A k \in Jobs \ {j} : Untouched(k) BY <1>2 DEF Untouched
<1> QED BY <1>3, <1>4

LEMMA MovedToFailed ==
  ASSUME AInv, NEW j \in Jobs, NEW kept \in BOOLEAN, SetFailed(j, kept)
  PROVE  Failing(j)' /\ \A k \in Jobs \ {j} : Untouched(k)
<1> USE DEF AInv, TypeOK
<1>0. ChannelOf[j] \in Channels BY ConstantsType
<1>1. \/ j \in failed[ChannelOf[j]] /\ UNCHANGED <<queue, running, failed>>
      \/ /\ failed' = [Without(failed, j) EXCEPT ![ChannelOf[j]] = @ \cup {j}]
         /\ running' = Without(running, j)
         /\ queue' = Without(queue, j)
  BY Zenon DEF SetFailed
<1>2. CASE j \in failed[ChannelOf[j]] /\ UNCHANGED <<queue, running, failed>>
  <2>1. Failing(j)
    BY <1>0, <1>2 DEF Shaped, InQueue, InQueueOf, Counting, Known
  <2>2. \A k \in Jobs : Untouched(k) BY <1>2 DEF Untouched
  <2> QED BY <2>1, <2>2, SamePlaces
<1>3. CASE /\ failed' = [Without(failed, j) EXCEPT ![ChannelOf[j]] = @ \cup {j}]
           /\ running' = Without(running, j)
           /\ queue' = Without(queue, j)
  <2>1. \A c \in Channels : failed'[c] = IF c = ChannelOf[j] THEN (failed[c] \ {j}) \cup {j}
                                                         ELSE failed[c] \ {j}
    BY <1>0, <1>3 DEF Without
  <2>2. \A c \in Channels : running'[c] = running[c] \ {j} /\ queue'[c] = queue[c] \ {j}
    BY <1>3 DEF Without
  <2>3. Failing(j)'
    <3>1. ASSUME NEW d \in Channels PROVE j \in failed'[d] <=> d = ChannelOf[j]
      <4>1. CASE d = ChannelOf[j] BY <2>1, <4>1
      <4>2. CASE d # ChannelOf[j]
        <5>1. failed'[d] = failed[d] \ {j} BY <2>1, <4>2
        <5> QED BY <4>2, <5>1
      <4> QED BY <4>1, <4>2
    <3>2. ASSUME NEW d \in Channels PROVE j \notin running'[d] /\ j \notin queue'[d]
      BY <2>2
    <3> QED BY <3>1, <3>2, Zenon DEF Failing
  <2>4. \A k \in Jobs \ {j} : Untouched(k) BY <2>1, <2>2 DEF Untouched
  <2> QED BY <2>3, <2>4
<1> QED BY <1>1, <1>2, <1>3

(* Whether the manager keeps its job or makes it anew, what it reads is    *)
(* what it has afterwards.                                                 *)
LEMMA NotifyAgrees ==
  ASSUME AInv, NEW j \in Jobs, Notify(j)
  PROVE  AInv'
<1>0. TypeOK /\ TypeOK' /\ db' = db /\ notes' = notes \ {j}
  BY NotifyType DEF AInv, Notify
<1>1. /\ Shaped(j)' /\ Agreed(j)'
      /\ \A k \in Jobs \ {j} : Untouched(k)
  <2> USE DEF Busies
  <2>1. CASE db[j] \in {"done", "cancelled", "deleted"} /\ Remove(j)
    BY <1>0, <2>1, RemovedFromAll DEF Shaped, Agreed
  <2>2. CASE db[j] = "pending" /\ SetPending(j, Kept(j))
    BY <1>0, <2>2, Requeued, KeptType DEF Shaped, Agreed
  <2>3. CASE db[j] \in {"enqueued", "started"} /\ SetRunning(j, Kept(j))
    <3>1. Counting(j) BY <2>3 DEF AInv
    <3> QED BY <1>0, <2>3, <3>1, CountedOn DEF Shaped, Agreed
  <2>4. CASE db[j] = "failed" /\ SetFailed(j, Kept(j))
    BY <1>0, <2>4, MovedToFailed, KeptType DEF Shaped, Agreed
  <2>5. CASE db[j] = "wait_dependencies" /\ SetWaiting(j, Kept(j))
    <3>1. CASE Remove(j) BY <1>0, <2>5, <3>1, RemovedFromAll DEF Shaped, Agreed
    <3>2. CASE UNCHANGED <<queue, running, failed>>
      <4>1. \A k \in Jobs : Untouched(k) BY <3>2 DEF Untouched
      <4>2. Shaped(j) BY DEF AInv
      <4> QED BY <1>0, <2>5, <4>1, <4>2, SameAgreement DEF Agreed
    <3> QED BY <2>5, <3>1, <3>2 DEF SetWaiting
  <2> QED BY <1>0, <2>1, <2>2, <2>3, <2>4, <2>5, Outcome
<1>2. ASSUME NEW k \in Jobs
      PROVE  /\ Shaped(k)'
             /\ db'[k] \in Busies => Counting(k)'
             /\ k \notin notes' => Agreed(k)'
  <2>1. CASE k = j BY <1>1, <2>1 DEF Agreed
  <2>2. CASE k # j
    <3>1. Untouched(k) /\ db'[k] = db[k] BY <1>0, <1>1, <2>2
    <3>2. k \notin notes' => k \notin notes BY <1>0, <2>2
    <3> QED BY <3>1, <3>2, SamePlaces, SameAgreement DEF AInv
  <2> QED BY <2>1, <2>2
<1> QED BY <1>0, <1>2 DEF AInv
(* What leaves a channel is queued in its parent, or counts everywhere when *)
(* it leaves the root.                                                      *)
LEMMA PassedOn ==
  ASSUME AInv, NEW c \in Channels, NEW j \in Jobs, PassedFrom(c, j)
  PROVE  /\ InQueueOf(j, c)
         /\ c # Root => \E p \in Path(j) : InQueueOf(j, p)'
         /\ c = Root => Counting(j)'
         /\ \A k \in Jobs \ {j} : Untouched(k)
<1> USE DEF AInv, TypeOK
<1>0. Path(j) \subseteq Channels /\ ChannelOf[j] \in Channels BY Paths, ConstantsType
<1>1. j \in queue[c] BY DEF PassedFrom
<1>2. InQueue(j) BY <1>1 DEF Shaped, Counting, Failing, Known
<1>3. PICK e \in Path(j) : InQueueOf(j, e) BY <1>2 DEF InQueue
<1>4. e = c BY <1>1, <1>3 DEF InQueueOf
<1>5. InQueueOf(j, c) /\ c \in Path(j) BY <1>3, <1>4
<1>6. \A d \in Channels :
        /\ failed'[d] = failed[d]
        /\ running'[d] = IF d = c THEN running[d] \cup {j} ELSE running[d]
        /\ queue'[d] = IF d = c THEN queue[d] \ {j}
                       ELSE IF IsParent(d, c) THEN queue[d] \cup {j} ELSE queue[d]
  BY DEF PassedFrom
<1>7. \A k \in Jobs \ {j} : Untouched(k) BY <1>6 DEF Untouched
<1>8. ASSUME NEW d \in Channels PROVE j \in running'[d] <=> d \in Path(j) /\ c \in Up[d]
  <2>1. j \in running[d] <=> d \in Path(j) /\ c \in Up[d] /\ d # c
    BY <1>5 DEF InQueueOf
  <2>2. c \in Up[c] BY Tree
  <2>3. CASE d = c BY <1>5, <1>6, <2>2, <2>3
  <2>4. CASE d # c BY <1>6, <2>1, <2>4
  <2> QED BY <2>3, <2>4
<1>9. ASSUME c # Root PROVE \E p \in Path(j) : InQueueOf(j, p)'
  <2>1. PICK p \in Channels : IsParent(p, c)
    <3>1. PICK p \in Chain(c) : Up[p] = Chain(c) BY <1>9, ChannelsAssumption
    <3> QED BY <3>1, Tree DEF IsParent
  <2>2. p \in Up[c] /\ p # c /\ Up[p] = Up[c] \ {c} BY <2>1 DEF IsParent
  <2>3. p \in Path(j) BY <1>0, <1>5, <2>2, Tree
  <2>4. ASSUME NEW d \in Channels, IsParent(d, c) PROVE d = p
    <3>1. d # c /\ d \in Up[c] /\ Up[d] = Up[p] BY <2>2, <2>4 DEF IsParent
    <3>2. d \in Up[p] /\ p \in Up[d] BY <3>1, Tree
    <3> QED BY <3>2, Tree
  <2>5. ASSUME NEW d \in Channels PROVE j \in queue'[d] <=> d = p
    <3>1. j \in queue[d] <=> d = c BY <1>5 DEF InQueueOf
    <3>2. CASE d = c BY <1>6, <2>2, <3>2
    <3>3. CASE d = p BY <1>6, <2>1, <2>2, <3>3
    <3>4. CASE d # c /\ d # p
      <4>1. queue'[d] = queue[d] BY <1>6, <2>4, <3>4
      <4> QED BY <3>1, <3>4, <4>1
    <3> QED BY <3>2, <3>3, <3>4
  <2>6. ASSUME NEW d \in Path(j) PROVE c \in Up[d] <=> p \in Up[d] /\ d # p
    <3>1. c \in Up[d] \/ d \in Up[c] BY <1>0, <1>5, Tree
    <3>2. ASSUME c \in Up[d] PROVE p \in Up[d] /\ d # p
      <4>1. p \in Up[d] BY <1>0, <2>2, <3>2, Tree
      <4>2. d # p BY <2>2, <3>2
      <4> QED BY <4>1, <4>2
    <3>3. ASSUME p \in Up[d], d # p, c \notin Up[d] PROVE FALSE
      <4>1. d \in Up[c] /\ d # c BY <1>0, <3>1, <3>3, Tree
      <4>2. d \in Up[p] BY <2>2, <4>1
      <4> QED BY <1>0, <3>3, <4>2, Tree
    <3> QED BY <3>2, <3>3
  <2>7. ASSUME NEW d \in Channels PROVE j \in running'[d] <=> d \in Path(j) /\ p \in Up[d] /\ d # p
    BY <1>8, <2>6
  <2>8. \A d \in Channels : j \notin failed'[d] BY <1>5, <1>6 DEF InQueueOf
  <2>9. InQueueOf(j, p)' BY <2>5, <2>7, <2>8, Zenon DEF InQueueOf
  <2> QED BY <2>3, <2>9
<1>10. ASSUME c = Root PROVE Counting(j)'
  <2>1. \A d \in Channels : ~IsParent(d, c)
    BY <1>10, Tree DEF IsParent
  <2>2. \A d \in Channels : j \notin queue'[d] /\ j \notin failed'[d]
    BY <1>5, <1>6, <2>1 DEF InQueueOf
  <2>3. \A d \in Channels : j \in running'[d] <=> d \in Path(j)
    BY <1>8, <1>10, Tree
  <2> QED BY <2>2, <2>3, Zenon DEF Counting
<1> QED BY <1>5, <1>7, <1>9, <1>10

LEMMA PopAgrees ==
  ASSUME AInv, TypeOK', NEW c \in Channels, NEW j \in Jobs, PassedFrom(c, j),
         notes \subseteq notes', c = Root => j \in notes'
  PROVE  AInv'
<1>1. TypeOK /\ \A k \in Jobs \ {j} : db'[k] = db[k] BY DEF AInv, TypeOK, PassedFrom
<1>2. ASSUME NEW k \in Jobs \ {j}
      PROVE  /\ Shaped(k)'
             /\ db'[k] \in Busies => Counting(k)'
             /\ k \notin notes' => Agreed(k)'
  BY <1>1, PassedOn, SamePlaces, SameAgreement DEF AInv
<1>3. /\ Shaped(j)'
      /\ db'[j] \in Busies => Counting(j)'
      /\ j \notin notes' => Agreed(j)'
  <2>1. CASE c = Root BY <2>1, PassedOn DEF Shaped
  <2>2. CASE c # Root
    <3>1. InQueue(j)' BY <2>2, PassedOn DEF InQueue
    <3>2. db' = db BY <2>2 DEF PassedFrom
    <3>3. j \in queue[c] BY DEF PassedFrom
    <3>4. db[j] \notin Busies BY <3>3 DEF AInv, Counting
    <3>5. j \notin notes => db[j] \notin {"failed", "done", "cancelled", "deleted"}
      BY <3>3 DEF AInv, Agreed, Failing, Known
    <3> QED BY <3>1, <3>2, <3>4, <3>5 DEF Shaped, Agreed
  <2> QED BY <2>1, <2>2
<1> QED BY <1>2, <1>3 DEF AInv

(* What a step of workers or users changes is notified, but for the        *)
(* deletion of a job that is done, which no channel has.                   *)
RowNotes ==
    /\ notes \subseteq notes'
    /\ \A k \in Jobs : db'[k] = db[k] \/ k \in notes' \/ (db[k] = "done" /\ db'[k] = "deleted")

LEMMA RowStepNotes ==
  ASSUME TypeOK, NEW j \in Jobs, RowStep(j)
  PROVE  RowNotes
<1> USE DEF TypeOK, Moves, RowNotes
<1>1. CASE Start(j) BY <1>1 DEF Start
<1>2. CASE Finish(j) BY <1>2 DEF Finish
<1>3. CASE Postpone(j) BY <1>3 DEF Postpone
<1>4. CASE Fail(j) BY <1>4 DEF Fail
<1>5. CASE Dead(j) BY <1>5 DEF Dead
<1>6. CASE ButtonDone(j) BY <1>6 DEF ButtonDone
<1>7. CASE ButtonCancelled(j) BY <1>7 DEF ButtonCancelled
<1>8. CASE Requeue(j) BY <1>8 DEF Requeue
<1>9. CASE Delete(j) BY <1>9 DEF Delete
<1> QED BY <1>1, <1>2, <1>3, <1>4, <1>5, <1>6, <1>7, <1>8, <1>9 DEF RowStep, Works

LEMMA RowAgrees ==
  ASSUME AInv, TypeOK', RowEffect, RowNotes
  PROVE  AInv'
<1>1. \A k \in Jobs : Untouched(k) BY DEF RowEffect, Untouched
<1>2. ASSUME NEW k \in Jobs
      PROVE  /\ Shaped(k)'
             /\ db'[k] \in Busies => Counting(k)'
             /\ k \notin notes' => Agreed(k)'
  <2>1. Shaped(k)' BY <1>1, SamePlaces DEF AInv, Shaped
  <2>2. db'[k] \in Busies => Counting(k)' BY <1>1, SamePlaces DEF AInv, RowEffect
  <2>3. ASSUME k \notin notes' PROVE Agreed(k)'
    <3>1. Agreed(k) BY <2>3 DEF AInv, RowNotes
    <3>2. CASE db'[k] = db[k] BY <1>1, <3>1, <3>2, SameAgreement
    <3>3. CASE db[k] = "done" /\ db'[k] = "deleted"
      <4>1. ~Known(k)' BY <1>1, <3>1, <3>3, SamePlaces DEF Agreed
      <4> QED BY <3>3, <4>1 DEF Agreed, Busies
    <3> QED BY <2>3, <3>2, <3>3 DEF RowNotes
  <2> QED BY <2>1, <2>2, <2>3
<1> QED BY <1>2 DEF AInv

LEMMA RestartAgrees ==
  ASSUME AInv, Restart
  PROVE  AInv'
<1>0. TypeOK /\ TypeOK' /\ db' = db BY RoundType DEF AInv, Restart
<1>1. ASSUME NEW c \in Channels, NEW j \in Jobs
      PROVE  /\ j \in queue'[c] <=> ChannelOf[j] = c /\ db[j] = "pending"
             /\ j \in running'[c] <=> c \in Path(j) /\ db[j] \in Busies
             /\ j \in failed'[c] <=> ChannelOf[j] = c /\ db[j] = "failed"
  BY DEF Restart, Busies
<1>2. ASSUME NEW j \in Jobs PROVE Agreed(j)' /\ Shaped(j)'
  <2>0. ChannelOf[j] \in Channels /\ ChannelOf[j] \in Path(j) BY Paths, ConstantsType
  <2>1. CASE db[j] = "pending"
    <3>1. \A d \in Path(j) : ChannelOf[j] \in Up[d] => d = ChannelOf[j]
      BY <2>0, Paths, Tree
    <3>2. InQueueOf(j, ChannelOf[j])'
      BY <1>1, <2>1, <3>1 DEF InQueueOf, Busies
    <3>3. InQueue(j)' BY <2>0, <3>2 DEF InQueue
    <3> QED BY <1>0, <2>1, <3>3 DEF Shaped, Agreed, Busies
  <2>2. CASE db[j] \in Busies
    <3>1. Counting(j)' BY <1>1, <2>2 DEF Counting, Busies
    <3> QED BY <1>0, <2>2, <3>1 DEF Shaped, Agreed, Busies
  <2>3. CASE db[j] = "failed"
    <3>1. Failing(j)' BY <1>1, <2>3 DEF Failing, Busies
    <3> QED BY <1>0, <2>3, <3>1 DEF Shaped, Agreed, Busies
  <2>4. CASE db[j] \notin Busies \cup {"pending", "failed"}
    <3>1. ~Known(j)' BY <1>1, <2>4 DEF Known
    <3> QED BY <1>0, <2>4, <3>1 DEF Shaped, Agreed, Busies
  <2> QED BY <2>1, <2>2, <2>3, <2>4
<1>3. \A j \in Jobs : db'[j] \in Busies => Counting(j)' BY <1>2 DEF Agreed
<1> QED BY <1>0, <1>2, <1>3 DEF AInv

LEMMA NextAgrees == AInv /\ [Next]_vars => AInv'
<1> SUFFICES ASSUME AInv, [Next]_vars PROVE AInv'
  OBVIOUS
<1>0. TypeOK /\ TypeOK' BY NextType DEF AInv
<1>1. ASSUME UNCHANGED <<db, notes, queue, running, failed>> PROVE AInv'
  <2>1. \A k \in Jobs : Untouched(k) BY <1>1 DEF Untouched
  <2> QED BY <1>0, <1>1, <2>1, SamePlaces, SameAgreement DEF AInv
<1>2. CASE Round
  <2>1. CASE StartRound \/ Wake BY <1>1, <2>1 DEF StartRound, Wake
  <2>2. ASSUME NEW c \in Channels, Pop(c) PROVE AInv'
    <3>1. PICK j \in Jobs : PassedFrom(c, j) /\ (c = Root => j \in notes')
      <4>1. PICK j \in Ready(c) :
              /\ queue' = [d \in Channels |-> IF d = c THEN queue[d] \ {j}
                                              ELSE IF IsParent(d, c) THEN queue[d] \cup {j}
                                              ELSE queue[d]]
              /\ running' = [running EXCEPT ![c] = @ \cup {j}]
              /\ IF c = Root THEN Enqueue(j) ELSE UNCHANGED <<db, notes>>
        BY <2>2 DEF Pop
      <4>2. j \in queue[c] /\ j \in Jobs BY <1>0 DEF Ready, Late, TypeOK
      <4>3. HasCapacity(c) /\ failed' = failed BY <2>2 DEF Pop, CanPop
      <4> QED BY <4>1, <4>2, <4>3 DEF PassedFrom, Enqueue
    <3>2. notes \subseteq notes' BY <2>2 DEF Pop, Enqueue
    <3> QED BY <1>0, <3>1, <3>2, PopAgrees
  <2>3. ASSUME NEW c \in Channels, Leave(c) PROVE AInv'
    BY <1>1, <2>3 DEF Leave
  <2> QED BY <1>2, <2>1, <2>2, <2>3 DEF Round
<1>3. CASE Tick \/ UNCHANGED vars BY <1>1, <1>3 DEF Tick, vars
<1>4. ASSUME NEW j \in Jobs, RowStep(j) PROVE AInv'
  BY <1>0, <1>4, RowStepEffect, RowStepNotes, RowAgrees
<1> QED BY <1>2, <1>3, <1>4, NotifyAgrees, RestartAgrees, Steps

(* The manager's picture of a job is that of the row whenever no           *)
(* notification about it is under way: across restarts, deletions that are *)
(* never notified, etas that make the manager build its job anew, and jobs *)
(* enqueued by their uuid alone.                                           *)
THEOREM PictureAgrees == Spec => []ManagerAgrees
<1>1. AInv => ManagerAgrees
  <2> SUFFICES ASSUME AInv, NEW j \in Jobs \ notes
               PROVE  /\ db[j] = "pending" =>
                           \E c \in Path(j) : /\ j \in queue[c]
                                            /\ \A d \in Path(j) \ {c} : j \in running[d] <=> c \in Up[d]
                      /\ db[j] \in Busies => \A c \in Channels : j \in running[c] <=> c \in Path(j)
                      /\ db[j] = "failed" => \A c \in Channels : j \in failed[c] <=> c = ChannelOf[j]
                      /\ db[j] \in {"done", "cancelled", "deleted"} => ~Known(j)
                      /\ db[j] \in States
    BY DEF ManagerAgrees, Busies, States
  <2>1. Agreed(j) /\ db[j] \in States BY DEF AInv, TypeOK
  <2>2. db[j] = "pending" =>
          \E c \in Path(j) : /\ j \in queue[c]
                           /\ \A d \in Path(j) \ {c} : j \in running[d] <=> c \in Up[d]
    <3> SUFFICES ASSUME db[j] = "pending"
                 PROVE  \E c \in Path(j) : /\ j \in queue[c]
                                         /\ \A d \in Path(j) \ {c} : j \in running[d] <=> c \in Up[d]
      OBVIOUS
    <3>1. PICK c \in Path(j) : InQueueOf(j, c) BY <2>1 DEF Agreed, InQueue
    <3>2. Path(j) \subseteq Channels BY Paths
    <3> WITNESS c \in Path(j)
    <3> QED BY <3>1, <3>2 DEF InQueueOf
  <2> QED BY <2>1, <2>2 DEF Agreed, Counting, Failing
<1>2. AInv /\ [Next]_vars => AInv' BY NextAgrees
<1> QED BY <1>1, <1>2, InitAgrees, PTL DEF Spec

-------------------------------------------------------------------------------
(* When a round is over at a channel: no job can leave it before a pause   *)
(* is over, a notification is read, or an eta is past.                     *)
Exhausted(c) ==
    \/ pause[c] # 0
    \/ ~HasCapacity(c)
    \/ \A j \in queue[c] : wait[j] # 0
    \/ /\ c \in Sequential
       /\ \E f \in queue[c] : /\ wait[f] # 0
                              /\ \A j \in queue[c] : IF wait[j] = 0 THEN f < j
                                                                    ELSE Before(f, j)

(* The turn of a channel in a round. *)
Turn(c) == CHOOSE i \in 1..Len(Visits) : Visits[i] = c

(* What makes SleepsWell inductive: the channels whose turn is over.  Only *)
(* a channel with a throttle is ever paused.                               *)
WInv ==
    /\ AInv
    /\ \A c \in Channels : /\ Throttle[c] = 0 => pause[c] = 0
                           /\ Turn(c) < turn => Exhausted(c)

LEMMA Turns ==
  ASSUME NEW c \in Channels
  PROVE  /\ Turn(c) \in 1..Len(Visits) /\ Turn(c) \in Nat /\ Turn(c) < Asleep
         /\ \A k \in 1..Len(Visits) : Visits[k] = c <=> k = Turn(c)
         /\ \A d \in Chain(c) : d \in Channels /\ Turn(c) < Turn(d)
<1>1. \A d \in Channels : \E i \in 1..Len(Visits) :
        /\ Visits[i] = d /\ i = Turn(d)
        /\ \A k \in 1..Len(Visits) : /\ Visits[k] = d => k = i
                                     /\ Visits[k] \in Chain(d) => i < k
  <2> SUFFICES ASSUME NEW d \in Channels
               PROVE  \E i \in 1..Len(Visits) :
                        /\ Visits[i] = d /\ i = Turn(d)
                        /\ \A k \in 1..Len(Visits) : /\ Visits[k] = d => k = i
                                                     /\ Visits[k] \in Chain(d) => i < k
    OBVIOUS
  <2>1. PICK i \in 1..Len(Visits) :
          /\ Visits[i] = d
          /\ \A k \in 1..Len(Visits) : /\ Visits[k] = d => k = i
                                       /\ Visits[k] \in Chain(d) => i < k
    BY ConfigurationAssumption
  <2>2. i = Turn(d) BY <2>1 DEF Turn
  <2> QED BY <2>1, <2>2
<1>2. \A d \in Chain(c) : d \in Channels BY ChannelsAssumption
<1>3. \A d \in Chain(c) : Turn(c) < Turn(d) BY <1>1, <1>2
<1>4. /\ Turn(c) \in 1..Len(Visits)
      /\ \A k \in 1..Len(Visits) : Visits[k] = c <=> k = Turn(c)
  BY <1>1
<1> QED BY <1>2, <1>3, <1>4, TurnType

(* Of some channels, one has none of the others downstream of it. *)
LEMMA Lowest ==
  ASSUME NEW S \in SUBSET Channels, S # {}
  PROVE  \E d \in S : \A e \in S : e \notin Chain(d)
<1> DEFINE T == {Len(Visits) - Turn(d) : d \in S}
<1>1. Len(Visits) \in Nat BY TurnType
<1>2. T \in SUBSET Nat
  <2>1. \A d \in S : Turn(d) \in Nat /\ Turn(d) <= Len(Visits) BY <1>1, Turns
  <2> QED BY <1>1, <2>1
<1>3. T # {} OBVIOUS
<1>4. PICK x \in T : \A y \in T : x <= y
  <2> HIDE DEF T
  <2> QED BY <1>2, <1>3, LeastNumber
<1>5. PICK d \in S : x = Len(Visits) - Turn(d) BY <1>4
<1>6. ASSUME NEW e \in S, e \in Chain(d) PROVE FALSE
  <2>1. Turn(d) < Turn(e) /\ Turn(d) \in Nat /\ Turn(e) \in Nat BY <1>6, Turns
  <2>2. x <= Len(Visits) - Turn(e) BY <1>4
  <2> QED BY <1>1, <1>5, <2>1, <2>2
<1> QED BY <1>6

LEMMA SameChannel ==
  ASSUME NEW c \in Channels, pause'[c] = pause[c], queue'[c] = queue[c],
         running'[c] = running[c], failed'[c] = failed[c],
         \A j \in queue[c] : wait'[j] = wait[j]
  PROVE  Exhausted(c)' <=> Exhausted(c)
<1>1. HasCapacity(c)' <=> HasCapacity(c) BY DEF HasCapacity
<1>2. \A f, j \in queue[c] : Before(f, j)' <=> Before(f, j) BY DEF Before
<1> QED BY <1>1, <1>2 DEF Exhausted

LEMMA OneQueue ==
  ASSUME AInv, NEW j \in Jobs, NEW c \in Channels, NEW d \in Channels,
         j \in queue[c], j \in queue[d]
  PROVE  c = d
<1>1. InQueue(j) BY DEF AInv, Shaped, Counting, Failing, Known
<1> QED BY <1>1 DEF InQueue, InQueueOf

(* A visit changes nothing at the channels whose turn is over. *)
LEMMA VisitKeeps ==
  ASSUME WInv, NEW c \in Channels, Pop(c) \/ Leave(c), NEW d \in Channels, Turn(d) < Turn(c)
  PROVE  /\ pause'[d] = pause[d] /\ queue'[d] = queue[d]
         /\ running'[d] = running[d] /\ failed'[d] = failed[d]
         /\ \A j \in queue[d] : wait'[j] = wait[j]
<1>1. d # c /\ ~IsParent(d, c)
  <2>1. d # c BY Turns
  <2>2. ASSUME d \in Chain(c) PROVE FALSE
    <3>1. Turn(c) < Turn(d) /\ Turn(c) \in Nat /\ Turn(d) \in Nat BY <2>2, Turns
    <3> QED BY <3>1
  <2> QED BY <2>1, <2>2 DEF IsParent
<1>2. TypeOK BY DEF WInv, AInv
<1>3. \A j \in queue[d] : wait'[j] = wait[j]
  <2>1. ASSUME NEW j \in queue[d] PROVE j \in Jobs /\ j \notin Ready(c)
    <3>1. j \in Jobs BY <1>2 DEF TypeOK
    <3>2. j \notin queue[c] BY <1>1, <3>1, OneQueue DEF WInv
    <3> QED BY <3>1, <3>2 DEF Ready
  <2>2. wait' = Competing(c) BY DEF Pop, Leave
  <2> QED BY <2>1, <2>2 DEF Competing
<1>4. CASE Leave(c) BY <1>1, <1>2, <1>3, <1>4 DEF Leave, TypeOK
<1>5. CASE Pop(c)
  <2>1. \E j \in Ready(c) :
         /\ queue' = [e \in Channels |-> IF e = c THEN queue[e] \ {j}
                                         ELSE IF IsParent(e, c) THEN queue[e] \cup {j}
                                         ELSE queue[e]]
         /\ running' = [running EXCEPT ![c] = @ \cup {j}]
    BY <1>5 DEF Pop
  <2>2. queue'[d] = queue[d] /\ running'[d] = running[d] BY <1>1, <1>2, <2>1 DEF TypeOK
  <2>3. pause'[d] = pause[d] /\ failed' = failed BY <1>1, <1>2, <1>5 DEF Pop, TypeOK
  <2> QED BY <1>3, <2>2, <2>3
<1> QED BY <1>4, <1>5

(* A channel that is left is exhausted.                                    *)
LEMMA LeaveExhausts ==
  ASSUME WInv, NEW c \in Channels, Leave(c)
  PROVE  Exhausted(c)'
<1>1. TypeOK BY DEF WInv, AInv
<1>2. /\ queue' = queue /\ running' = running /\ failed' = failed /\ now' = now
      /\ wait' = Competing(c) /\ pause'[c] = IF Paused(c) THEN pause[c] ELSE 0
  BY <1>1 DEF Leave, TypeOK
<1>3. queue[c] \in SUBSET Jobs /\ wait \in [Jobs -> Nat] /\ now \in Nat /\ pause[c] \in Nat
      /\ Throttle[c] \in Nat
  BY <1>1, ConstantsType DEF TypeOK
<1>4. CASE Paused(c) BY <1>2, <1>3, <1>4 DEF Paused, Exhausted
<1>5. CASE ~HasCapacity(c)
  <2>1. ~HasCapacity(c)' BY <1>2, <1>5 DEF HasCapacity
  <2> QED BY <2>1 DEF Exhausted
<1>6. CASE Popping(c)
  <2>1. \A j \in queue[c] : /\ j \in Late(c) => wait[j] > now /\ wait'[j] = wait[j]
                            /\ j \notin Late(c) => wait'[j] = 0
    BY <1>2, <1>3, <1>6 DEF Competing, Ready, Late
  <2>2. Ready(c) = {} \/ HeldBack(c) BY <1>6 DEF Leave, CanPop, Popping
  <2>3. CASE Ready(c) = {}
    <3>1. \A j \in queue[c] : wait'[j] # 0 BY <1>3, <2>1, <2>3 DEF Ready
    <3> QED BY <1>2, <3>1 DEF Exhausted
  <2>4. CASE HeldBack(c)
    <3>1. PICK f \in Late(c) : /\ \A j \in Late(c) : Before(f, j)
                               /\ \A j \in Ready(c) : f < j
      BY <2>4 DEF HeldBack
    <3>2. f \in queue[c] /\ wait'[f] = wait[f] /\ wait[f] > now BY <2>1 DEF Late
    <3>3. ASSUME NEW j \in queue[c]
          PROVE  IF wait'[j] = 0 THEN f < j ELSE Before(f, j)'
      <4>1. CASE j \in Late(c)
        <5>1. wait'[j] = wait[j] /\ wait[j] # 0 BY <1>3, <2>1, <4>1
        <5>2. Before(f, j)' BY <3>1, <3>2, <4>1, <5>1 DEF Before
        <5> QED BY <5>1, <5>2
      <4>2. CASE j \notin Late(c) BY <2>1, <3>1, <4>2 DEF Ready
      <4> QED BY <4>1, <4>2
    <3>4. c \in Sequential /\ wait'[f] # 0 BY <1>3, <2>4, <3>2 DEF HeldBack
    <3> QED BY <1>2, <3>2, <3>3, <3>4 DEF Exhausted
  <2> QED BY <2>2, <2>3, <2>4
<1> QED BY <1>4, <1>5, <1>6 DEF Popping
LEMMA RoundKeepsSleep ==
  ASSUME WInv, TypeOK', AInv', NEW c \in Channels, Pop(c) \/ Leave(c)
  PROVE  WInv'
<1>1. /\ turn \in 1..Len(Visits) /\ turn = Turn(c) /\ turn \in Nat
      /\ turn' \in {turn, turn + 1}
  BY Turns DEF Pop, Leave, Visiting
<1>2. ASSUME NEW d \in Channels, Throttle[d] = 0 PROVE pause'[d] = 0
  <2>1. pause[d] = 0 /\ pause \in [Channels -> Nat] BY <1>2 DEF WInv, AInv, TypeOK
  <2> QED BY <1>2, <2>1 DEF Pop, Leave
<1>3. ASSUME NEW d \in Channels, d # c, Turn(d) < turn' PROVE Exhausted(d)'
  <2>1. Turn(d) # Turn(c) /\ Turn(d) \in Nat BY <1>3, Turns
  <2>2. Turn(d) < turn BY <1>1, <1>3, <2>1
  <2>3. Exhausted(d) BY <2>2 DEF WInv
  <2> QED BY <1>1, <2>2, <2>3, VisitKeeps, SameChannel
<1>4. ASSUME Turn(c) < turn' PROVE Exhausted(c)'
  <2>1. CASE Leave(c) BY <2>1, LeaveExhausts
  <2>2. CASE Pop(c)
    <3>1. Throttle[c] > 0 /\ Throttle[c] \in Nat
      BY <1>1, <1>4, <2>2, ConstantsType DEF Pop
    <3>2. pause'[c] = now + Throttle[c] /\ now \in Nat
      BY <2>2, <3>1 DEF Pop, WInv, AInv, TypeOK
    <3> QED BY <3>1, <3>2 DEF Exhausted
  <2> QED BY <2>1, <2>2
<1> QED BY <1>2, <1>3, <1>4 DEF WInv

LEMMA RowStepKeeps ==
  ASSUME NEW j \in Jobs, RowStep(j)
  PROVE  UNCHANGED <<queue, running, failed, wait, pause, turn>>
<1> USE DEF Moves
<1>1. CASE Start(j) BY <1>1 DEF Start
<1>2. CASE Finish(j) BY <1>2 DEF Finish
<1>3. CASE Postpone(j) BY <1>3 DEF Postpone
<1>4. CASE Fail(j) BY <1>4 DEF Fail
<1>5. CASE Dead(j) BY <1>5 DEF Dead
<1>6. CASE ButtonDone(j) BY <1>6 DEF ButtonDone
<1>7. CASE ButtonCancelled(j) BY <1>7 DEF ButtonCancelled
<1>8. CASE Requeue(j) BY <1>8 DEF Requeue
<1>9. CASE Delete(j) BY <1>9 DEF Delete
<1> QED BY <1>1, <1>2, <1>3, <1>4, <1>5, <1>6, <1>7, <1>8, <1>9 DEF RowStep, Works

LEMMA InitSleep == Init => WInv
<1> SUFFICES ASSUME Init PROVE WInv OBVIOUS
<1>1. ASSUME NEW c \in Channels PROVE pause[c] = 0 /\ ~(Turn(c) < turn)
  <2>1. Turn(c) \in 1..Len(Visits) BY Turns
  <2> QED BY <2>1 DEF Init
<1> QED BY <1>1, InitAgrees DEF WInv

LEMMA NextSleep == WInv /\ [Next]_vars => WInv'
<1> SUFFICES ASSUME WInv, [Next]_vars PROVE WInv'
  OBVIOUS
<1>0. TypeOK /\ TypeOK' /\ AInv' BY NextType, NextAgrees DEF WInv, AInv
<1>1. ASSUME UNCHANGED <<queue, running, failed, wait, pause, turn>> PROVE WInv'
  <2>1. \A c \in Channels : Exhausted(c)' <=> Exhausted(c) BY <1>1, SameChannel
  <2> QED BY <1>0, <1>1, <2>1 DEF WInv
<1>2. ASSUME turn' \in {0, 1}, pause' \in {pause, [c \in Channels |-> 0]} PROVE WInv'
  <2>1. ASSUME NEW c \in Channels PROVE ~(Turn(c) < turn')
    <3>1. Turn(c) \in 1..Len(Visits) BY Turns
    <3> QED BY <1>2, <3>1
  <2> QED BY <1>0, <1>2, <2>1 DEF WInv
<1>3. CASE Round
  <2>1. CASE StartRound \/ Wake BY <1>2, <2>1 DEF StartRound, Wake
  <2>2. ASSUME NEW c \in Channels, Pop(c) \/ Leave(c) PROVE WInv'
    BY <1>0, <2>2, RoundKeepsSleep
  <2> QED BY <1>3, <2>1, <2>2 DEF Round
<1>4. CASE Restart BY <1>2, <1>4 DEF Restart
<1>5. CASE Tick \/ UNCHANGED vars BY <1>1, <1>5 DEF Tick, vars
<1>6. ASSUME NEW j \in Jobs, Notify(j) PROVE WInv'
  <2>1. turn' = 0 /\ pause' = pause BY <1>6 DEF Notify
  <2> QED BY <1>2, <2>1
<1>7. ASSUME NEW j \in Jobs, RowStep(j) PROVE WInv' BY <1>1, <1>7, RowStepKeeps
<1> QED BY <1>3, <1>4, <1>5, <1>6, <1>7, Steps

(* While the runner is asleep and a job could leave a channel but for time *)
(* and capacity, it knows when to wake up: the pause nearest to the root,  *)
(* or the etas of the channel.                                             *)
LEMMA PauseIsAwaited ==
  ASSUME NEW c \in Channels, \A d \in Up[c] : HasCapacity(d),
         NEW e \in Up[c], pause[e] # 0
  PROVE  \E d \in Up[c] : pause[d] # 0 /\ pause[d] \in WakeupTimes
<1> DEFINE S == {d \in Up[c] : pause[d] # 0}
<1>1. Up[c] \subseteq Channels /\ S \in SUBSET Channels /\ S # {} BY Tree
<1>2. PICK d \in S : \A f \in S : f \notin Chain(d) BY <1>1, Lowest
<1>3. Up[d] \subseteq Up[c] BY <1>1, <1>2, Tree
<1>4. \A f \in Up[d] : f # d => pause[f] = 0 BY <1>2, <1>3
<1>5. Open(d) BY <1>3, <1>4 DEF Open
<1>6. d \in {f \in Channels : Open(f)} BY <1>1, <1>2, <1>5
<1>7. pause[d] \in WakeupTimes BY <1>2, <1>6 DEF WakeupTimes
<1> QED BY <1>2, <1>7

LEMMA EtasAreAwaited ==
  ASSUME NEW c \in Channels, \A d \in Up[c] : HasCapacity(d), \A d \in Up[c] : pause[d] = 0,
         NEW j \in queue[c], wait[j] # 0
  PROVE  wait[j] \in WakeupTimes
<1>1. c \in {d \in Channels : Open(d)} BY DEF Open
<1>2. pause[c] = 0 BY Tree
<1>3. wait[j] \in {wait[k] : k \in queue[c]} \ {0} OBVIOUS
<1> QED BY <1>1, <1>2, <1>3 DEF WakeupTimes
LEMMA ExhaustedIsAwaited ==
  ASSUME TypeOK, NEW c \in Channels, \A d \in Up[c] : HasCapacity(d), Exhausted(c),
         \A d \in Up[c] : pause[d] = 0, NEW j \in queue[c], wait[j] = 0
  PROVE  HeldBack(c) \/ \E t \in WakeupTimes : t <= now
<1>1. c \in Up[c] BY Tree
<1>2. PICK f \in queue[c] : /\ c \in Sequential /\ wait[f] # 0
                            /\ \A k \in queue[c] : IF wait[k] = 0 THEN f < k ELSE Before(f, k)
  BY <1>1 DEF Exhausted
<1>3. wait[f] \in WakeupTimes BY <1>2, EtasAreAwaited
<1>4. queue[c] \in SUBSET Jobs /\ wait \in [Jobs -> Nat] /\ now \in Nat BY DEF TypeOK
<1>5. SUFFICES ASSUME \A t \in WakeupTimes : ~(t <= now) PROVE HeldBack(c) OBVIOUS
<1>6. \A k \in queue[c] : k \in Late(c) <=> wait[k] # 0
  <2>1. ASSUME NEW k \in queue[c], wait[k] # 0 PROVE wait[k] > now
    <3>1. ~(wait[k] <= now) BY <1>5, <2>1, EtasAreAwaited
    <3> QED BY <1>4, <3>1
  <2> QED BY <1>4, <2>1 DEF Late
<1>7. f \in Late(c) BY <1>2, <1>6
<1>8. \A k \in Late(c) : Before(f, k) BY <1>2, <1>6 DEF Late
<1>9. \A k \in Ready(c) : f < k BY <1>2, <1>6 DEF Ready
<1> QED BY <1>2, <1>7, <1>8, <1>9 DEF HeldBack

(* The job that holds up others in a full channel.                         *)
LEMMA FullHolds ==
  ASSUME AInv, NEW d \in Channels, ~HasCapacity(d)
  PROVE  \E k \in running[d] \cup failed[d] : k \in Jobs /\ d \in Path(k) /\ Known(k)
<1>1. /\ running[d] \in SUBSET Jobs /\ failed[d] \in SUBSET Jobs /\ Capacity[d] \in Nat
  BY ChannelsAssumption DEF AInv, TypeOK
<1>2. running[d] \cup failed[d] # {}
  <2>1. CASE failed[d] = {}
    <3>1. Capacity[d] # 0 /\ ~(Cardinality(running[d]) < Capacity[d])
      BY <2>1 DEF HasCapacity
    <3>2. ASSUME running[d] = {} PROVE FALSE
      <4>1. Cardinality(running[d]) = 0 BY <3>2, FS_EmptySet
      <4> QED BY <1>1, <3>1, <4>1
    <3> QED BY <3>2
  <2> QED BY <2>1
<1>3. PICK k \in running[d] \cup failed[d] : TRUE BY <1>2
<1>4. k \in Jobs /\ Known(k) BY <1>1, <1>3 DEF Known
<1>5. d \in Path(k)
  <2>1. InQueue(k) \/ Counting(k) \/ Failing(k) BY <1>4 DEF AInv, Shaped
  <2> QED BY <1>3, <1>4, <2>1, Paths DEF InQueue, InQueueOf, Counting, Failing
<1> QED BY <1>3, <1>4, <1>5

(* No wakeup is lost: run() sleeps until get_wakeup_time, and what that      *)
(* leaves out - channels that are full, jobs that others hold up - is what a *)
(* notification will come for.                                               *)
THEOREM SleepsInTime == Spec => []SleepsWell
<1>1. WInv => SleepsWell
  <2> SUFFICES ASSUME WInv, turn = Asleep, notes = {} PROVE SleepsWell
    BY DEF SleepsWell
  <2>1. AInv /\ TypeOK /\ now \in Nat /\ pause \in [Channels -> Nat] /\ wait \in [Jobs -> Nat]
    BY DEF WInv, AInv, TypeOK
  <2>2. \A c \in Channels : Exhausted(c) BY Turns DEF WInv
  <2>3. ASSUME \A t \in WakeupTimes : now < t,
               NEW c \in Channels, Ready(c) # {}, ~HeldBack(c)
        PROVE  \E d \in Up[c] : Paused(d) \/ ~HasCapacity(d)
    <3>1. SUFFICES ASSUME \A d \in Up[c] : HasCapacity(d) /\ ~Paused(d) PROVE FALSE
      OBVIOUS
    <3>2. \A d \in Up[c] : pause[d] = 0
      <4>1. ASSUME NEW e \in Up[c], pause[e] # 0 PROVE FALSE
        <5>1. PICK d \in Up[c] : pause[d] # 0 /\ pause[d] \in WakeupTimes
          BY <3>1, <4>1, PauseIsAwaited
        <5>2. d \in Channels BY Tree
        <5>3. Throttle[d] # 0 /\ Throttle[d] \in Nat BY <5>1, <5>2, ConstantsType DEF WInv
        <5>4. now < pause[d] BY <2>3, <5>1
        <5> QED BY <3>1, <5>3, <5>4 DEF Paused
      <4> QED BY <4>1
    <3>3. PICK j \in Ready(c) : TRUE BY <2>3
    <3>4. j \in queue[c] /\ j \in Jobs /\ ~(wait[j] > now) BY <2>1, <3>3 DEF Ready, Late, TypeOK
    <3>5. wait[j] = 0
      <4>1. ASSUME wait[j] # 0 PROVE FALSE
        <5>1. now < wait[j] BY <2>3, <3>1, <3>2, <3>4, <4>1, EtasAreAwaited
        <5> QED BY <3>4, <5>1
      <4> QED BY <4>1
    <3>6. PICK t \in WakeupTimes : t <= now
      BY <2>1, <2>2, <2>3, <3>1, <3>2, <3>4, <3>5, ExhaustedIsAwaited
    <3>7. t \in Nat
      <4>1. queue \in [Channels -> SUBSET Jobs] BY <2>1 DEF TypeOK
      <4> QED BY <2>1, <3>6, <4>1 DEF WakeupTimes
    <3> QED BY <2>1, <2>3, <3>6, <3>7
  <2>4. ASSUME WakeupTimes = {}, NEW j \in Jobs, db[j] = "pending"
        PROVE  \E k \in Jobs \ {j} : HoldsUp(k, j)
    <3>1. ASSUME NEW i \in Jobs, NEW c \in Channels, i \in queue[c]
          PROVE  \E d \in Up[c] : ~HasCapacity(d)
      <4>1. SUFFICES ASSUME \A d \in Up[c] : HasCapacity(d) PROVE FALSE OBVIOUS
      <4>2. \A d \in Up[c] : pause[d] = 0 BY <2>4, <4>1, PauseIsAwaited
      <4>3. \A k \in queue[c] : wait[k] = 0 BY <2>4, <4>1, <4>2, EtasAreAwaited
      <4>4. HeldBack(c)
        BY <2>1, <2>2, <2>4, <3>1, <4>1, <4>2, <4>3, ExhaustedIsAwaited
      <4>5. Late(c) # {} BY <4>4 DEF HeldBack
      <4>6. PICK f \in Late(c) : TRUE BY <4>5
      <4>7. f \in queue[c] /\ wait[f] > now BY <4>6 DEF Late
      <4> QED BY <2>1, <4>3, <4>7
    <3>2. \A i \in Jobs : Agreed(i) BY <2>1 DEF AInv
    <3>3. PICK c \in Path(j) : InQueueOf(j, c) BY <2>4, <3>2 DEF Agreed, InQueue
    <3>4. c \in Channels /\ j \in queue[c] BY <3>3, Paths DEF InQueueOf
    <3> DEFINE Full == {d \in Up[c] : ~HasCapacity(d)}
    <3>5. Full \in SUBSET Channels /\ Full # {} BY <3>1, <3>4, Tree
    <3>6. PICK d \in Full : \A e \in Full : e \notin Chain(d) BY <3>5, Lowest
    <3>7. d \in Channels /\ d \in Up[c] /\ d \in Path(j) /\ Up[d] \subseteq Up[c]
      BY <3>3, <3>4, <3>5, <3>6, Tree, ConstantsType
    <3>8. PICK k \in running[d] \cup failed[d] : k \in Jobs /\ d \in Path(k) /\ Known(k)
      BY <2>1, <3>6, <3>7, FullHolds
    <3>9. k # j
      <4>1. ASSUME c \in Up[d] PROVE d = c BY <3>4, <3>7, <4>1, Tree
      <4> QED BY <3>3, <3>7, <3>8, <4>1 DEF InQueueOf
    <3>10. db[k] # "pending"
      <4>1. SUFFICES ASSUME db[k] = "pending" PROVE FALSE OBVIOUS
      <4>2. PICK b \in Path(k) : InQueueOf(k, b) BY <3>2, <3>8, <4>1 DEF Agreed, InQueue
      <4>3. b \in Channels /\ k \in queue[b] /\ b \in Up[d] /\ b # d
        BY <3>7, <3>8, <4>2, Paths DEF InQueueOf
      <4>4. PICK e \in Up[b] : ~HasCapacity(e) BY <3>1, <3>8, <4>3
      <4>5. e \in Up[d] /\ e \in Full BY <3>7, <4>3, <4>4, Tree
      <4>6. e = d BY <3>6, <4>5
      <4> QED BY <3>7, <4>3, <4>4, <4>6, Tree
    <3>11. db[k] \in {"enqueued", "started", "failed", "wait_dependencies"}
      <4>1. db[k] \in States BY <2>1, <3>8 DEF TypeOK
      <4>2. db[k] \notin {"done", "cancelled", "deleted"} BY <3>2, <3>8 DEF Agreed
      <4> QED BY <3>10, <4>1, <4>2 DEF States
    <3>12. HoldsUp(k, j) BY <3>7, <3>8, <3>11 DEF HoldsUp
    <3> QED BY <3>8, <3>9, <3>12
  <2> QED BY <2>3, <2>4 DEF SleepsWell
<1> QED BY <1>1, InitSleep, NextSleep, PTL DEF Spec

-------------------------------------------------------------------------------
(***************************************************************************)
(* The queue of a channel.  It is built of two heaps in which removed jobs *)
(* linger; what follows shows, for any finite set of jobs and any etas,    *)
(* that it is the set of jobs which module Channels takes it for.          *)
(***************************************************************************)
Heaps(J) == {h \in [known : SUBSET J, removed : SUBSET J] : h.removed \subseteq h.known}

(* The queues of jobs of J: no heap mixes jobs with and without an eta.    *)
QueuesOf(J) ==
    {c \in [late : Heaps(J), ready : Heaps(J), etas : [J -> Nat]] :
       /\ \A j \in c.late.known : c.etas[j] # 0
       /\ \A j \in c.ready.known : c.etas[j] = 0}

(* Sorting keys are a total order, so a set of jobs has one first.         *)
LEMMA FirstIs ==
  ASSUME NEW J \in SUBSET Nat, NEW etas \in [J -> Nat], NEW S \in SUBSET J, S # {}
  PROVE  /\ First(S, etas) \in S
         /\ \A x \in S \ {First(S, etas)} : Less(etas, First(S, etas), x)
         /\ \A o \in S : (\A x \in S \ {o} : Less(etas, o, x)) => o = First(S, etas)
<1>1. PICK t \in {etas[j] : j \in S} : \A u \in {etas[j] : j \in S} : t <= u
  <2>1. {etas[j] : j \in S} \in SUBSET Nat /\ {etas[j] : j \in S} # {} OBVIOUS
  <2> QED BY <2>1, LeastNumber
<1>2. PICK o \in {j \in S : etas[j] = t} : \A x \in {j \in S : etas[j] = t} : o <= x
  <2>1. {j \in S : etas[j] = t} \in SUBSET Nat /\ {j \in S : etas[j] = t} # {} BY <1>1
  <2> QED BY <2>1, LeastNumber
<1>3. o \in S /\ \A x \in S \ {o} : Less(etas, o, x)
  <2>1. ASSUME NEW x \in S \ {o} PROVE Less(etas, o, x)
    <3>1. o \in Nat /\ x \in Nat /\ etas[o] = t /\ etas[x] \in Nat /\ t \in Nat /\ t <= etas[x]
      BY <1>1, <1>2
    <3>2. CASE etas[x] = t
      <4>1. o <= x BY <1>2, <3>2
      <4> QED BY <2>1, <3>1, <3>2, <4>1 DEF Less
    <3>3. CASE etas[x] # t BY <3>1, <3>3 DEF Less
    <3> QED BY <3>2, <3>3
  <2> QED BY <1>2, <2>1
<1>4. /\ First(S, etas) \in S
      /\ \A x \in S \ {First(S, etas)} : Less(etas, First(S, etas), x)
  BY <1>3 DEF First
<1>5. ASSUME NEW p \in S, \A x \in S \ {p} : Less(etas, p, x), p # First(S, etas) PROVE FALSE
  <2>1. PICK f \in S : f = First(S, etas) BY <1>4
  <2>2. Less(etas, p, f) /\ Less(etas, f, p) BY <1>4, <1>5, <2>1
  <2>3. p \in Nat /\ f \in Nat /\ etas[p] \in Nat /\ etas[f] \in Nat OBVIOUS
  <2> QED BY <2>2, <2>3 DEF Less
<1> QED BY <1>4, <1>5

(* Cleaning a heap shows nothing, and each operation is that of a set.     *)
LEMMA HeapType ==
  ASSUME NEW J, NEW q \in Heaps(J)
  PROVE  /\ q.known \in SUBSET J /\ q.removed \subseteq q.known
         /\ q = [known |-> q.known, removed |-> q.removed]
         /\ Live(q) \in SUBSET q.known
BY DEF Heaps, Live

LEMMA SettledLive ==
  ASSUME NEW J, NEW q \in Heaps(J), NEW etas
  PROVE  /\ Settled(q, etas) \in Heaps(J)
         /\ Settled(q, etas).known \subseteq q.known
         /\ Live(Settled(q, etas)) = Live(q)
BY HeapType DEF Settled, Heaps, Live

LEMMA HeapPopLive ==
  ASSUME NEW J \in SUBSET Nat, NEW q \in Heaps(J), NEW etas \in [J -> Nat]
  PROVE  /\ HeapPop(q, etas) \in Heaps(J)
         /\ HeapPop(q, etas).known \subseteq q.known
         /\ Live(q) = {} => Live(HeapPop(q, etas)) = {}
         /\ Live(q) # {} => /\ Live(HeapPop(q, etas)) = Live(q) \ {First(Live(q), etas)}
                            /\ First(Live(q), etas) \notin HeapPop(q, etas).known
<1>1. PICK s \in Heaps(J) : s = Settled(q, etas) BY SettledLive
<1>2. s.known \subseteq q.known /\ Live(s) = Live(q) BY <1>1, SettledLive
<1>3. CASE Live(q) = {} BY <1>1, <1>2, <1>3 DEF HeapPop
<1>4. CASE Live(q) # {}
  <2>1. PICK f \in Live(q) : f = First(Live(q), etas) BY <1>4, FirstIs, HeapType
  <2>2. HeapPop(q, etas) = [known |-> s.known \ {f}, removed |-> s.removed]
    <3>1. s = [known |-> s.known, removed |-> s.removed] BY HeapType
    <3>2. [s EXCEPT !.known = @ \ {f}] = [known |-> s.known \ {f}, removed |-> s.removed]
      BY <3>1
    <3>3. HeapPop(q, etas) = [s EXCEPT !.known = @ \ {f}]
      BY <1>1, <1>4, <2>1 DEF HeapPop
    <3> QED BY <3>2, <3>3
  <2>3. f \in s.known /\ f \notin s.removed BY <1>2, <2>1 DEF Live
  <2>4. [known |-> s.known \ {f}, removed |-> s.removed] \in Heaps(J)
    BY <2>3, HeapType DEF Heaps
  <2>5. Live(HeapPop(q, etas)) = Live(s) \ {f} BY <2>2 DEF Live
  <2> QED BY <1>2, <1>4, <2>1, <2>2, <2>4, <2>5
<1> QED BY <1>3, <1>4

LEMMA HeapAddLive ==
  ASSUME NEW J, NEW q \in Heaps(J), NEW j \in J
  PROVE  /\ HeapAdd(q, j) \in Heaps(J) /\ HeapAdd(q, j).known = q.known \cup {j}
         /\ Live(HeapAdd(q, j)) = Live(q) \cup {j}
         /\ HeapRemove(q, j) \in Heaps(J) /\ HeapRemove(q, j).known = q.known
         /\ Live(HeapRemove(q, j)) = Live(q) \ {j}
<1>1. q.known \in SUBSET J /\ q.removed \subseteq q.known
      /\ q = [known |-> q.known, removed |-> q.removed]
  BY HeapType
<1>2. HeapRemove(q, j) = [known |-> q.known,
                          removed |-> IF j \in q.known THEN q.removed \cup {j} ELSE q.removed]
  BY <1>1 DEF HeapRemove
<1> QED BY <1>1, <1>2 DEF Heaps, HeapAdd, Live

LEMMA QueueType ==
  ASSUME NEW J, NEW c \in QueuesOf(J)
  PROVE  /\ c.late \in Heaps(J) /\ c.ready \in Heaps(J) /\ c.etas \in [J -> Nat]
         /\ \A j \in c.late.known : c.etas[j] # 0
         /\ \A j \in c.ready.known : c.etas[j] = 0
         /\ c = [late |-> c.late, ready |-> c.ready, etas |-> c.etas]
BY DEF QueuesOf

LEMMA IsQueue ==
  ASSUME NEW J, NEW l \in Heaps(J), NEW r \in Heaps(J), NEW e \in [J -> Nat],
         \A j \in l.known : e[j] # 0, \A j \in r.known : e[j] = 0
  PROVE  [late |-> l, ready |-> r, etas |-> e] \in QueuesOf(J)
BY DEF QueuesOf

(* add and remove, of PriorityQueue and ChannelQueue: adding and removing  *)
(* a job is what it is for a set, even of jobs that linger in a heap.      *)
THEOREM AddsAndRemovesOne ==
  ASSUME NEW J, NEW c \in QueuesOf(J), NEW j \in J
  PROVE  /\ Add(c, j) \in QueuesOf(J) /\ Members(Add(c, j)) = Members(c) \cup {j}
         /\ Removed(c, j) \in QueuesOf(J) /\ Members(Removed(c, j)) = Members(c) \ {j}
<1>1. PICK l \in Heaps(J), r \in Heaps(J), e \in [J -> Nat] :
        /\ c = [late |-> l, ready |-> r, etas |-> e]
        /\ \A k \in l.known : e[k] # 0
        /\ \A k \in r.known : e[k] = 0
  BY QueueType
<1>2. Removed(c, j) = [late |-> HeapRemove(l, j), ready |-> HeapRemove(r, j), etas |-> e]
  BY <1>1 DEF Removed
<1>3. Removed(c, j) \in QueuesOf(J)
  <2>1. /\ HeapRemove(l, j) \in Heaps(J) /\ HeapRemove(l, j).known = l.known
        /\ HeapRemove(r, j) \in Heaps(J) /\ HeapRemove(r, j).known = r.known
    BY HeapAddLive
  <2> QED BY <1>1, <1>2, <2>1, IsQueue
<1>4. Members(Removed(c, j)) = Members(c) \ {j}
  BY <1>1, <1>2, HeapAddLive DEF Members
<1>5. CASE e[j] # 0
  <2>1. Add(c, j) = [late |-> HeapAdd(l, j), ready |-> r, etas |-> e]
    BY <1>1, <1>5 DEF Add
  <2>2. HeapAdd(l, j) \in Heaps(J) /\ \A k \in HeapAdd(l, j).known : e[k] # 0
    BY <1>1, <1>5, HeapAddLive
  <2>3. Add(c, j) \in QueuesOf(J) BY <1>1, <2>1, <2>2, IsQueue
  <2>4. Members(Add(c, j)) = Members(c) \cup {j} BY <1>1, <2>1, HeapAddLive DEF Members
  <2> QED BY <1>3, <1>4, <2>3, <2>4
<1>6. CASE e[j] = 0
  <2>1. Add(c, j) = [late |-> l, ready |-> HeapAdd(r, j), etas |-> e]
    BY <1>1, <1>6 DEF Add
  <2>2. HeapAdd(r, j) \in Heaps(J) /\ \A k \in HeapAdd(r, j).known : e[k] = 0
    BY <1>1, <1>6, HeapAddLive
  <2>3. Add(c, j) \in QueuesOf(J) BY <1>1, <2>1, <2>2, IsQueue
  <2>4. Members(Add(c, j)) = Members(c) \cup {j} BY <1>1, <2>1, HeapAddLive DEF Members
  <2> QED BY <1>3, <1>4, <2>3, <2>4
<1> QED BY <1>5, <1>6
(* ChannelQueue.pop hands a job whose eta is past from one heap to the     *)
(* other.  What is due: the jobs still to be handed over.                  *)
Due(c, time) == {j \in Live(c.late) : c.etas[j] <= time}

(* One handing over keeps the queue's jobs, and one job less is due.       *)
LEMMA HandedOne ==
  ASSUME NEW J \in SUBSET Nat, NEW c \in QueuesOf(J), NEW time \in Nat
  PROVE  /\ Handed(c, time) \in QueuesOf(J)
         /\ Members(Handed(c, time)) = Members(c)
         /\ \A j \in J : \/ Handed(c, time).etas[j] = c.etas[j]
                         \/ c.etas[j] <= time /\ Handed(c, time).etas[j] = 0
         /\ \/ Due(c, time) = {} /\ Due(Handed(c, time), time) = {}
            \/ \E j \in Due(c, time) : Due(Handed(c, time), time) = Due(c, time) \ {j}
<1>1. PICK l \in Heaps(J), r \in Heaps(J), e \in [J -> Nat] :
        /\ c = [late |-> l, ready |-> r, etas |-> e]
        /\ \A k \in l.known : e[k] # 0
        /\ \A k \in r.known : e[k] = 0
  BY QueueType
<1>2. Live(l) \in SUBSET J /\ Live(l) \subseteq l.known BY HeapType
<1>3. CASE Live(l) = {}
  <2>1. Handed(c, time) = c BY <1>1, <1>3 DEF Handed
  <2>2. Due(c, time) = {} BY <1>1, <1>3 DEF Due
  <2> QED BY <2>1, <2>2
<1>4. CASE Live(l) # {}
  <2>1. PICK f \in Live(l) : f = First(Live(l), e) BY <1>2, <1>4, FirstIs
  <2>2. f \in J /\ e[f] \in Nat /\ \A x \in Live(l) : e[x] \in Nat /\ e[f] <= e[x]
    <3>0. \A x \in Live(l) \ {First(Live(l), e)} : Less(e, First(Live(l), e), x)
      <4>1. PICK S \in SUBSET J : S = Live(l) BY <1>2
      <4>2. \A x \in S \ {First(S, e)} : Less(e, First(S, e), x) BY <1>4, <4>1, FirstIs
      <4> QED BY <4>1, <4>2
    <3>1. \A x \in Live(l) \ {f} : Less(e, f, x) BY <2>1, <3>0
    <3>2. \A x \in Live(l) : x \in J /\ x \in Nat /\ e[x] \in Nat BY <1>2
    <3> QED BY <2>1, <3>1, <3>2 DEF Less
  <2>3. CASE e[f] > time
    <3>1. PICK s \in Heaps(J) : s = Settled(l, e) /\ s.known \subseteq l.known /\ Live(s) = Live(l)
      BY SettledLive
    <3>2. Handed(c, time) = [late |-> s, ready |-> r, etas |-> e]
      BY <1>1, <1>4, <2>1, <2>3, <3>1 DEF Handed
    <3>3. Handed(c, time) \in QueuesOf(J)
      <4>1. \A k \in s.known : e[k] # 0 BY <1>1, <3>1
      <4>2. [late |-> s, ready |-> r, etas |-> e] \in QueuesOf(J) BY <1>1, <4>1, IsQueue
      <4> QED BY <3>2, <4>2
    <3>4. Members(Handed(c, time)) = Members(c) BY <1>1, <3>1, <3>2 DEF Members
    <3>5. \A x \in Live(l) : ~(e[x] <= time) BY <2>2, <2>3
    <3>6. Due(c, time) = {} /\ Due(Handed(c, time), time) = {}
      BY <1>1, <3>1, <3>2, <3>5 DEF Due
    <3> QED BY <1>1, <3>2, <3>3, <3>4, <3>6
  <2>4. CASE ~(e[f] > time)
    <3> DEFINE d == [e EXCEPT ![f] = 0]
    <3>1. PICK s \in Heaps(J) : /\ s = HeapPop(l, e) /\ s.known \subseteq l.known
                                /\ Live(s) = Live(l) \ {f} /\ f \notin s.known
      BY <1>4, <2>1, HeapPopLive
    <3>2. PICK h \in Heaps(J) : /\ h = HeapAdd(r, f) /\ h.known = r.known \cup {f}
                                /\ Live(h) = Live(r) \cup {f}
      BY <2>2, HeapAddLive
    <3>3. Handed(c, time) = [late |-> s, ready |-> h, etas |-> d]
      BY <1>1, <1>4, <2>1, <2>4, <3>1, <3>2 DEF Handed
    <3>4. d \in [J -> Nat] /\ d[f] = 0 /\ \A k \in J : k # f => d[k] = e[k] BY <2>2
    <3>5. s.known \in SUBSET J /\ h.known \in SUBSET J BY HeapType
    <3> HIDE DEF d
    <3>6. (\A k \in s.known : d[k] # 0) /\ (\A k \in h.known : d[k] = 0)
      BY <1>1, <3>1, <3>2, <3>4, <3>5
    <3>7. Handed(c, time) \in QueuesOf(J)
      <4>1. [late |-> s, ready |-> h, etas |-> d] \in QueuesOf(J) BY <3>4, <3>6, IsQueue
      <4> QED BY <3>3, <4>1
    <3>8. Members(Handed(c, time)) = Members(c)
      BY <1>1, <2>1, <3>1, <3>2, <3>3 DEF Members
    <3>9. e[f] <= time BY <2>2, <2>4
    <3>10. Due(Handed(c, time), time) = {k \in Live(l) \ {f} : e[k] <= time}
      <4>1. \A k \in Live(l) \ {f} : d[k] = e[k] BY <1>2, <3>4
      <4>2. Due(Handed(c, time), time) = {k \in Live(l) \ {f} : d[k] <= time}
        BY <3>1, <3>3 DEF Due
      <4> QED BY <4>1, <4>2
    <3>11. Due(c, time) = {k \in Live(l) : e[k] <= time} BY <1>1 DEF Due
    <3>12. f \in Due(c, time) /\ Due(Handed(c, time), time) = Due(c, time) \ {f}
      BY <2>1, <3>9, <3>10, <3>11
    <3>13. \A j \in J : \/ Handed(c, time).etas[j] = c.etas[j]
                        \/ c.etas[j] <= time /\ Handed(c, time).etas[j] = 0
      BY <1>1, <3>3, <3>4, <3>9
    <3> QED BY <3>7, <3>8, <3>12, <3>13
  <2> QED BY <2>3, <2>4
<1> QED BY <1>3, <1>4
(* The queues that one is after handing over its jobs, i of them, one after the other. *)
Hands(g, c, time, n) ==
    g = [i \in 0..n |-> IF i = 0 THEN c ELSE Handed(g[i - 1], time)]

LEMMA HandsExist ==
  ASSUME NEW c, NEW time, NEW n \in Nat
  PROVE  \E g : Hands(g, c, time, n)
<1> DEFINE T == {m \in Nat : ~\E g : Hands(g, c, time, m)}
<1>1. SUFFICES ASSUME T # {} PROVE FALSE OBVIOUS
<1>2. PICK m \in T : \A k \in T : m <= k
  <2>1. T \in SUBSET Nat OBVIOUS
  <2> HIDE DEF T
  <2> QED BY <1>1, <2>1, LeastNumber
<1>3. m \in Nat /\ ~\E g : Hands(g, c, time, m) BY <1>2
<1>4. CASE m = 0
  <2>1. Hands([i \in 0..m |-> c], c, time, m) BY <1>4 DEF Hands
  <2> QED BY <1>3, <2>1
<1>5. CASE m # 0
  <2>1. m - 1 \in Nat /\ ~(m <= m - 1) BY <1>3, <1>5
  <2>2. m - 1 \notin T BY <1>2, <2>1
  <2>3. PICK g : Hands(g, c, time, m - 1) BY <2>1, <2>2
  <2> DEFINE h == [i \in 0..m |-> IF i = m THEN Handed(g[m - 1], time) ELSE g[i]]
  <2>4. \A i \in 0..(m - 1) : g[i] = IF i = 0 THEN c ELSE Handed(g[i - 1], time)
    BY <2>1, <2>3 DEF Hands
  <2>5. ASSUME NEW i \in 0..m PROVE h[i] = IF i = 0 THEN c ELSE Handed(h[i - 1], time)
    <3>1. CASE i = m
      <4>1. m - 1 \in 0..m /\ m - 1 # m BY <1>3, <1>5
      <4>2. h[i] = Handed(g[m - 1], time) /\ h[m - 1] = g[m - 1] BY <3>1, <4>1
      <4> QED BY <1>5, <3>1, <4>2
    <3>2. CASE i = 0
      <4>1. h[i] = g[i] /\ i \in 0..(m - 1) BY <1>3, <1>5, <3>2
      <4> QED BY <2>4, <3>2, <4>1
    <3>3. CASE i # m /\ i # 0
      <4>1. i \in 0..(m - 1) /\ i - 1 \in 0..m /\ i - 1 # m BY <1>3, <3>3
      <4>2. h[i] = g[i] /\ h[i - 1] = g[i - 1] BY <3>3, <4>1
      <4> QED BY <2>4, <3>3, <4>1, <4>2
    <3> QED BY <3>1, <3>2, <3>3
  <2>6. h = [i \in 0..m |-> h[i]] OBVIOUS
  <2>7. Hands(h, c, time, m)
    <3> HIDE DEF h
    <3> QED BY <2>5, <2>6 DEF Hands
  <2> QED BY <1>3, <2>7
<1> QED BY <1>4, <1>5

(* pop's first loop leaves no job due in the heap of those with an eta: a  *)
(* queue is handed over as often as it has jobs there.                     *)
LEMMA AllAreHanded ==
  ASSUME NEW J \in SUBSET Nat, IsFiniteSet(J), NEW c \in QueuesOf(J), NEW time \in Nat
  PROVE  /\ AllHanded(c, time) \in QueuesOf(J)
         /\ Members(AllHanded(c, time)) = Members(c)
         /\ \A j \in J : \/ AllHanded(c, time).etas[j] = c.etas[j]
                         \/ c.etas[j] <= time /\ AllHanded(c, time).etas[j] = 0
         /\ Due(AllHanded(c, time), time) = {}
<1> DEFINE n == Cardinality(c.late.known)
           Good(d, i) == /\ d \in QueuesOf(J)
                         /\ Members(d) = Members(c)
                         /\ \A j \in J : \/ d.etas[j] = c.etas[j]
                                         \/ c.etas[j] <= time /\ d.etas[j] = 0
                         /\ IsFiniteSet(Due(d, time))
                         /\ Cardinality(Due(d, time)) <= n - i
<1>1. c.late \in Heaps(J) /\ c.late.known \in SUBSET J /\ c.etas \in [J -> Nat]
      /\ Live(c.late) \subseteq c.late.known
  BY QueueType, HeapType
<1>2. IsFiniteSet(c.late.known) /\ n \in Nat BY <1>1, FS_Subset, FS_CardinalityType
<1>3. PICK g : Hands(g, c, time, n) /\ AllHanded(c, time) = g[n]
  <2>1. AllHanded(c, time) = (CHOOSE g : Hands(g, c, time, n))[n] BY DEF AllHanded, Hands
  <2>2. \E g : Hands(g, c, time, n) BY <1>2, HandsExist
  <2>3. Hands(CHOOSE g : Hands(g, c, time, n), c, time, n) BY <2>2
  <2> QED BY <2>1, <2>3
<1>4. \A i \in 0..n : g[i] = IF i = 0 THEN c ELSE Handed(g[i - 1], time)
  BY <1>3 DEF Hands
<1>5. Good(c, 0)
  <2>1. Due(c, time) \subseteq c.late.known BY <1>1 DEF Due
  <2>2. IsFiniteSet(Due(c, time)) /\ Cardinality(Due(c, time)) <= n
    BY <1>2, <2>1, FS_Subset
  <2> QED BY <1>2, <2>2
<1>6. ASSUME NEW i \in 0..n, i # n, NEW d, Good(d, i) PROVE Good(Handed(d, time), i + 1)
  <2>1. /\ Handed(d, time) \in QueuesOf(J)
        /\ Members(Handed(d, time)) = Members(d)
        /\ \A j \in J : \/ Handed(d, time).etas[j] = d.etas[j]
                        \/ d.etas[j] <= time /\ Handed(d, time).etas[j] = 0
        /\ \/ Due(d, time) = {} /\ Due(Handed(d, time), time) = {}
           \/ \E j \in Due(d, time) : Due(Handed(d, time), time) = Due(d, time) \ {j}
    BY <1>6, HandedOne
  <2>2. d.etas \in [J -> Nat] BY <1>6, QueueType
  <2>3. \A j \in J : \/ Handed(d, time).etas[j] = c.etas[j]
                     \/ c.etas[j] <= time /\ Handed(d, time).etas[j] = 0
    BY <1>6, <2>1
  <2>4. /\ IsFiniteSet(Due(Handed(d, time), time))
        /\ Cardinality(Due(Handed(d, time), time)) <= n - (i + 1)
    <3>1. CASE Due(Handed(d, time), time) = {}
      <4>1. IsFiniteSet(Due(Handed(d, time), time)) /\ Cardinality(Due(Handed(d, time), time)) = 0
        BY <3>1, FS_EmptySet
      <4> HIDE DEF n
      <4> QED BY <1>2, <1>6, <4>1
    <3>2. CASE \E j \in Due(d, time) : Due(Handed(d, time), time) = Due(d, time) \ {j}
      <4>1. PICK j \in Due(d, time) : Due(Handed(d, time), time) = Due(d, time) \ {j} BY <3>2
      <4>2. /\ IsFiniteSet(Due(Handed(d, time), time))
            /\ Cardinality(Due(Handed(d, time), time)) = Cardinality(Due(d, time)) - 1
        BY <1>6, <4>1, FS_RemoveElement
      <4>3. Cardinality(Due(d, time)) \in Nat BY <1>6, FS_CardinalityType
      <4>4. Cardinality(Due(d, time)) <= n - i BY <1>6
      <4> HIDE DEF n
      <4> QED BY <1>2, <1>6, <4>2, <4>3, <4>4
    <3> QED BY <2>1, <3>1, <3>2
  <2> QED BY <1>6, <2>1, <2>3, <2>4
<1> HIDE DEF n, Good
<1>7. \A i \in 0..n : Good(g[i], i)
  <2> DEFINE T == {i \in 0..n : ~Good(g[i], i)}
  <2>1. SUFFICES ASSUME T # {} PROVE FALSE OBVIOUS
  <2>2. PICK m \in T : \A k \in T : m <= k
    <3>1. T \in SUBSET Nat BY <1>2
    <3> HIDE DEF T
    <3> QED BY <2>1, <3>1, LeastNumber
  <2>3. m \in 0..n /\ ~Good(g[m], m) BY <2>2
  <2>4. m # 0 BY <1>2, <1>4, <1>5, <2>3
  <2>5. PICK k \in 0..n : k = m - 1 /\ k # n /\ k + 1 = m /\ ~(m <= k) BY <1>2, <2>3, <2>4
  <2>6. Good(g[k], k) BY <2>2, <2>5
  <2>7. g[m] = Handed(g[k], time) BY <1>4, <2>3, <2>4, <2>5
  <2> QED BY <1>6, <2>3, <2>5, <2>6, <2>7
<1>8. Good(AllHanded(c, time), n) BY <1>2, <1>3, <1>7
<1>9. Due(AllHanded(c, time), time) = {}
  <2>1. /\ IsFiniteSet(Due(AllHanded(c, time), time))
        /\ Cardinality(Due(AllHanded(c, time), time)) <= n - n
    BY <1>8 DEF Good
  <2>2. Cardinality(Due(AllHanded(c, time), time)) = 0 BY <1>2, <2>1, FS_CardinalityType
  <2> QED BY <2>1, <2>2, FS_EmptySet
<1> QED BY <1>8, <1>9 DEF Good
(* The first of a set depends on the etas of that set only; without etas   *)
(* it is the least.                                                        *)
LEMMA FirstSame ==
  ASSUME NEW J \in SUBSET Nat, NEW e \in [J -> Nat], NEW d \in [J -> Nat],
         NEW S \in SUBSET J, S # {}, \A j \in S : e[j] = d[j]
  PROVE  First(S, e) = First(S, d)
<1>1. PICK f \in S : f = First(S, e) /\ \A x \in S \ {f} : Less(e, f, x)
  <2>1. First(S, e) \in S /\ \A x \in S \ {First(S, e)} : Less(e, First(S, e), x) BY FirstIs
  <2> QED BY <2>1
<1>2. \A x \in S \ {f} : Less(d, f, x) BY <1>1 DEF Less
<1>3. f = First(S, d) BY <1>2, FirstIs
<1> QED BY <1>1, <1>3

LEMMA FirstLeast ==
  ASSUME NEW J \in SUBSET Nat, NEW e \in [J -> Nat],
         NEW S \in SUBSET J, S # {}, \A j \in S : e[j] = 0
  PROVE  /\ First(S, e) \in S
         /\ \A k \in S : First(S, e) <= k
         /\ First(S, e) = CHOOSE j \in S : \A k \in S : j <= k
<1>1. PICK f \in S : f = First(S, e) /\ \A x \in S \ {f} : Less(e, f, x)
  <2>1. First(S, e) \in S /\ \A x \in S \ {First(S, e)} : Less(e, First(S, e), x) BY FirstIs
  <2> QED BY <2>1
<1>2. \A k \in S : f <= k /\ k \in Nat /\ f \in Nat
  <2>1. ASSUME NEW k \in S PROVE f <= k
    <3>1. k \in Nat /\ f \in Nat OBVIOUS
    <3>2. CASE k = f BY <3>1, <3>2
    <3>3. CASE k # f
      <4>1. Less(e, f, k) /\ e[f] = 0 /\ e[k] = 0 BY <1>1, <3>3
      <4> QED BY <3>1, <4>1 DEF Less
    <3> QED BY <3>2, <3>3
  <2> QED BY <2>1
<1>3. \A j \in S : (\A k \in S : j <= k) => j = f
  <2>1. ASSUME NEW j \in S, \A k \in S : j <= k PROVE j = f
    <3>1. j <= f /\ f <= j /\ j \in Nat /\ f \in Nat BY <1>2, <2>1
    <3> QED BY <3>1
  <2> QED BY <2>1
<1>4. f = CHOOSE j \in S : \A k \in S : j <= k BY <1>2, <1>3
<1> QED BY <1>1, <1>2, <1>4

(* ChannelQueue.pop: whatever was added and removed before, what is popped *)
(* is the job that Channels takes out of its set, and that job alone       *)
(* leaves the queue.                                                       *)
THEOREM PopsTheLeastOne ==
  ASSUME NEW J \in SUBSET (Nat \ {0}), IsFiniteSet(J), NEW c \in QueuesOf(J),
         NEW time \in Nat, NEW sequential
  PROVE  /\ Popped(c, time, sequential).job = PopOfSet(Members(c), c.etas, time, sequential)
         /\ Popped(c, time, sequential).left \in QueuesOf(J)
         /\ Members(Popped(c, time, sequential).left)
              = Members(c) \ {Popped(c, time, sequential).job}
         /\ \A j \in Members(c) : Popped(c, time, sequential).left.etas[j]
                                    = IF c.etas[j] > time THEN c.etas[j] ELSE 0
<1> J \in SUBSET Nat OBVIOUS
<1>1. PICK q \in QueuesOf(J) :
        /\ q = AllHanded(c, time) /\ Members(q) = Members(c) /\ Due(q, time) = {}
        /\ \A j \in J : \/ q.etas[j] = c.etas[j]
                        \/ c.etas[j] <= time /\ q.etas[j] = 0
  BY AllAreHanded
<1>2. PICK l \in Heaps(J), r \in Heaps(J), e \in [J -> Nat] :
        /\ q = [late |-> l, ready |-> r, etas |-> e]
        /\ \A k \in l.known : e[k] # 0
        /\ \A k \in r.known : e[k] = 0
  BY QueueType
<1>3. c.etas \in [J -> Nat] BY QueueType
<1>4. PICK late \in SUBSET J : late = Live(l) /\ late \subseteq l.known BY HeapType
<1>5. PICK ready \in SUBSET J : ready = Live(r) /\ ready \subseteq r.known BY HeapType
<1>6. Members(c) = late \cup ready BY <1>1, <1>2, <1>4, <1>5 DEF Members
<1>7. /\ \A j \in J : e[j] = c.etas[j] \/ (c.etas[j] <= time /\ e[j] = 0)
      /\ Due(q, time) = {}
  BY <1>1, <1>2
<1>8. \A j \in late : e[j] = c.etas[j] /\ c.etas[j] > time
  <2>1. ASSUME NEW j \in late PROVE e[j] = c.etas[j] /\ c.etas[j] > time
    <3>1. ~(e[j] <= time) BY <1>2, <1>4, <1>7 DEF Due
    <3>2. e[j] # 0 BY <1>2, <1>4
    <3>3. e[j] \in Nat /\ c.etas[j] \in Nat BY <1>3
    <3> QED BY <1>7, <3>1, <3>2, <3>3
  <2> QED BY <2>1
<1>9. \A j \in ready : e[j] = 0 /\ ~(c.etas[j] > time)
  <2>1. ASSUME NEW j \in ready PROVE e[j] = 0 /\ ~(c.etas[j] > time)
    <3>1. e[j] = 0 BY <1>2, <1>5
    <3>2. c.etas[j] \in Nat BY <1>3
    <3> QED BY <1>7, <3>1, <3>2
  <2> QED BY <2>1
<1>10. /\ late = {j \in Members(c) : c.etas[j] > time}
       /\ ready = Members(c) \ late
  BY <1>6, <1>8, <1>9
<1> DEFINE held == sequential /\ late # {} /\ \A j \in ready : First(late, c.etas) < j
<1>11. PopOfSet(Members(c), c.etas, time, sequential)
         = IF ready = {} \/ held THEN 0 ELSE CHOOSE j \in ready : \A k \in ready : j <= k
  BY <1>10 DEF PopOfSet
<1>12. late # {} => First(late, e) = First(late, c.etas) /\ First(late, e) \in late
  BY <1>3, <1>8, FirstSame, FirstIs
<1>13. ready # {} => /\ First(ready, e) \in ready
                     /\ \A k \in ready : First(ready, e) <= k
                     /\ First(ready, e) = CHOOSE j \in ready : \A k \in ready : j <= k
  BY <1>9, FirstLeast
<1> DEFINE stays == /\ sequential /\ late # {} /\ ready # {}
                    /\ First(late, e) < First(ready, e)
<1>14. PICK p :
         /\ p = Popped(c, time, sequential)
         /\ p = IF stays
                THEN [job |-> 0, left |-> [q EXCEPT !.ready = Settled(r, e)]]
                ELSE [job  |-> IF ready = {} THEN 0 ELSE First(ready, e),
                      left |-> [q EXCEPT !.ready = HeapPop(r, e)]]
  <2>1. Popped(c, time, sequential)
           = IF stays
             THEN [job |-> 0, left |-> [q EXCEPT !.ready = Settled(r, e)]]
             ELSE [job  |-> IF ready = {} THEN 0 ELSE First(ready, e),
                   left |-> [q EXCEPT !.ready = HeapPop(r, e)]]
    BY <1>1, <1>2, <1>4, <1>5 DEF Popped
  <2> HIDE DEF stays
  <2> QED BY <2>1
<1>15. stays <=> ready # {} /\ held
  <2>1. ASSUME ready # {}, late # {}
        PROVE  First(late, e) < First(ready, e) <=> \A j \in ready : First(late, c.etas) < j
    <3>1. PICK a \in late : a = First(late, e) /\ a = First(late, c.etas) BY <1>12, <2>1
    <3>2. PICK b \in ready : b = First(ready, e) /\ \A k \in ready : b <= k BY <1>13, <2>1
    <3>3. a \in Nat /\ b \in Nat /\ \A k \in ready : k \in Nat OBVIOUS
    <3>4. a < b <=> \A j \in ready : a < j BY <3>2, <3>3
    <3> QED BY <3>1, <3>2, <3>4
  <2> QED BY <2>1
<1>16. \A h : [q EXCEPT !.ready = h] = [late |-> l, ready |-> h, etas |-> e] BY <1>2
<1> HIDE DEF held, stays
<1>17. \A j \in Members(c) : p.left.etas[j]
                               = IF c.etas[j] > time THEN c.etas[j] ELSE 0
  <2>1. \A h : [q EXCEPT !.ready = h].etas = e BY <1>16
  <2>2. p.left.etas = e BY <1>14, <2>1
  <2>3. \A j \in Members(c) : e[j] = IF c.etas[j] > time THEN c.etas[j] ELSE 0
    BY <1>6, <1>8, <1>9
  <2> QED BY <2>2, <2>3
<1>18. ASSUME stays
       PROVE  /\ p.job = PopOfSet(Members(c), c.etas, time, sequential)
              /\ p.left \in QueuesOf(J) /\ Members(p.left) = Members(c) \ {p.job}
  <2>1. p.job = 0 BY <1>14, <1>18
  <2>2. p.left = [late |-> l, ready |-> Settled(r, e), etas |-> e]
    BY <1>14, <1>16, <1>18
  <2>3. PICK s \in Heaps(J) : s = Settled(r, e) /\ s.known \subseteq r.known /\ Live(s) = ready
    BY <1>5, SettledLive
  <2>4. p.left \in QueuesOf(J)
    <3>1. \A k \in s.known : e[k] = 0 BY <1>2, <2>3
    <3>2. [late |-> l, ready |-> s, etas |-> e] \in QueuesOf(J) BY <1>2, <3>1, IsQueue
    <3> QED BY <2>2, <2>3, <3>2
  <2>5. Members(p.left) = Members(c)
    BY <1>4, <1>6, <2>2, <2>3 DEF Members
  <2>6. 0 \notin Members(c) BY <1>6
  <2> QED BY <1>11, <1>15, <1>18, <2>1, <2>4, <2>5, <2>6
<1>19. ASSUME ~stays
       PROVE  /\ p.job = PopOfSet(Members(c), c.etas, time, sequential)
              /\ p.left \in QueuesOf(J) /\ Members(p.left) = Members(c) \ {p.job}
  <2>1. p.job = IF ready = {} THEN 0 ELSE First(ready, e)
    BY <1>14, <1>19
  <2>2. p.left = [late |-> l, ready |-> HeapPop(r, e), etas |-> e]
    BY <1>14, <1>16, <1>19
  <2>3. PICK s \in Heaps(J) :
          /\ s = HeapPop(r, e) /\ s.known \subseteq r.known
          /\ ready = {} => Live(s) = {}
          /\ ready # {} => Live(s) = ready \ {First(ready, e)}
    BY <1>5, HeapPopLive
  <2>4. p.left \in QueuesOf(J)
    <3>1. \A k \in s.known : e[k] = 0 BY <1>2, <2>3
    <3>2. [late |-> l, ready |-> s, etas |-> e] \in QueuesOf(J) BY <1>2, <3>1, IsQueue
    <3> QED BY <2>2, <2>3, <3>2
  <2>5. Members(p.left) = late \cup Live(s)
    BY <1>4, <2>2, <2>3 DEF Members
  <2>6. CASE ready = {}
    <3>1. 0 \notin Members(c) BY <1>6
    <3> QED BY <1>6, <1>11, <2>1, <2>3, <2>4, <2>5, <2>6, <3>1
  <2>7. CASE ready # {}
    <3>1. First(ready, e) \notin late BY <1>10, <1>13, <2>7
    <3>2. ~held BY <1>15, <1>19, <2>7
    <3> QED BY <1>6, <1>11, <1>13, <2>1, <2>3, <2>4, <2>5, <2>7, <3>1, <3>2
  <2> QED BY <2>6, <2>7
<1> QED BY <1>14, <1>17, <1>18, <1>19
(* What the manager does when it visits a channel is what the channel's    *)
(* queue yields, however its two heaps came to be: Channels pops when the  *)
(* queue does, the same job, and leaves the same jobs with the same etas.  *)
THEOREM PopIsTheQueues ==
  ASSUME TypeOK, 0 \notin Jobs, NEW c \in Channels,
         NEW q \in QueuesOf(Jobs), Members(q) = queue[c], \A j \in queue[c] : q.etas[j] = wait[j]
  PROVE  /\ CanPop(c) <=> Popping(c) /\ Popped(q, now, c \in Sequential).job # 0
         /\ Popped(q, now, c \in Sequential).job # 0 =>
              /\ Popped(q, now, c \in Sequential).job \in Ready(c)
              /\ \A k \in Ready(c) : Popped(q, now, c \in Sequential).job <= k
         /\ Popped(q, now, c \in Sequential).left \in QueuesOf(Jobs)
         /\ Members(Popped(q, now, c \in Sequential).left)
              = queue[c] \ {Popped(q, now, c \in Sequential).job}
         /\ \A j \in queue[c] : Popped(q, now, c \in Sequential).left.etas[j]
                                  = IF j \in Ready(c) THEN 0 ELSE wait[j]
<1>1. /\ Jobs \in SUBSET (Nat \ {0}) /\ IsFiniteSet(Jobs) /\ now \in Nat
      /\ queue[c] \in SUBSET Jobs /\ wait \in [Jobs -> Nat] /\ q.etas \in [Jobs -> Nat]
  BY ChannelsAssumption, QueueType DEF TypeOK
<1>2. PICK late \in SUBSET Jobs :
        /\ late = Late(c)
        /\ late = {j \in queue[c] : wait[j] > now}
        /\ late = {j \in queue[c] : q.etas[j] > now}
  BY <1>1 DEF Late
<1>3. PICK ready \in SUBSET Jobs : ready = Ready(c) /\ ready = queue[c] \ late
  BY <1>1, <1>2 DEF Ready
<1> DEFINE held == /\ c \in Sequential /\ late # {}
                   /\ \A j \in ready : First(late, q.etas) < j
<1>4. PICK p : p = Popped(q, now, c \in Sequential) OBVIOUS
<1>5. /\ p.job = PopOfSet(Members(q), q.etas, now, c \in Sequential)
      /\ p.left \in QueuesOf(Jobs) /\ Members(p.left) = Members(q) \ {p.job}
      /\ \A j \in Members(q) : p.left.etas[j] = IF q.etas[j] > now THEN q.etas[j] ELSE 0
  <2>1. ASSUME NEW b
        PROVE  /\ Popped(q, now, b).job = PopOfSet(Members(q), q.etas, now, b)
               /\ Popped(q, now, b).left \in QueuesOf(Jobs)
               /\ Members(Popped(q, now, b).left) = Members(q) \ {Popped(q, now, b).job}
               /\ \A j \in Members(q) : Popped(q, now, b).left.etas[j]
                                          = IF q.etas[j] > now THEN q.etas[j] ELSE 0
    BY <1>1, PopsTheLeastOne
  <2> QED BY <1>4, <2>1
<1>6. p.job = IF ready = {} \/ held THEN 0 ELSE CHOOSE j \in ready : \A k \in ready : j <= k
  BY <1>2, <1>3, <1>5 DEF PopOfSet
<1>7. HeldBack(c) <=> held
  <2>1. CASE late = {} BY <1>2, <2>1 DEF HeldBack
  <2>2. CASE late # {}
    <3>1. PICK f \in late : /\ f = First(late, q.etas)
                            /\ \A x \in late \ {f} : Less(q.etas, f, x)
      <4>1. PICK e \in [Jobs -> Nat] : e = q.etas BY <1>1
      <4>2. Jobs \in SUBSET Nat BY <1>1
      <4>3. First(late, e) \in late /\ \A x \in late \ {First(late, e)} : Less(e, First(late, e), x)
        BY <2>2, <4>2, FirstIs
      <4> QED BY <4>1, <4>3
    <3>2. \A x \in late : x \in Nat /\ wait[x] \in Nat /\ q.etas[x] = wait[x] BY <1>1, <1>2
    <3>3. \A x \in late : Before(f, x) BY <3>1, <3>2 DEF Before, Less
    <3>4. \A g \in late : (\A x \in late : Before(g, x)) => g = f
      <4>1. ASSUME NEW g \in late, Before(g, f), g # f PROVE FALSE
        <5>1. Less(q.etas, f, g) BY <3>1, <4>1
        <5> QED BY <3>1, <3>2, <4>1, <5>1 DEF Before, Less
      <4> QED BY <3>1, <4>1
    <3> QED BY <1>2, <1>3, <2>2, <3>1, <3>3, <3>4 DEF HeldBack
  <2> QED BY <2>1, <2>2
<1>8. ready # {} => \E j \in ready : /\ \A k \in ready : j <= k
                                     /\ j = CHOOSE i \in ready : \A k \in ready : i <= k
  <2>1. ready \in SUBSET Nat BY <1>1
  <2>2. ready # {} => \E j \in ready : \A k \in ready : j <= k BY <2>1, LeastNumber
  <2> QED BY <2>2
<1>9. 0 \notin ready BY <1>1
<1> HIDE DEF held
<1>10. /\ p.job # 0 <=> ready # {} /\ ~held
       /\ p.job # 0 => p.job \in ready /\ \A k \in ready : p.job <= k
  BY <1>6, <1>8, <1>9
<1>11. CanPop(c) <=> Popping(c) /\ p.job # 0 BY <1>3, <1>7, <1>10 DEF CanPop, Popping
<1>12. \A j \in queue[c] : p.left.etas[j] = IF j \in Ready(c) THEN 0 ELSE wait[j]
  BY <1>2, <1>3, <1>5
<1> QED BY <1>3, <1>4, <1>5, <1>10, <1>11, <1>12

(* ChannelQueue.get_wakeup_time: the first eta of the jobs in the queue,   *)
(* removed ones aside.                                                     *)
THEOREM WakesForTheFirstOne ==
  ASSUME NEW J \in SUBSET Nat, NEW c \in QueuesOf(J)
  PROVE  LET etas == {c.etas[j] : j \in Members(c)} \ {0}
         IN  /\ etas = {} => get_wakeup_time(c) = 0
             /\ etas # {} => /\ get_wakeup_time(c) \in etas
                             /\ \A u \in etas : get_wakeup_time(c) <= u
<1> DEFINE etas == {c.etas[j] : j \in Members(c)} \ {0}
<1>1. PICK l \in Heaps(J), r \in Heaps(J), e \in [J -> Nat] :
        /\ c = [late |-> l, ready |-> r, etas |-> e]
        /\ \A k \in l.known : e[k] # 0
        /\ \A k \in r.known : e[k] = 0
  BY QueueType
<1>2. PICK late \in SUBSET J : late = Live(l) /\ late \subseteq l.known BY HeapType
<1>3. PICK ready \in SUBSET J : ready = Live(r) /\ ready \subseteq r.known BY HeapType
<1>4. etas = {e[j] : j \in late}
  <2>1. Members(c) = late \cup ready BY <1>1, <1>2, <1>3 DEF Members
  <2>2. c.etas = e BY <1>1
  <2>3. \A j \in late : e[j] # 0 BY <1>1, <1>2
  <2>4. \A j \in ready : e[j] = 0 BY <1>1, <1>3
  <2> QED BY <2>1, <2>2, <2>3, <2>4
<1>5. get_wakeup_time(c) = IF late = {} THEN 0 ELSE e[First(late, e)]
  BY <1>1, <1>2 DEF get_wakeup_time
<1>6. CASE late = {} BY <1>4, <1>5, <1>6
<1>7. CASE late # {}
  <2>1. PICK f \in late : f = First(late, e) /\ \A x \in late \ {f} : Less(e, f, x)
    <3>1. First(late, e) \in late /\ \A x \in late \ {First(late, e)} : Less(e, First(late, e), x)
      BY <1>7, FirstIs
    <3> QED BY <3>1
  <2>2. \A x \in late : e[x] \in Nat OBVIOUS
  <2>3. \A x \in late : e[f] <= e[x] BY <2>1, <2>2 DEF Less
  <2>4. get_wakeup_time(c) = e[f] BY <1>5, <1>7, <2>1
  <2> QED BY <1>4, <2>1, <2>3, <2>4
<1> QED BY <1>6, <1>7

-------------------------------------------------------------------------------
(* The names of channels.                                                  *)

(* The channels a manager knows: the root, and others each with all those    *)
(* between it and the root.                                                  *)
KnownTree(tree, S) ==
    /\ RootName \in DOMAIN tree
    /\ \A x \in DOMAIN tree :
         /\ x \in Seq(S) /\ x # <<>> /\ x[1] = "root"
         /\ Lineage(x) \subseteq DOMAIN tree

LEMMA Joined ==
  ASSUME NEW S, NEW a \in Seq(S), NEW b \in Seq(S)
  PROVE  /\ a \o b \in Seq(S) /\ Len(a \o b) = Len(a) + Len(b)
         /\ \A i \in 1..Len(a) : (a \o b)[i] = a[i]
         /\ \A i \in 1..(Len(a) + Len(b)) : i > Len(a) => (a \o b)[i] = b[i - Len(a)]
OBVIOUS

LEMMA LineageIs ==
  ASSUME NEW S, NEW a \in Seq(S), NEW b \in Seq(S), a # <<>>
  PROVE  a \in Lineage(b) <=> Len(a) <= Len(b) /\ \A i \in 1..Len(a) : a[i] = b[i]
<1>1. Len(a) \in Nat \ {0} /\ Len(b) \in Nat OBVIOUS
<1>2. ASSUME Len(a) <= Len(b), \A i \in 1..Len(a) : a[i] = b[i]
      PROVE  a \in Lineage(b)
  <2> DEFINE c == SubSeq(b, 1, Len(a))
  <2>1. c \in Seq(S) /\ Len(c) = Len(a) /\ \A i \in 1..Len(a) : c[i] = b[i]
    BY <1>1, <1>2
  <2>2. Len(a) \in 1..Len(b) BY <1>1, <1>2
  <2>3. c \in Lineage(b) BY <2>2 DEF Lineage
  <2> HIDE DEF c
  <2> QED BY <1>2, <2>1, <2>3
<1>3. ASSUME NEW l \in 1..Len(b), a = SubSeq(b, 1, l)
      PROVE  Len(a) <= Len(b) /\ \A i \in 1..Len(a) : a[i] = b[i]
  <2>1. Len(SubSeq(b, 1, l)) = l /\ \A i \in 1..l : SubSeq(b, 1, l)[i] = b[i] BY <1>1
  <2>2. l <= Len(b) OBVIOUS
  <2> QED BY <1>3, <2>1, <2>2
<1> QED BY <1>2, <1>3 DEF Lineage

LEMMA LineageMatches ==
  ASSUME NEW S, NEW full \in Seq(S), NEW a \in Lineage(full)
  PROVE  \A i \in 1..Len(a) : a[i] = full[i]
<1>1. PICK k \in 1..Len(full) : a = SubSeq(full, 1, k) BY DEF Lineage
<1>2. Len(a) = k /\ \A i \in 1..k : a[i] = full[i] BY <1>1
<1> QED BY <1>2

(* Names of one lineage: the longer one has the other in its own, and two    *)
(* that have each other are the same.                                        *)
LEMMA LineagesNest ==
  ASSUME NEW S, NEW full \in Seq(S), NEW a \in Lineage(full), NEW b \in Lineage(full)
  PROVE  /\ a \in Seq(S) /\ a # <<>> /\ Len(a) \in 1..Len(full)
         /\ Len(a) = Len(full) => a = full
         /\ Len(a) <= Len(b) => a \in Lineage(b)
         /\ a \in Lineage(b) => Len(a) <= Len(b)
         /\ Len(a) = Len(b) => a = b
<1>1. Len(full) \in Nat /\ SubSeq(full, 1, Len(full)) = full OBVIOUS
<1>2. PICK k \in 1..Len(full) : a = SubSeq(full, 1, k) BY DEF Lineage
<1>3. PICK l \in 1..Len(full) : b = SubSeq(full, 1, l) BY DEF Lineage
<1>4. a \in Seq(S) /\ Len(a) = k /\ \A i \in 1..k : a[i] = full[i] BY <1>1, <1>2
<1>5. b \in Seq(S) /\ Len(b) = l /\ \A i \in 1..l : b[i] = full[i] BY <1>1, <1>3
<1>6. a # <<>> BY <1>4
<1>7. k <= l => \A i \in 1..k : a[i] = b[i]
  <2>1. k <= l => \A i \in 1..k : i \in 1..l OBVIOUS
  <2> QED BY <1>4, <1>5, <2>1
<1>8. a \in Lineage(b) <=> k <= l
  <2>1. a \in Lineage(b) <=> Len(a) <= Len(b) /\ \A i \in 1..Len(a) : a[i] = b[i]
    BY <1>4, <1>5, <1>6, LineageIs
  <2> QED BY <1>4, <1>5, <1>7, <2>1
<1> QED BY <1>1, <1>2, <1>3, <1>4, <1>5, <1>6, <1>8

LEMMA FullNameIs ==
  ASSUME NEW S, "root" \in S, NEW name \in Seq(S)
  PROVE  LET full == FullName(name)
         IN  /\ full \in Seq(S) /\ full # <<>> /\ full[1] = "root" /\ Len(full) \in Nat \ {0}
             /\ Tail(full) \in Seq(S) /\ Len(Tail(full)) = Len(full) - 1
             /\ \A i \in 1..(Len(full) - 1) : Tail(full)[i] = full[i + 1]
             /\ full = RootName \o Tail(full)
             /\ RootName \in Lineage(full)
<1> DEFINE full == FullName(name)
<1>1. RootName \in Seq(S) /\ Len(RootName) = 1 /\ RootName[1] = "root" /\ RootName # <<>>
  BY DEF RootName
<1>2. full \in Seq(S) /\ full # <<>> /\ full[1] = "root"
  <2>1. CASE name = <<>> \/ Head(name) # "root"
    <3>1. full = RootName \o name BY <2>1 DEF FullName
    <3> QED BY <1>1, <3>1
  <2>2. CASE name # <<>> /\ Head(name) = "root"
    <3>1. full = name /\ name[1] = "root" BY <2>2 DEF FullName
    <3> QED BY <2>2, <3>1
  <2> QED BY <2>1, <2>2
<1> HIDE DEF full
<1>3. PICK tail : tail = Tail(full) OBVIOUS
<1>4. Len(full) \in Nat \ {0} /\ tail \in Seq(S) /\ Len(tail) = Len(full) - 1
      /\ \A i \in 1..(Len(full) - 1) : tail[i] = full[i + 1]
  BY <1>2, <1>3
<1>5. full = RootName \o tail
  <2> DEFINE a == RootName \o tail
  <2>1. /\ a \in Seq(S) /\ Len(a) = 1 + Len(tail) /\ \A i \in 1..1 : a[i] = RootName[i]
        /\ \A i \in 1..(1 + Len(tail)) : i > 1 => a[i] = tail[i - 1]
    <3>1. Len(RootName) = 1 /\ RootName \in Seq(S) /\ tail \in Seq(S) BY <1>1, <1>4
    <3> HIDE DEF a
    <3>2. /\ a \in Seq(S) /\ Len(a) = Len(RootName) + Len(tail)
          /\ \A i \in 1..Len(RootName) : a[i] = RootName[i]
          /\ \A i \in 1..(Len(RootName) + Len(tail)) :
               i > Len(RootName) => a[i] = tail[i - Len(RootName)]
      BY <3>1, Joined DEF a
    <3> QED BY <3>1, <3>2
  <2>2. ASSUME NEW i \in 1..Len(full) PROVE a[i] = full[i]
    <3>1. CASE i = 1 BY <1>1, <1>2, <2>1, <3>1
    <3>2. CASE i # 1
      <4>0. i \in 1..(1 + Len(tail)) /\ i > 1 BY <1>4, <3>2
      <4>1. a[i] = tail[i - 1] /\ i - 1 \in 1..(Len(full) - 1) BY <1>4, <2>1, <4>0
      <4>2. (i - 1) + 1 = i BY <1>4
      <4> QED BY <1>4, <4>1, <4>2
    <3> QED BY <3>1, <3>2
  <2> HIDE DEF a
  <2>3. Len(a) = Len(full) BY <1>4, <2>1
  <2>4. a = full BY <1>2, <2>1, <2>2, <2>3
  <2> QED BY <2>4 DEF a
<1>6. RootName \in Lineage(full) BY <1>1, <1>2, <1>4, LineageIs
<1> QED BY <1>2, <1>3, <1>4, <1>5, <1>6 DEF full

(* What is put at the end of a name changes nothing above it. *)
LEMMA LineageGrows ==
  ASSUME NEW S, NEW p \in Seq(S), NEW b \in Seq(S)
  PROVE  Lineage(p) \subseteq Lineage(p \o b) /\ p \o b \in Seq(S)
<1> SUFFICES ASSUME NEW a \in Lineage(p) PROVE a \in Lineage(p \o b) OBVIOUS
<1>1. PICK l \in 1..Len(p) : a = SubSeq(p, 1, l) BY DEF Lineage
<1>2. Len(p) \in Nat /\ Len(b) \in Nat OBVIOUS
<1>3. PICK c : c = p \o b OBVIOUS
<1>4. c \in Seq(S) /\ Len(c) = Len(p) + Len(b) /\ \A i \in 1..Len(p) : c[i] = p[i]
  BY <1>3, Joined
<1>5. a \in Seq(S) /\ Len(a) = l /\ l # 0 /\ \A i \in 1..l : a[i] = p[i] BY <1>1, <1>2
<1>6. \A i \in 1..l : i \in 1..Len(p) BY <1>2
<1>7. Len(a) <= Len(c) BY <1>2, <1>4, <1>5
<1>8. a # <<>> BY <1>5
<1> QED BY <1>3, <1>4, <1>5, <1>6, <1>7, <1>8, LineageIs

(* There is a nearest channel above a name: the longest name of its lineage  *)
(* that is known.                                                            *)
LEMMA FallbackIs ==
  ASSUME NEW S, NEW tree, RootName \in DOMAIN tree,
         NEW full \in Seq(S), RootName \in Lineage(full), RootName # full
  PROVE  LET p     == Fallback(tree, full)
             above == (Lineage(full) \ {full}) \cap DOMAIN tree
         IN  p \in above /\ above \subseteq Lineage(p)
<1> DEFINE A == (Lineage(full) \ {full}) \cap DOMAIN tree
           T == {n \in Nat : \E q \in A : n = Len(full) - Len(q)}
<1>1. \A q \in A : Len(q) \in Nat /\ Len(full) \in Nat /\ Len(q) <= Len(full)
  BY LineagesNest
<1>2. \A q \in A : Len(full) - Len(q) \in T BY <1>1
<1>3. PICK n \in T : \A k \in T : n <= k
  <2>1. T \in SUBSET Nat /\ T # {} BY <1>2
  <2> HIDE DEF T
  <2> QED BY <2>1, LeastNumber
<1>4. PICK p \in A : n = Len(full) - Len(p) OBVIOUS
<1> HIDE DEF T
<1>5. ASSUME NEW q \in A PROVE q \in Lineage(p)
  <2>1. n <= Len(full) - Len(q) BY <1>2, <1>3
  <2>2. Len(q) <= Len(p) BY <1>1, <1>4, <2>1
  <2> QED BY <2>2, LineagesNest
<1>6. \E x \in A : A \subseteq Lineage(x) BY <1>5
<1> QED BY <1>6 DEF Fallback

(* "Look for first direct parent w/ config": a job is under the limits of    *)
(* every channel that is known above the name it has, in any tree.           *)
THEOREM UnderItsLimits ==
  ASSUME NEW S, "root" \in S, NEW tree, RootName \in DOMAIN tree, NEW name \in Seq(S)
  PROVE  Lineage(FullName(name)) \cap DOMAIN tree
           \subseteq Lineage(get_channel_by_name(tree, name))
<1> DEFINE full == FullName(name)
           p == Fallback(tree, full)
<1>1. full \in Seq(S) /\ RootName \in Lineage(full) /\ Tail(full) \in Seq(S) BY FullNameIs
<1> HIDE DEF full
<1> SUFFICES ASSUME NEW a \in Lineage(full) \cap DOMAIN tree
             PROVE  a \in Lineage(get_channel_by_name(tree, name))
  BY DEF full
<1>2. CASE full \in DOMAIN tree BY <1>2 DEF get_channel_by_name, full
<1>3. CASE full \notin DOMAIN tree
  <2>1. get_channel_by_name(tree, name) = p \o Tail(full)
    BY <1>3 DEF get_channel_by_name, full
  <2>2. p \in Lineage(full) /\ a \in Lineage(p)
    BY <1>1, <1>3, FallbackIs
  <2> HIDE DEF p
  <2>3. p \in Seq(S) BY <1>1, <2>2, LineagesNest
  <2> QED BY <1>1, <2>1, <2>2, <2>3, LineageGrows
<1> QED BY <1>2, <1>3

LEMMA ChannelIs ==
  ASSUME NEW S, "root" \in S, NEW tree, KnownTree(tree, S), NEW name \in Seq(S)
  PROVE  LET full == FullName(name)
             c    == get_channel_by_name(tree, name)
             p    == Fallback(tree, full)
         IN  /\ c \in Seq(S) /\ c # <<>> /\ c[1] = "root" /\ c \in Lineage(c)
             /\ full \in DOMAIN tree => c = full
             /\ full \notin DOMAIN tree =>
                  /\ c = p \o Tail(full)
                  /\ p = RootName => c = full
                  /\ p \in DOMAIN tree /\ p \in Lineage(full) /\ p \in Seq(S) /\ p # full
                  /\ (Lineage(full) \ {full}) \cap DOMAIN tree \subseteq Lineage(p)
<1> DEFINE full == FullName(name)
           c == get_channel_by_name(tree, name)
           p == Fallback(tree, full)
<1>1. /\ full \in Seq(S) /\ full # <<>> /\ full[1] = "root" /\ Tail(full) \in Seq(S)
      /\ full = RootName \o Tail(full) /\ RootName \in Lineage(full)
  BY FullNameIs
<1> HIDE DEF full
<1>2. ASSUME NEW x \in Seq(S), x # <<>> PROVE x \in Lineage(x) BY <1>2, LineageIs
<1>3. CASE full \in DOMAIN tree
  <2>1. c = full BY <1>3 DEF get_channel_by_name, full
  <2> QED BY <1>1, <1>2, <1>3, <2>1 DEF full
<1>4. CASE full \notin DOMAIN tree
  <2>1. c = p \o Tail(full) BY <1>4 DEF get_channel_by_name, full
  <2>2. /\ p \in DOMAIN tree /\ p \in Lineage(full) /\ p # full
        /\ (Lineage(full) \ {full}) \cap DOMAIN tree \subseteq Lineage(p)
    <3>1. RootName \in DOMAIN tree BY DEF KnownTree
    <3> QED BY <1>1, <1>4, <3>1, FallbackIs
  <2> HIDE DEF p, c
  <2>3. p \in Seq(S) /\ p # <<>> /\ p[1] = "root" BY <2>2 DEF KnownTree
  <2>4. p = RootName => c = full BY <1>1, <2>1
  <2>5. c \in Seq(S) /\ c # <<>> /\ c[1] = "root"
    <3>1. c \in Seq(S) /\ Len(c) = Len(p) + Len(Tail(full)) /\ \A i \in 1..Len(p) : c[i] = p[i]
      BY <1>1, <2>1, <2>3, Joined
    <3>2. Len(p) \in Nat \ {0} /\ 1 \in 1..Len(p) /\ Len(Tail(full)) \in Nat BY <1>1, <2>3
    <3>3. c[1] = p[1] /\ Len(c) # 0 BY <3>1, <3>2
    <3> QED BY <2>3, <3>1, <3>3
  <2> QED BY <1>2, <1>4, <2>1, <2>2, <2>3, <2>4, <2>5 DEF full, p, c
<1> QED BY <1>3, <1>4

LEMMA TreeGrows ==
  ASSUME NEW S, NEW tree, KnownTree(tree, S),
         NEW full \in Seq(S), full # <<>>, full[1] = "root"
  PROVE  /\ KnownTree(Grown(tree, full), S)
         /\ DOMAIN Grown(tree, full) = DOMAIN tree \cup Lineage(full)
         /\ full \in Lineage(full)
<1>1. DOMAIN Grown(tree, full) = DOMAIN tree \cup Lineage(full) BY DEF Grown
<1>2. ASSUME NEW x \in Lineage(full)
      PROVE  x \in Seq(S) /\ x # <<>> /\ x[1] = "root" /\ Lineage(x) \subseteq Lineage(full)
  <2>1. x \in Seq(S) /\ x # <<>> /\ Len(x) \in 1..Len(full) BY LineagesNest
  <2>2. \A i \in 1..Len(x) : x[i] = full[i] BY <2>1, LineageIs
  <2>3. 1 \in 1..Len(x) BY <2>1
  <2>4. ASSUME NEW y \in Lineage(x) PROVE y \in Lineage(full)
    <3>1. y \in Seq(S) /\ y # <<>> /\ Len(y) \in 1..Len(x) BY <2>1, LineagesNest
    <3>2. \A i \in 1..Len(y) : y[i] = x[i] BY <2>1, <3>1, LineageIs
    <3>3. Len(y) <= Len(full) /\ \A i \in 1..Len(y) : i \in 1..Len(x) BY <2>1, <3>1
    <3>4. \A i \in 1..Len(y) : y[i] = full[i] BY <2>2, <3>2, <3>3
    <3> QED BY <3>1, <3>3, <3>4, LineageIs
  <2> QED BY <2>1, <2>2, <2>3, <2>4
<1>3. full \in Lineage(full) BY LineageIs
<1> QED BY <1>1, <1>2, <1>3 DEF KnownTree

(* What the manager makes for another name lies on the way to this one only  *)
(* as far as it was known: below that, the new names repeat a segment.       *)
LEMMA NothingBetween ==
  ASSUME NEW S, "root" \in S, NEW tree, KnownTree(tree, S),
         NEW name \in Seq(S), NEW other \in Seq(S), NoRepeat(FullName(name)),
         FullName(name) \notin DOMAIN tree, Fallback(tree, FullName(name)) # RootName
  PROVE  Lineage(FullName(name)) \cap Lineage(get_channel_by_name(tree, other))
           \subseteq DOMAIN tree
<1> DEFINE F == FullName(name)
           p == Fallback(tree, F)
           M == FullName(other)
           o == Fallback(tree, M)
           q == get_channel_by_name(tree, other)
<1> SUFFICES ASSUME NEW x \in Lineage(F) \cap Lineage(q), x \notin DOMAIN tree PROVE FALSE
  OBVIOUS
<1>1. F \in Seq(S) /\ RootName \in Lineage(F) /\ Len(F) \in Nat BY FullNameIs
<1>2. /\ M \in Seq(S) /\ RootName \in Lineage(M) /\ Tail(M) \in Seq(S) /\ Len(M) \in Nat
      /\ Len(Tail(M)) = Len(M) - 1 /\ \A i \in 1..(Len(M) - 1) : Tail(M)[i] = M[i + 1]
  BY FullNameIs
<1>3. /\ p \in DOMAIN tree /\ p \in Lineage(F) /\ p # RootName
      /\ (Lineage(F) \ {F}) \cap DOMAIN tree \subseteq Lineage(p)
  <2> HIDE DEF p, F
  <2> QED BY ChannelIs DEF p, F
<1>4. /\ q \in Seq(S)
      /\ M \in DOMAIN tree => q = M
      /\ M \notin DOMAIN tree =>
           /\ q = o \o Tail(M)
           /\ o = RootName => q = M
           /\ o \in DOMAIN tree /\ o \in Lineage(M) /\ o \in Seq(S) /\ o # M
           /\ (Lineage(M) \ {M}) \cap DOMAIN tree \subseteq Lineage(o)
  <2> HIDE DEF q, o, M
  <2> QED BY ChannelIs DEF q, o, M
<1>5. NoRepeat(F) OBVIOUS
<1>6. \A y \in DOMAIN tree : Lineage(y) \subseteq DOMAIN tree BY DEF KnownTree
<1>7. RootName \in Seq(S) /\ Len(RootName) = 1 BY DEF RootName
<1> HIDE DEF F, p, M, o, q
<1>8. /\ x \in Seq(S) /\ x # <<>> /\ Len(x) \in 1..Len(F) /\ Len(x) \in 1..Len(q)
      /\ \A i \in 1..Len(x) : x[i] = F[i] /\ x[i] = q[i]
  <2>1. x \in Seq(S) /\ x # <<>> /\ Len(x) \in 1..Len(F) /\ Len(x) \in 1..Len(q)
    BY <1>1, <1>4, LineagesNest
  <2> QED BY <1>1, <1>4, <2>1, LineageIs
<1>9. M \notin DOMAIN tree BY <1>4, <1>6
<1>10. Len(p) \in Nat /\ 2 <= Len(p) /\ Len(p) < Len(x) /\ p \in Seq(S) /\ p # <<>>
  <2>1. p \in Seq(S) /\ p # <<>> /\ Len(p) \in 1..Len(F) BY <1>1, <1>3, LineagesNest
  <2>2. Len(p) # 1 BY <1>1, <1>3, <1>7, LineagesNest
  <2>3. ~(Len(x) <= Len(p)) BY <1>1, <1>3, <1>6, LineagesNest
  <2>4. Len(p) \in Nat /\ 1 <= Len(p) BY <1>1, <2>1
  <2>5. 2 <= Len(p)
    <3>1. PICK n \in Nat : n = Len(p) BY <2>4
    <3>2. n # 1 /\ 1 <= n BY <2>2, <2>4, <3>1
    <3>3. 2 <= n BY <3>2
    <3> QED BY <3>1, <3>3
  <2>6. Len(p) < Len(x) BY <1>8, <2>3, <2>4
  <2> QED BY <2>1, <2>4, <2>5, <2>6
<1>11. /\ o \in Seq(S) /\ o # <<>> /\ Len(o) \in 1..Len(M) /\ Len(o) < Len(M)
       /\ \A i \in 1..Len(o) : o[i] = M[i]
  <2>1. o \in Lineage(M) /\ o # M BY <1>4, <1>9
  <2>2. o \in Seq(S) /\ o # <<>> /\ Len(o) \in 1..Len(M) /\ Len(o) # Len(M)
    BY <1>2, <2>1, LineagesNest
  <2>3. \A i \in 1..Len(o) : o[i] = M[i]
    <3>1. M \in Seq(S) BY <1>2
    <3> QED BY <2>1, <3>1, LineageMatches
  <2>4. Len(o) < Len(M) BY <1>2, <2>2
  <2> QED BY <2>2, <2>3, <2>4
<1>12. CASE o = RootName
  (* then p would be nearer to the other name than the root *)
  <2>1. q = M BY <1>4, <1>9, <1>12
  <2>2. p \in Lineage(x) BY <1>1, <1>3, <1>10, LineagesNest
  <2>3. \A i \in 1..Len(p) : p[i] = x[i] BY <1>8, <1>10, <2>2, LineageIs
  <2>4. \A i \in 1..Len(p) : i \in 1..Len(x) BY <1>8, <1>10
  <2>5. Len(p) < Len(M) /\ \A i \in 1..Len(p) : p[i] = M[i] BY <1>2, <1>8, <1>10, <2>1, <2>3, <2>4
  <2>6. p \in Lineage(M) /\ p # M BY <1>2, <1>10, <2>5, LineageIs
  <2>7. p \in Lineage(o) BY <1>3, <1>4, <1>9, <2>6
  <2>8. Len(p) <= Len(o) BY <1>2, <1>4, <1>9, <2>6, <2>7, LineagesNest
  <2>9. Len(o) = 1 BY <1>7, <1>12
  <2> HIDE DEF RootName
  <2> QED BY <1>10, <2>8, <2>9
<1>13. CASE o # RootName
  (* then the second segment comes again after o *)
  <2>1. Len(o) \in Nat /\ 2 <= Len(o)
    <3>1. Len(o) # 1 BY <1>2, <1>4, <1>7, <1>9, <1>13, LineagesNest
    <3>2. Len(o) \in Nat /\ 1 <= Len(o) BY <1>2, <1>11
    <3>3. PICK n \in Nat : n = Len(o) BY <3>2
    <3>4. n # 1 /\ 1 <= n BY <3>1, <3>2, <3>3
    <3>5. 2 <= n BY <3>4
    <3> QED BY <3>2, <3>3, <3>5
  <2>2. /\ \A i \in 1..Len(o) : q[i] = o[i]
        /\ q[Len(o) + 1] = M[2] /\ Len(o) + 1 <= Len(q) /\ Len(q) = Len(o) + Len(M) - 1
    <3>1. q = o \o Tail(M) BY <1>4, <1>9
    <3>2. /\ Len(q) = Len(o) + Len(Tail(M))
          /\ \A i \in 1..Len(o) : q[i] = o[i]
          /\ \A i \in 1..(Len(o) + Len(Tail(M))) : i > Len(o) => q[i] = Tail(M)[i - Len(o)]
      BY <1>2, <1>11, <3>1, Joined
    <3>3. Len(o) + 1 \in 1..(Len(o) + Len(Tail(M))) /\ Len(o) + 1 > Len(o)
          /\ (Len(o) + 1) - Len(o) = 1 /\ 1 \in 1..(Len(M) - 1)
      BY <1>2, <1>11, <2>1
    <3>4. q[Len(o) + 1] = Tail(M)[1] BY <3>2, <3>3
    <3>5. Tail(M)[1] = M[1 + 1] BY <1>2, <3>3
    <3> QED BY <1>2, <1>11, <2>1, <3>2, <3>3, <3>4, <3>5
  <2>3. Len(o) < Len(x)
    <3>1. SUFFICES ASSUME Len(x) <= Len(o) PROVE FALSE BY <1>8, <2>1
    <3>2. \A i \in 1..Len(x) : i \in 1..Len(o) BY <1>8, <2>1, <3>1
    <3>3. \A i \in 1..Len(x) : x[i] = o[i] BY <1>8, <2>2, <3>2
    <3>4. x \in Lineage(o) BY <1>8, <1>11, <3>1, <3>3, LineageIs
    <3> QED BY <1>4, <1>6, <1>9, <3>4
  <2>4. 2 \in 1..Len(x) /\ Len(o) + 1 \in 1..Len(x) /\ 2 \in 1..Len(o) BY <1>8, <2>1, <2>3
  <2>5. F[2] = M[2] /\ F[Len(o) + 1] = M[2] BY <1>8, <1>11, <2>2, <2>4
  <2>6. DOMAIN F = 1..Len(F) BY <1>1
  <2>7. 2 \in DOMAIN F /\ Len(o) + 1 \in DOMAIN F BY <1>1, <1>8, <2>4, <2>6
  <2>8. 2 = Len(o) + 1 BY <1>5, <2>5, <2>7 DEF NoRepeat
  <2> QED BY <2>1, <2>8
<1> QED BY <1>12, <1>13

LEMMA ChannelStays ==
  ASSUME NEW S, "root" \in S, NEW tree, KnownTree(tree, S),
         NEW name \in Seq(S), NEW other \in Seq(S), NoRepeat(FullName(name)),
         get_channel_by_name(tree, name) \in DOMAIN tree \/ other = name
  PROVE  /\ KnownTree(Heard(tree, other), S)
         /\ get_channel_by_name(tree, name) \in DOMAIN Heard(tree, other)
         /\ get_channel_by_name(Heard(tree, other), name) = get_channel_by_name(tree, name)
<1> DEFINE F == FullName(name)
           c == get_channel_by_name(tree, name)
           q == get_channel_by_name(tree, other)
           G == Heard(tree, other)
<1>1. /\ c \in Lineage(c) /\ F \in Seq(S)
      /\ F \in DOMAIN tree => c = F
      /\ F \notin DOMAIN tree =>
           c = Fallback(tree, F) \o Tail(F) /\ (Fallback(tree, F) = RootName => c = F)
  <2> HIDE DEF F, c
  <2> QED BY ChannelIs, FullNameIs DEF F, c
<1>2. KnownTree(G, S) /\ DOMAIN G = DOMAIN tree \cup Lineage(q)
  <2>1. q \in Seq(S) /\ q # <<>> /\ q[1] = "root" BY ChannelIs
  <2>2. G = Grown(tree, q) BY DEF Heard
  <2> HIDE DEF q, G
  <2> QED BY <2>1, <2>2, TreeGrows
<1>3. c \in DOMAIN G
  <2>1. other = name => c = q OBVIOUS
  <2> HIDE DEF c, q, G
  <2> QED BY <1>1, <1>2, <2>1 DEF c
<1>4. get_channel_by_name(G, name) =
        IF F \in DOMAIN G THEN F ELSE Fallback(G, F) \o Tail(F)
  <2> HIDE DEF G
  <2> QED BY DEF get_channel_by_name
<1>5. ASSUME F \in DOMAIN tree PROVE get_channel_by_name(G, name) = c
  <2> HIDE DEF F, c, G, q
  <2> QED BY <1>1, <1>2, <1>3, <1>4, <1>5
<1>6. ASSUME F \notin DOMAIN tree, Fallback(tree, F) = RootName
      PROVE  get_channel_by_name(G, name) = c
  <2> HIDE DEF F, c, G, q
  <2> QED BY <1>1, <1>3, <1>4, <1>6
<1>7. ASSUME F \notin DOMAIN tree, Fallback(tree, F) # RootName
      PROVE  get_channel_by_name(G, name) = c
  <2>1. Lineage(F) \cap Lineage(q) \subseteq DOMAIN tree BY <1>7, NothingBetween
  <2>2. F \in Lineage(F)
    <3>1. F # <<>> BY FullNameIs
    <3> HIDE DEF F
    <3> QED BY <1>1, <3>1, LineageIs
  <2> HIDE DEF F, c, G, q
  <2>3. F \notin DOMAIN G BY <1>2, <1>7, <2>1, <2>2
  <2>4. (Lineage(F) \ {F}) \cap DOMAIN G = (Lineage(F) \ {F}) \cap DOMAIN tree
    BY <1>2, <2>1
  <2>5. Fallback(G, F) = Fallback(tree, F) BY <2>4 DEF Fallback
  <2> QED BY <1>1, <1>2, <1>3, <1>4, <1>7, <2>3, <2>5
<1> QED BY <1>2, <1>3, <1>5, <1>6, <1>7

(* A job whose name repeats no segment has the channel it was given first    *)
(* for as long as the manager lives: the manager has that channel once it    *)
(* heard of the job, and whatever other name it hears of later, the job's    *)
(* is looked up to the same channel, which the manager still has.            *)
HasChannel(tree, S, name, c) ==
    KnownTree(tree, S) /\ c \in DOMAIN tree /\ get_channel_by_name(tree, name) = c
THEOREM ChannelIsKept ==
  ASSUME NEW S, "root" \in S, NEW tree, KnownTree(tree, S),
         NEW name \in Seq(S), NoRepeat(FullName(name))
  PROVE  LET c == get_channel_by_name(tree, name)
         IN  /\ HasChannel(Heard(tree, name), S, name, c)
             /\ \A later : HasChannel(later, S, name, c) =>
                  \A other \in Seq(S) : HasChannel(Heard(later, other), S, name, c)
<1> DEFINE c == get_channel_by_name(tree, name)
<1>1. HasChannel(Heard(tree, name), S, name, c) BY ChannelStays DEF HasChannel
<1>2. ASSUME NEW later, HasChannel(later, S, name, c), NEW other \in Seq(S)
      PROVE  HasChannel(Heard(later, other), S, name, c)
  <2> HIDE DEF c
  <2> QED BY <1>2, ChannelStays DEF HasChannel
<1> QED BY <1>1, <1>2

(* The trees simple_configure goes through.                                  *)
Configures(g, entries, n) ==
    g = [i \in 0..n |-> IF i = 0 THEN NewManager
                        ELSE get_channel_from_config(g[i - 1], Parsed(entries[i]))]

LEMMA ConfiguresExist ==
  ASSUME NEW entries, NEW n \in Nat
  PROVE  \E g : Configures(g, entries, n)
<1> DEFINE T == {m \in Nat : ~\E g : Configures(g, entries, m)}
           Then(t, i) == get_channel_from_config(t, Parsed(entries[i]))
<1>1. SUFFICES ASSUME T # {} PROVE FALSE OBVIOUS
<1>2. PICK m \in T : \A k \in T : m <= k
  <2>1. T \in SUBSET Nat OBVIOUS
  <2> HIDE DEF T
  <2> QED BY <1>1, <2>1, LeastNumber
<1>3. m \in Nat /\ ~\E g : Configures(g, entries, m) BY <1>2
<1>4. CASE m = 0
  <2>1. Configures([i \in 0..m |-> NewManager], entries, m) BY <1>4 DEF Configures
  <2> QED BY <1>3, <2>1
<1>5. CASE m # 0
  <2>1. m - 1 \in Nat /\ ~(m <= m - 1) BY <1>3, <1>5
  <2>2. m - 1 \notin T BY <1>2, <2>1
  <2>3. PICK g : Configures(g, entries, m - 1) BY <2>1, <2>2
  <2> DEFINE h == [i \in 0..m |-> IF i = m THEN Then(g[m - 1], m) ELSE g[i]]
  <2>4. \A i \in 0..(m - 1) : g[i] = IF i = 0 THEN NewManager ELSE Then(g[i - 1], i)
    BY <2>1, <2>3 DEF Configures
  <2>5. ASSUME NEW i \in 0..m
        PROVE  h[i] = IF i = 0 THEN NewManager ELSE Then(h[i - 1], i)
    <3>1. CASE i = m
      <4>1. m - 1 \in 0..m /\ m - 1 # m BY <1>3, <1>5
      <4>2. h[i] = Then(g[m - 1], m) /\ h[m - 1] = g[m - 1] BY <3>1, <4>1
      <4> QED BY <1>5, <3>1, <4>2
    <3>2. CASE i = 0
      <4>1. h[i] = g[i] /\ i \in 0..(m - 1) BY <1>3, <1>5, <3>2
      <4> QED BY <2>4, <3>2, <4>1
    <3>3. CASE i # m /\ i # 0
      <4>1. i \in 0..(m - 1) /\ i - 1 \in 0..m /\ i - 1 # m BY <1>3, <3>3
      <4>2. h[i] = g[i] /\ h[i - 1] = g[i - 1] BY <3>3, <4>1
      <4> QED BY <2>4, <3>3, <4>1, <4>2
    <3> QED BY <3>1, <3>2, <3>3
  <2>6. h = [i \in 0..m |-> h[i]] OBVIOUS
  <2>7. Configures(h, entries, m)
    <3> HIDE DEF h
    <3> QED BY <2>5, <2>6 DEF Configures
  <2> QED BY <1>3, <2>7
<1> QED BY <1>4, <1>5

(* The tree after some entries: the last of them for a channel counts.       *)
LatestIs(entries, n, x, limits) ==
    \/ \E i \in 1..n : /\ FullName(entries[i].name) = x /\ limits = Parsed(entries[i]).limits
                       /\ \A k \in 1..n : k > i => FullName(entries[k].name) # x
    \/ /\ \A i \in 1..n : FullName(entries[i].name) # x
       /\ limits = IF x = RootName THEN NewManager[RootName] ELSE NoLimits
ConfiguredSoFar(tree, S, entries, n) ==
    /\ KnownTree(tree, S)
    /\ \A i \in 1..n : FullName(entries[i].name) \in DOMAIN tree
    /\ \A x \in DOMAIN tree : LatestIs(entries, n, x, tree[x])

LEMMA NothingConfigured ==
  ASSUME NEW S, "root" \in S, NEW entries
  PROVE  ConfiguredSoFar(NewManager, S, entries, 0)
<1>1. DOMAIN NewManager = {RootName} BY DEF NewManager
<1>2. RootName \in Seq(S) /\ RootName # <<>> /\ RootName[1] = "root" /\ Len(RootName) = 1
  BY DEF RootName
<1>3. Lineage(RootName) \subseteq {RootName}
  <2> SUFFICES ASSUME NEW x \in Lineage(RootName) PROVE x = RootName OBVIOUS
  <2>1. Len(x) \in 1..Len(RootName) /\ (Len(x) = Len(RootName) => x = RootName)
    BY <1>2, LineagesNest
  <2> QED BY <1>2, <2>1
<1>4. LatestIs(entries, 0, RootName, NewManager[RootName]) BY DEF LatestIs
<1> QED BY <1>1, <1>2, <1>3, <1>4 DEF ConfiguredSoFar, KnownTree

LEMMA OneMoreConfigured ==
  ASSUME NEW S, "root" \in S,
         NEW entries \in Seq([name : Seq(S), limits : [capacity : Int, sequential : BOOLEAN]]),
         NEW n \in Nat, n + 1 \in 1..Len(entries),
         NEW tree, ConfiguredSoFar(tree, S, entries, n)
  PROVE  ConfiguredSoFar(get_channel_from_config(tree, Parsed(entries[n + 1])),
                         S, entries, n + 1)
<1> DEFINE entry == entries[n + 1]
           e     == Parsed(entry)
           full  == FullName(entry.name)
           more  == Grown(tree, full)
           after == get_channel_from_config(tree, e)
<1>1. entry \in [name : Seq(S), limits : [capacity : Int, sequential : BOOLEAN]]
  <2>1. PICK R : R = [name : Seq(S), limits : [capacity : Int, sequential : BOOLEAN]] OBVIOUS
  <2>2. entries \in Seq(R) BY <2>1
  <2>3. entries[n + 1] \in R BY <2>2
  <2> QED BY <2>1, <2>3
<1>2. entry.name \in Seq(S) /\ e.name = entry.name
  <2> HIDE DEF entry
  <2> QED BY <1>1 DEF Parsed
<1>3. full \in Seq(S) /\ full # <<>> /\ full[1] = "root" BY <1>2, FullNameIs
<1> HIDE DEF full
<1>4. KnownTree(more, S) /\ DOMAIN more = DOMAIN tree \cup Lineage(full) /\ full \in Lineage(full)
  BY <1>3, TreeGrows DEF ConfiguredSoFar
<1>5. after = [more EXCEPT ![full] = e.limits]
  <2> HIDE DEF e
  <2> QED BY <1>2 DEF get_channel_from_config, full
<1>6. more = [x \in DOMAIN more |-> IF x \in DOMAIN tree THEN tree[x] ELSE NoLimits]
  BY DEF Grown
<1> HIDE DEF more, after, e, entry
<1>7. /\ DOMAIN after = DOMAIN more /\ after[full] = e.limits
      /\ \A x \in DOMAIN more : x # full =>
           after[x] = IF x \in DOMAIN tree THEN tree[x] ELSE NoLimits
  BY <1>4, <1>5, <1>6
<1>8. KnownTree(after, S) BY <1>4, <1>7 DEF KnownTree
<1>9. \A i \in 1..(n + 1) : i \in 1..n \/ i = n + 1 OBVIOUS
<1>10. \A i \in 1..n : i \in 1..(n + 1) /\ i < n + 1 OBVIOUS
<1>11. \A i \in 1..(n + 1) : FullName(entries[i].name) \in DOMAIN after
  BY <1>4, <1>7, <1>9 DEF ConfiguredSoFar, full, entry
<1>12. ASSUME NEW x \in DOMAIN after PROVE LatestIs(entries, n + 1, x, after[x])
  <2>1. CASE x = full
    <3>1. n + 1 \in 1..(n + 1) /\ \A k \in 1..(n + 1) : ~(k > n + 1) OBVIOUS
    <3> QED BY <1>7, <2>1, <3>1 DEF LatestIs, full, e, entry
  <2>2. CASE x # full /\ x \in DOMAIN tree
    <3>1. after[x] = tree[x] BY <1>7, <2>2
    <3>2. LatestIs(entries, n, x, tree[x]) BY <2>2 DEF ConfiguredSoFar
    <3>3. FullName(entries[n + 1].name) # x BY <2>2 DEF full, entry
    <3> QED BY <1>9, <1>10, <3>1, <3>2, <3>3 DEF LatestIs
  <2>3. CASE x # full /\ x \notin DOMAIN tree
    <3>1. after[x] = NoLimits BY <1>7, <2>3
    <3>2. x # RootName /\ \A i \in 1..n : FullName(entries[i].name) # x
      BY <2>3 DEF ConfiguredSoFar, KnownTree
    <3>3. FullName(entries[n + 1].name) # x BY <2>3 DEF full, entry
    <3> QED BY <1>9, <3>1, <3>2, <3>3 DEF LatestIs
  <2> QED BY <2>1, <2>2, <2>3
<1>13. ConfiguredSoFar(after, S, entries, n + 1)
  BY <1>8, <1>11, <1>12 DEF ConfiguredSoFar
<1> QED BY <1>13 DEF after, e, entry

(* "the parent channels are auto created with an infinite capacity": in      *)
(* whatever order a channel and its parents are configured, and however      *)
(* often, the last entry for each channel counts, a channel without any has  *)
(* no limit, the root aside, and the manager is a tree.                      *)
THEOREM LastEntryCounts ==
  ASSUME NEW S, "root" \in S,
         NEW entries \in Seq([name : Seq(S), limits : [capacity : Int, sequential : BOOLEAN]])
  PROVE  ConfiguredSoFar(simple_configure(entries), S, entries, Len(entries))
<1> DEFINE N == Len(entries)
<1>1. N \in Nat OBVIOUS
<1>2. PICK g : Configures(g, entries, N) /\ simple_configure(entries) = g[N]
  <2>1. simple_configure(entries) = (CHOOSE g : Configures(g, entries, N))[N]
    BY DEF simple_configure, Configures
  <2>2. \E g : Configures(g, entries, N) BY <1>1, ConfiguresExist
  <2>3. Configures(CHOOSE g : Configures(g, entries, N), entries, N) BY <2>2
  <2> QED BY <2>1, <2>3
<1>3. \A i \in 0..N : g[i] = IF i = 0 THEN NewManager
                             ELSE get_channel_from_config(g[i - 1], Parsed(entries[i]))
  BY <1>2 DEF Configures
<1> DEFINE Good(i) == ConfiguredSoFar(g[i], S, entries, i)
           T == {m \in 0..N : ~Good(m)}
<1>4. SUFFICES ASSUME ~Good(N) PROVE FALSE BY <1>2
<1>5. PICK m \in T : \A k \in T : m <= k
  <2>1. N \in T /\ T \in SUBSET Nat BY <1>1, <1>4
  <2> HIDE DEF T
  <2> QED BY <2>1, LeastNumber
<1>6. m # 0
  <2>1. g[0] = NewManager BY <1>1, <1>3
  <2>2. Good(0) BY <2>1, NothingConfigured
  <2> HIDE DEF Good
  <2> QED BY <1>5, <2>2
<1>7. m - 1 \in 0..N /\ m - 1 \in Nat /\ ~(m <= m - 1) /\ (m - 1) + 1 = m /\ m \in 1..N
  BY <1>1, <1>5, <1>6
<1>8. Good(m - 1)
  <2> HIDE DEF Good
  <2> QED BY <1>5, <1>7
<1>9. ConfiguredSoFar(get_channel_from_config(g[m - 1], Parsed(entries[(m - 1) + 1])),
                      S, entries, (m - 1) + 1)
  BY <1>7, <1>8, OneMoreConfigured
<1>10. Good(m)
  <2>1. g[m] = get_channel_from_config(g[m - 1], Parsed(entries[m])) BY <1>3, <1>7
  <2> QED BY <1>7, <1>9, <2>1
<1>11. ~Good(m) BY <1>5
<1> QED BY <1>10, <1>11
===============================================================================
