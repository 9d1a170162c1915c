---------------------------- MODULE CampaignProofs ----------------------------
(***************************************************************************)
(* Proofs about Campaign, for every finite set of contacts, every limit,   *)
(* and any number of users' operations, webhooks and crashes.              *)
(***************************************************************************)
EXTENDS Campaign, FiniteSetTheorems, TLAPS

(* A recipient is never behind its message, and has one only when reached. *)
Follows ==
  \A p \in Partners : msg[p] # "none" => /\ rec[p] \in Reached
                                         /\ RecRank(rec[p]) >= RecRank(msg[p])

(* What the transaction of the scheduled action has, by where it is. *)
Transaction ==
  /\ cron = "idle" => ~snapped
  /\ cron \in {"send", "commit", "end"} => snapped
  /\ ~snapped => ~holds /\ \A p \in Partners : staged[p] = "none"
  /\ cron # "commit" => linked = {}
  /\ \A p \in linked : staged[p] = "sent"

(* The snapshot agrees with the database but for the rows in stale; the    *)
(* numbers agree, though recipients changed, while the campaign row did    *)
(* not; and the campaign whose row it holds is still scheduled.            *)
Snapshot ==
  snapped =>
    /\ \A p \in Partners \ stale : snap.rec[p] = rec[p]
    /\ "camp" \notin stale => Stats(snap.rec) = Stats(rec)
    /\ holds => camp = "scheduled"

(* A recipient still to be visited, being sent to, or staged, is queued    *)
(* in the database unless it was deleted or changed since.                 *)
StillQueued ==
  /\ \A p \in batch : staged[p] = "none" /\ (p \notin gone => rec[p] = "queued")
  /\ \A p \in Partners : staged[p] # "none" /\ p \notin stale => rec[p] = "queued"
  /\ cron \in {"send", "commit"} => rec[cur] = "queued" /\ cur \notin batch

(* The sends the run under way may still make. *)
Ahead == Cardinality(batch) + (IF cron = "send" THEN 1 ELSE 0)

Bounded ==
  /\ Ahead <= Limit
  /\ late <= Limit
  /\ camp = "cancelled" => late + Ahead <= Limit

IInv ==
  /\ TypeOK
  /\ StatsExact
  /\ Follows
  /\ Transaction
  /\ Snapshot
  /\ StillQueued
  /\ DoneMeansDone
  /\ Bounded

-------------------------------------------------------------------------------
(* Lemmas about the statistics.                                            *)

In(r, k) == {p \in Partners : Column(r[p]) = k}

LEMMA InFinite ==
  ASSUME NEW r, NEW k
  PROVE  IsFiniteSet(In(r, k)) /\ Cardinality(In(r, k)) \in Nat
<1>1. In(r, k) \in SUBSET Partners BY DEF In
<1> QED BY <1>1, FS_Subset, FS_CardinalityType, CampaignAssumption

LEMMA StatsAre == \A r : Stats(r) = [k \in Columns |-> Cardinality(In(r, k))]
BY DEF Stats, In

LEMMA StatsType == \A r : Stats(r) \in [Columns -> Nat]
BY StatsAre, InFinite

(* Changing the same recipients of two recipient tables with equal numbers *)
(* in the same way gives equal numbers, when the tables agreed on those.   *)
LEMMA StatsMerge ==
  ASSUME NEW f, NEW g, NEW h, NEW W \in SUBSET Partners,
         \A p \in W : f[p] = g[p], Stats(f) = Stats(g)
  PROVE  Stats([p \in Partners |-> IF p \in W THEN h[p] ELSE f[p]]) =
           Stats([p \in Partners |-> IF p \in W THEN h[p] ELSE g[p]])
<1> DEFINE Over(r) == [p \in Partners |-> IF p \in W THEN h[p] ELSE r[p]]
<1>1. ASSUME NEW r, NEW k
      PROVE  Cardinality(In(Over(r), k)) =
               Cardinality(In(r, k)) - Cardinality(In(r, k) \cap W)
                 + Cardinality(In(h, k) \cap W)
  <2>1. In(Over(r), k) = (In(r, k) \ W) \cup (In(h, k) \cap W) BY DEF In
  <2>2. (In(r, k) \ W) \cap (In(h, k) \cap W) = {} OBVIOUS
  <2>3. /\ IsFiniteSet(In(r, k)) /\ IsFiniteSet(In(r, k) \ W)
        /\ Cardinality(In(r, k) \ W) = Cardinality(In(r, k)) - Cardinality(In(r, k) \cap W)
    BY InFinite, FS_Difference
  <2>4. In(h, k) \cap W \in SUBSET In(h, k) /\ In(r, k) \cap W \in SUBSET In(r, k) OBVIOUS
  <2>5. IsFiniteSet(In(h, k) \cap W) /\ IsFiniteSet(In(r, k) \cap W)
    BY <2>4, InFinite, FS_Subset
  <2>6. Cardinality(In(Over(r), k)) =
          Cardinality(In(r, k) \ W) + Cardinality(In(h, k) \cap W) - Cardinality({})
    BY <2>1, <2>2, <2>3, <2>5, FS_Union
  <2>7. /\ Cardinality(In(r, k)) \in Nat /\ Cardinality(In(r, k) \cap W) \in Nat
        /\ Cardinality(In(h, k) \cap W) \in Nat
    BY <2>5, InFinite, FS_CardinalityType
  <2> HIDE DEF Over
  <2> QED BY <2>3, <2>6, <2>7, FS_EmptySet
<1> HIDE DEF Over
<1>2. ASSUME NEW k \in Columns
      PROVE  Cardinality(In(Over(f), k)) = Cardinality(In(Over(g), k))
  <2>1. In(f, k) \cap W = In(g, k) \cap W BY DEF In
  <2>2. Cardinality(In(f, k)) = Cardinality(In(g, k)) BY StatsAre
  <2> QED BY <1>1, <2>1, <2>2
<1>3. Stats(Over(f)) = Stats(Over(g)) BY <1>2, StatsAre
<1> QED BY <1>3 DEF Over

LEMMA NoneQueued ==
  ASSUME NEW f, NEW g, Stats(f) = Stats(g), Queued(f) = {}
  PROVE  Queued(g) = {}
<1>1. \A r : In(r, "queued") = Queued(r) BY DEF In, Queued, Column
<1>2. Cardinality(Queued(f)) = Cardinality(Queued(g))
  BY <1>1, StatsAre DEF Columns
<1>3. IsFiniteSet(Queued(g)) BY <1>1, InFinite
<1> QED BY <1>2, <1>3, FS_EmptySet

-------------------------------------------------------------------------------
(* Lemmas about ranks and rebuilt recipients.                              *)

LEMMA Ranks ==
  /\ \A s \in RecStates : RecRank(s) \in 0 .. 3
  /\ RecRank("failed") = 0 /\ MsgRank("failed") = 0 /\ RecRank("none") = 0
  /\ RecRank("queued") = 0 /\ RecRank("sent") = 1 /\ MsgRank("sent") = 1
  /\ \A s \in Reached : RecRank(s) = MsgRank(s) /\ MsgRank(s) \in 1 .. 3
  /\ \A s \in RecStates : s \in Reached <=> RecRank(s) > 0
BY DEF RecStates, Reached, RecRank, MsgRank

LEMMA BuiltType ==
  ASSUME TypeOK, NEW p \in Partners, NEW targets
  PROVE  /\ Built(p, targets) \in RecStates
         /\ rec[p] \in Reached => Built(p, targets) = rec[p]
         /\ RecRank(Built(p, targets)) >= RecRank(rec[p])
<1>1. rec[p] \in RecStates BY DEF TypeOK
<1>2. Built(p, targets) \in RecStates BY <1>1 DEF Built, RecStates
<1>3. rec[p] \in Reached => Built(p, targets) = rec[p] BY DEF Built, Reached
<1>4. RecRank(Built(p, targets)) >= RecRank(rec[p]) BY <1>1, <1>2, <1>3, Ranks
<1> QED BY <1>2, <1>3, <1>4

LEMMA SyncedType ==
  ASSUME TypeOK, NEW p \in Partners, NEW s \in Reached \cup {"failed"}
  PROVE  /\ Synced(p, s) \in RecStates
         /\ RecRank(Synced(p, s)) >= RecRank(rec[p])
         /\ RecRank(Synced(p, s)) >= RecRank(s)
         /\ Synced(p, s) = rec[p] \/ Synced(p, s) \in Reached
<1>1. rec[p] \in RecStates /\ s \in RecStates BY DEF TypeOK, RecStates
<1>2. CASE s \in Reached /\ MsgRank(s) > RecRank(rec[p])
  <2>1. Synced(p, s) = s BY <1>2 DEF Synced
  <2> QED BY <1>1, <1>2, <2>1, Ranks
<1>3. CASE ~(s \in Reached /\ MsgRank(s) > RecRank(rec[p]))
  <2>1. Synced(p, s) = rec[p] BY <1>3 DEF Synced
  <2> QED BY <1>1, <1>3, <2>1, Ranks
<1> QED BY <1>2, <1>3

(* The batch is finite, so the sends ahead can be counted. *)
LEMMA AheadType ==
  ASSUME TypeOK
  PROVE  IsFiniteSet(batch) /\ Cardinality(batch) \in Nat /\ Ahead \in Nat
<1>1. IsFiniteSet(batch) BY FS_Subset, CampaignAssumption DEF TypeOK
<1>2. Cardinality(batch) \in Nat BY <1>1, FS_CardinalityType
<1> QED BY <1>1, <1>2 DEF Ahead

LEMMA InitInv == Init => IInv
<1> SUFFICES ASSUME Init PROVE IInv OBVIOUS
<1>1. Nobody \in [Partners -> RecStates] /\ Nobody \in [Partners -> Staged]
      /\ Nobody \in [Partners -> Reached \cup {"none", "failed"}]
  BY DEF Nobody, RecStates, Staged
<1>2. TypeOK
  <2>1. snap \in [rec : [Partners -> RecStates], optOut : SUBSET Partners]
    BY <1>1 DEF Init
  <2>2. accepted \in [Partners -> Nat] /\ stats \in [Columns -> Nat]
    BY StatsType DEF Init
  <2>3. userOps \in 0 .. MaxUser /\ hooks \in 0 .. MaxHook /\ crashes \in 0 .. MaxCrash
    BY CampaignAssumption DEF Init
  <2> QED BY <1>1, <2>1, <2>2, <2>3 DEF Init, TypeOK, CampStates
<1>3. \A p \in Partners : Nobody[p] = "none" BY DEF Nobody
<1>4. Follows /\ Transaction /\ Snapshot /\ StillQueued
  BY <1>3 DEF Init, Follows, Transaction, Snapshot, StillQueued
<1>5. Ahead = 0 BY FS_EmptySet DEF Init, Ahead
<1>6. Bounded BY <1>5, CampaignAssumption DEF Init, Bounded
<1> QED BY <1>2, <1>4, <1>6 DEF IInv, Init, StatsExact, DoneMeansDone

-------------------------------------------------------------------------------
(* Users and webhooks.  A write of theirs: the rows it changes are stale   *)
(* for the scheduled action, and so is the campaign when a number does.    *)
LEMMA WriteInv ==
  ASSUME IInv, NEW newCamp \in CampStates, NEW newRec \in [Partners -> RecStates],
         NEW deleted \in SUBSET Partners, Write(newCamp, newRec, deleted),
         UNCHANGED <<optOut, accepted, runVars, txVars, echoed, crashes>>,
         msg' \in [Partners -> Reached \cup {"none", "failed"}],
         gone' \in SUBSET Partners, gone \subseteq gone',
         userOps' \in 0 .. MaxUser, hooks' \in 0 .. MaxHook,
         \A p \in Partners : msg'[p] # "none" => /\ newRec[p] \in Reached
                                                 /\ RecRank(newRec[p]) >= RecRank(msg'[p]),
         \A p \in batch : p \notin gone' => newRec[p] = "queued",
         cron \in {"send", "commit"} => newRec[cur] = "queued",
         newCamp = "done" => Queued(newRec) = {},
         \/ late' = late /\ (newCamp = "cancelled" => camp = "cancelled")
         \/ late' = 0
  PROVE  IInv'
<1> DEFINE touched == newCamp # camp \/ Stats(newRec) # stats
<1>1. /\ touched => ~holds
      /\ camp' = newCamp /\ rec' = newRec /\ stats' = Stats(newRec)
      /\ stale' = stale \cup deleted \cup {p \in Partners : newRec[p] # rec[p]}
                        \cup (IF touched THEN {"camp"} ELSE {})
  BY DEF Write
<1>2. \A p \in Partners \ stale' : p \notin stale /\ newRec[p] = rec[p] BY <1>1
<1>3. "camp" \notin stale' => "camp" \notin stale /\ ~touched BY <1>1
<1>4. stale \subseteq stale' /\ stale' \subseteq Partners \cup {"camp"}
  BY <1>1 DEF IInv, TypeOK
<1>5. TypeOK' BY <1>1, <1>4, StatsType DEF IInv, TypeOK, runVars, txVars
<1>6. StatsExact' BY <1>1 DEF StatsExact
<1>7. Follows' BY <1>1 DEF Follows
<1>8. Transaction' BY DEF IInv, Transaction, runVars, txVars
<1>9. Snapshot'
  <2>1. ASSUME snapped PROVE \A p \in Partners \ stale' : snap.rec[p] = newRec[p]
    BY <1>2, <2>1 DEF IInv, Snapshot
  <2>2. ASSUME snapped, "camp" \notin stale' PROVE Stats(snap.rec) = Stats(newRec)
    BY <1>3, <2>2 DEF IInv, Snapshot, StatsExact
  <2>3. ASSUME snapped, holds PROVE newCamp = "scheduled"
    BY <1>1, <2>3 DEF IInv, Snapshot
  <2> QED BY <1>1, <2>1, <2>2, <2>3 DEF Snapshot, txVars
<1>10. StillQueued'
  BY <1>1, <1>2 DEF IInv, StillQueued, runVars, txVars
<1>11. DoneMeansDone' BY <1>1 DEF DoneMeansDone, Queued
<1>12. Bounded'
  <2>1. Ahead' = Ahead BY DEF Ahead, runVars
  <2> QED BY <1>1, <2>1, AheadType, CampaignAssumption DEF IInv, Bounded, TypeOK
<1> QED BY <1>5, <1>6, <1>7, <1>8, <1>9, <1>10, <1>11, <1>12 DEF IInv

LEMMA RebuildInv ==
  ASSUME IInv, NEW newCamp \in CampStates, Rebuild(newCamp), UserAct,
         newCamp \notin {"done", "cancelled"}, late' \in {0, late}
  PROVE  IInv'
<1>1. PICK targets \in SUBSET Partners :
        Write(newCamp, [p \in Partners |-> Built(p, targets)], Queued(rec))
  BY DEF Rebuild
<1>2. PICK newRec : newRec = [p \in Partners |-> Built(p, targets)] OBVIOUS
<1>3. PICK deleted : deleted = Queued(rec) OBVIOUS
<1>4. Write(newCamp, newRec, deleted) BY <1>1, <1>2, <1>3
<1>5. newRec \in [Partners -> RecStates] /\ deleted \in SUBSET Partners
  BY <1>2, <1>3, BuiltType DEF IInv, Queued
<1>6. /\ gone' = gone \cup (Queued(rec) \cap batch)
      /\ UNCHANGED <<msg, optOut, accepted, runVars, txVars, echoed, hooks, crashes>>
      /\ Deletable
  BY DEF Rebuild
<1>7. \A p \in batch : p \notin gone' => newRec[p] = "queued"
  BY <1>6 DEF IInv, StillQueued, TypeOK, Queued
<1>8. cron \notin {"send", "commit"}
  BY <1>6 DEF IInv, StillQueued, Deletable
<1>9. \A p \in Partners : msg[p] # "none" => newRec[p] = rec[p]
  BY <1>2, BuiltType DEF IInv, Follows
<1>10. \A p \in Partners : msg[p] # "none" => /\ newRec[p] \in Reached
                                              /\ RecRank(newRec[p]) >= RecRank(msg[p])
  BY <1>9 DEF IInv, Follows
<1>11. userOps' \in 0 .. MaxUser BY CampaignAssumption DEF UserAct, IInv, TypeOK
<1>12. gone' \in SUBSET Partners BY <1>6 DEF IInv, TypeOK
<1> QED
  BY <1>4, <1>5, <1>6, <1>7, <1>8, <1>10, <1>11, <1>12, WriteInv
  DEF IInv, TypeOK

LEMMA SetStateInv ==
  ASSUME IInv, NEW s \in CampStates, SetState(s), UserAct,
         \/ s = "draft" /\ UNCHANGED late
         \/ s = "cancelled" /\ late' = 0
  PROVE  IInv'
<1>1. PICK newRec \in [Partners -> RecStates] : newRec = rec BY DEF IInv, TypeOK
<1>2. Write(s, newRec, {}) /\ UNCHANGED <<msg, optOut, accepted, runVars, gone, txVars,
                                          echoed, hooks, crashes>>
  BY <1>1 DEF SetState
<1>3. userOps' \in 0 .. MaxUser BY CampaignAssumption DEF UserAct, IInv, TypeOK
<1>4. \A p \in Partners : msg[p] # "none" => /\ newRec[p] \in Reached
                                             /\ RecRank(newRec[p]) >= RecRank(msg[p])
  BY <1>1 DEF IInv, Follows
<1>5. /\ \A p \in batch : p \notin gone => newRec[p] = "queued"
      /\ cron \in {"send", "commit"} => newRec[cur] = "queued"
  BY <1>1 DEF IInv, StillQueued
<1> QED BY <1>2, <1>3, <1>4, <1>5, WriteInv DEF IInv, TypeOK

LEMMA AckInv ==
  ASSUME IInv, NEW p \in Partners, NEW s \in Reached \cup {"failed"}, Ack(p, s)
  PROVE  IInv'
<1>1. PICK newRec : newRec = [rec EXCEPT ![p] = Synced(p, s)] OBVIOUS
<1>2. PICK newCamp \in CampStates : newCamp = camp BY DEF IInv, TypeOK
<1>3. /\ Write(newCamp, newRec, {}) /\ msg[p] # "none"
      /\ msg' = [msg EXCEPT ![p] = s]
      /\ UNCHANGED <<optOut, accepted, runVars, gone, txVars, echoed, late, userOps,
                     crashes>>
  BY <1>1, <1>2 DEF Ack
<1>4. TypeOK BY DEF IInv
<1>5. rec \in [Partners -> RecStates] BY <1>4 DEF TypeOK
<1>6. newRec \in [Partners -> RecStates] BY <1>1, <1>4, <1>5, SyncedType
<1>7. rec[p] \in Reached BY <1>3 DEF IInv, Follows
<1>8. newRec[p] = Synced(p, s) /\ newRec[p] \in Reached
      /\ RecRank(newRec[p]) >= RecRank(s)
  BY <1>1, <1>4, <1>5, <1>7, SyncedType
<1>9. \A q \in Partners : q # p => newRec[q] = rec[q] BY <1>1, <1>5
<1>10. msg' \in [Partners -> Reached \cup {"none", "failed"}] BY <1>3, <1>4 DEF TypeOK
<1>11. \A q \in Partners : msg'[q] # "none" => /\ newRec[q] \in Reached
                                               /\ RecRank(newRec[q]) >= RecRank(msg'[q])
  BY <1>3, <1>4, <1>8, <1>9 DEF IInv, Follows, TypeOK
<1>12. /\ \A q \in batch : q \notin gone => newRec[q] = "queued"
       /\ cron \in {"send", "commit"} => newRec[cur] = "queued"
  BY <1>4, <1>7, <1>9 DEF IInv, StillQueued, TypeOK, Reached
<1>13. newCamp = "done" => Queued(newRec) = {}
  BY <1>2, <1>8, <1>9 DEF IInv, DoneMeansDone, Queued, Reached
<1>14. hooks' \in 0 .. MaxHook BY CampaignAssumption DEF Ack, HookAct, IInv, TypeOK
<1> QED
  BY <1>2, <1>3, <1>4, <1>6, <1>10, <1>11, <1>12, <1>13, <1>14, WriteInv DEF TypeOK

LEMMA ToggleInv ==
  ASSUME IInv, NEW p \in Partners, ToggleOptOut(p)
  PROVE  IInv'
<1> USE DEF ToggleOptOut, UserAct, dbVars, runVars, txVars
<1>1. userOps' \in 0 .. MaxUser BY CampaignAssumption DEF IInv, TypeOK
<1>2. optOut' \subseteq Partners BY DEF IInv, TypeOK
<1>3. TypeOK' BY <1>1, <1>2 DEF IInv, TypeOK
<1> QED
  BY <1>3 DEF IInv, StatsExact, Follows, Transaction, Snapshot, StillQueued,
              DoneMeansDone, Queued, Bounded, Ahead

LEMMA EchoInv ==
  ASSUME IInv, Echo
  PROVE  IInv'
<1> USE DEF Echo, HookAct, dbVars, runVars, txVars
<1>1. hooks' \in 0 .. MaxHook BY CampaignAssumption DEF IInv, TypeOK
<1>2. TypeOK' BY <1>1 DEF IInv, TypeOK
<1> QED
  BY <1>2 DEF IInv, StatsExact, Follows, Transaction, Snapshot, StillQueued,
              DoneMeansDone, Queued, Bounded, Ahead

-------------------------------------------------------------------------------
(* The scheduled action.                                                   *)

LEMMA NobodyType ==
  /\ Nobody \in [Partners -> RecStates] /\ Nobody \in [Partners -> Staged]
  /\ \A p \in Partners : Nobody[p] = "none"
  /\ [rec |-> Nobody, optOut |-> {}] \in [rec : [Partners -> RecStates],
                                          optOut : SUBSET Partners]
BY DEF Nobody, RecStates, Staged

(* A transaction that is over leaves no trace but what it committed. *)
LEMMA NoTxInv ==
  ASSUME IInv, noTx
  PROVE  /\ snapped' \in BOOLEAN /\ ~snapped' /\ ~holds' /\ holds' \in BOOLEAN
         /\ snap' \in [rec : [Partners -> RecStates], optOut : SUBSET Partners]
         /\ stale' \subseteq Partners \cup {"camp"}
         /\ staged' \in [Partners -> Staged] /\ linked' = {}
         /\ \A p \in Partners : staged'[p] = "none"
         /\ echoed' \in BOOLEAN
BY NobodyType DEF noTx

LEMMA RunEndsInv ==
  ASSUME IInv, RunEnds, UNCHANGED <<dbVars, optOut, accepted, cur, late, userOps, hooks>>,
         crashes' \in 0 .. MaxCrash
  PROVE  IInv'
<1>1. /\ noTx /\ cron' = "idle" /\ batch' = {} /\ gone' = {}
      /\ UNCHANGED <<camp, rec, stats, msg, optOut, accepted, cur, late, userOps, hooks>>
  BY DEF RunEnds, dbVars
<1> USE NoTxInv
<1>2. TypeOK' BY <1>1 DEF IInv, TypeOK
<1>3. Ahead' = 0 BY <1>1, FS_EmptySet DEF Ahead
<1>4. Bounded' BY <1>1, <1>3, CampaignAssumption DEF IInv, Bounded, TypeOK
<1> QED
  BY <1>1, <1>2, <1>4
  DEF IInv, StatsExact, Follows, Transaction, Snapshot, StillQueued, DoneMeansDone, Queued

LEMMA CronStartInv ==
  ASSUME IInv, CronStart
  PROVE  IInv'
<1>1. PICK B \in SUBSET Queued(rec) : BatchOf(B) /\ batch' = B BY DEF CronStart
<1>2. /\ cron = "idle" /\ camp \in {"scheduled", "running"} /\ cron' = "loop"
      /\ holds' = (camp = "scheduled") /\ snapped' = TRUE
      /\ snap' = [rec |-> rec, optOut |-> optOut] /\ stale' = {}
      /\ UNCHANGED <<camp, rec, stats, msg, optOut, accepted, cur, gone, staged, linked,
                     echoed, late, userOps, hooks, crashes>>
  BY DEF CronStart, dbVars, counters
<1>3. batch' \subseteq Partners /\ Cardinality(batch') <= Limit
      /\ \A p \in batch' : rec[p] = "queued"
  BY <1>1 DEF BatchOf, Queued
<1>4. \A p \in Partners : staged[p] = "none" BY <1>2 DEF IInv, Transaction
<1>5. holds' \in BOOLEAN /\ (holds' => camp = "scheduled") BY <1>2
<1>6. TypeOK' BY <1>2, <1>3, <1>5 DEF IInv, TypeOK
<1>7. Transaction' BY <1>2 DEF IInv, Transaction
<1>8. Snapshot' BY <1>2, <1>5 DEF IInv, Snapshot
<1>9. StillQueued' BY <1>2, <1>3, <1>4 DEF IInv, StillQueued, TypeOK
<1>10. Ahead' \in Nat /\ Ahead' <= Limit
  <2>1. IsFiniteSet(batch') BY <1>3, FS_Subset, CampaignAssumption
  <2>2. Cardinality(batch') \in Nat BY <2>1, FS_CardinalityType
  <2> QED BY <1>2, <1>3, <2>2 DEF Ahead
<1>11. Bounded' BY <1>2, <1>10 DEF IInv, Bounded
<1> QED
  BY <1>2, <1>6, <1>7, <1>8, <1>9, <1>11
  DEF IInv, StatsExact, Follows, DoneMeansDone, Queued

LEMMA CronWaitsInv ==
  ASSUME IInv, CronWaits
  PROVE  IInv'
<1> USE DEF CronWaits, runVars, txVars, counters
<1>1. TypeOK' BY DEF IInv, TypeOK, CampStates
<1>2. Snapshot' BY DEF IInv, Snapshot, Transaction
<1> QED
  BY <1>1, <1>2
  DEF IInv, StatsExact, Follows, Transaction, StillQueued, DoneMeansDone, Bounded, Ahead

LEMMA CronSnapshotInv ==
  ASSUME IInv, CronSnapshot
  PROVE  IInv'
<1>1. /\ cron = "loop" /\ ~snapped /\ snapped' = TRUE
      /\ snap' = [rec |-> rec, optOut |-> optOut] /\ stale' = {}
      /\ UNCHANGED <<camp, rec, stats, msg, optOut, accepted, cron, cur, batch, gone, staged,
                     linked, holds, echoed, late, userOps, hooks, crashes>>
  BY DEF CronSnapshot, dbVars, runVars, counters
<1>2. ~holds /\ \A p \in Partners : staged[p] = "none" BY <1>1 DEF IInv, Transaction
<1>3. TypeOK' BY <1>1 DEF IInv, TypeOK
<1>4. Transaction' BY <1>1 DEF IInv, Transaction
<1>5. Snapshot' BY <1>1, <1>2 DEF IInv, Snapshot
<1>6. StillQueued' BY <1>1, <1>2 DEF IInv, StillQueued
<1> QED
  BY <1>1, <1>3, <1>4, <1>5, <1>6
  DEF IInv, StatsExact, Follows, DoneMeansDone, Queued, Bounded, Ahead

(* Visiting a recipient makes the batch smaller by one. *)
LEMMA Visits ==
  ASSUME IInv, NEW p \in Partners, Visit(p)
  PROVE  /\ cron = "loop" /\ snapped /\ p \in batch /\ batch' = batch \ {p}
         /\ Cardinality(batch') + 1 = Cardinality(batch) /\ Cardinality(batch') \in Nat
         /\ Ahead = Cardinality(batch)
<1>1. cron = "loop" /\ snapped /\ p \in batch /\ batch' = batch \ {p} BY DEF Visit
<1>2. IsFiniteSet(batch) /\ Cardinality(batch) \in Nat BY AheadType DEF IInv
<1>3. IsFiniteSet(batch') /\ Cardinality(batch') = Cardinality(batch) - 1
  BY <1>1, <1>2, FS_RemoveElement
<1>4. Cardinality(batch') \in Nat BY <1>3, FS_CardinalityType
<1>5. Ahead = Cardinality(batch) BY <1>1, <1>2 DEF Ahead
<1> QED BY <1>1, <1>2, <1>3, <1>4, <1>5

LEMMA CronSkipsInv ==
  ASSUME IInv, NEW p \in Partners, CronSkips(p)
  PROVE  IInv'
<1>1. /\ Visit(p) /\ (p \in gone => p \in stale)
      /\ staged' = [staged EXCEPT ![p] = "opted_out"]
      /\ UNCHANGED <<camp, rec, stats, msg, optOut, accepted, cron, cur, gone, snapped, snap,
                     linked, holds, stale, echoed, late, userOps, hooks, crashes>>
  BY DEF CronSkips, dbVars, counters
<1> USE <1>1, Visits
<1>2. TypeOK' BY DEF IInv, TypeOK, Staged
<1>3. Transaction' BY DEF IInv, Transaction
<1>4. StillQueued' BY DEF IInv, StillQueued, TypeOK
<1>5. Ahead' = Cardinality(batch') BY DEF Ahead
<1>6. Bounded' BY <1>5, CampaignAssumption DEF IInv, Bounded, TypeOK
<1> QED
  BY <1>2, <1>3, <1>4, <1>6
  DEF IInv, StatsExact, Follows, Snapshot, DoneMeansDone, Queued

LEMMA CronPicksInv ==
  ASSUME IInv, NEW p \in Partners, CronPicks(p)
  PROVE  IInv'
<1>1. /\ Visit(p) /\ p \notin gone /\ cron' = "send" /\ cur' = p
      /\ UNCHANGED <<camp, rec, stats, msg, optOut, accepted, gone, snapped, snap, staged,
                     linked, holds, stale, echoed, late, userOps, hooks, crashes>>
  BY DEF CronPicks, dbVars, txVars, counters
<1> USE <1>1, Visits
<1>2. TypeOK' BY DEF IInv, TypeOK
<1>3. Transaction' BY DEF IInv, Transaction
<1>4. StillQueued' BY DEF IInv, StillQueued
<1>5. Ahead' = Cardinality(batch') + 1 BY DEF Ahead
<1>6. Bounded' BY <1>5, CampaignAssumption DEF IInv, Bounded, TypeOK
<1> QED
  BY <1>2, <1>3, <1>4, <1>6
  DEF IInv, StatsExact, Follows, Snapshot, DoneMeansDone, Queued

LEMMA CronSendInv ==
  ASSUME IInv, CronSend
  PROVE  IInv'
<1>1. PICK took \in BOOLEAN, answered \in BOOLEAN :
       /\ accepted' = [accepted EXCEPT ![cur] = IF took THEN @ + 1 ELSE @]
       /\ late' = IF took /\ camp = "cancelled" THEN late + 1 ELSE late
       /\ staged' = [staged EXCEPT ![cur] = IF took /\ answered THEN "sent" ELSE "failed"]
       /\ linked' = IF took /\ answered THEN linked \cup {cur} ELSE linked
  BY DEF CronSend
<1>2. /\ cron = "send" /\ cron' = "commit"
      /\ UNCHANGED <<camp, rec, stats, msg, optOut, cur, batch, gone, snapped, snap, holds,
                     stale, echoed, userOps, hooks, crashes>>
  BY DEF CronSend, dbVars, counters
<1>3. linked = {} /\ snapped BY <1>2 DEF IInv, Transaction
<1>4. late \in Nat /\ late' \in Nat /\ late' <= late + 1
      /\ (camp # "cancelled" => late' = late)
  BY <1>1 DEF IInv, TypeOK
<1>5. staged' \in [Partners -> Staged] /\ cur \in Partners
      /\ \A p \in Partners : p # cur => staged'[p] = staged[p]
  BY <1>1 DEF IInv, TypeOK, Staged
<1>6. accepted' \in [Partners -> Nat] BY <1>1 DEF IInv, TypeOK
<1>7. linked' \subseteq {cur} /\ (cur \in linked' => staged'[cur] = "sent")
  BY <1>1, <1>3 DEF IInv, TypeOK
<1>8. TypeOK' BY <1>2, <1>4, <1>5, <1>6, <1>7 DEF IInv, TypeOK
<1>9. Transaction' BY <1>2, <1>3, <1>7 DEF IInv, Transaction
<1>10. StillQueued' BY <1>2, <1>5, <1>8 DEF IInv, StillQueued, TypeOK
<1>11. Ahead = Ahead' + 1 /\ Ahead' \in Nat
  <2>1. Cardinality(batch) \in Nat BY AheadType DEF IInv
  <2> QED BY <1>2, <2>1 DEF Ahead
<1>12. /\ Ahead' <= Limit /\ late' <= Limit
       /\ camp = "cancelled" => late' + Ahead' <= Limit
  <2>1. Limit \in Nat /\ Ahead \in Nat BY CampaignAssumption, AheadType DEF IInv
  <2>2. Ahead <= Limit /\ late <= Limit /\ (camp = "cancelled" => late + Ahead <= Limit)
    BY DEF IInv, Bounded
  <2>3. \A a, b, l, k \in Nat : a = b + 1 /\ k <= l + 1 /\ l + a <= Limit
                                => b <= Limit /\ k <= Limit /\ k + b <= Limit
    BY <2>1
  <2>4. CASE camp = "cancelled" BY <1>4, <1>11, <2>1, <2>2, <2>3, <2>4
  <2>5. CASE camp # "cancelled"
    <3>1. late' <= Limit BY <1>4, <2>2, <2>5
    <3>2. \A a, b \in Nat : a = b + 1 /\ a <= Limit => b <= Limit BY <2>1
    <3>3. Ahead' <= Limit BY <1>11, <2>1, <2>2, <3>2
    <3> QED BY <2>5, <3>1, <3>3
  <2> QED BY <2>4, <2>5
<1>13. Bounded' BY <1>2, <1>12 DEF Bounded
<1> QED
  BY <1>2, <1>8, <1>9, <1>10, <1>13
  DEF IInv, StatsExact, Follows, Snapshot, DoneMeansDone, Queued

-------------------------------------------------------------------------------
(* What a transaction without a conflict publishes: the recipients it      *)
(* wrote were still queued, and the numbers it computed from its snapshot  *)
(* are those of the committed recipients.                                  *)
LEMMA Publishes ==
  ASSUME IInv, NEW newCamp, Publish(newCamp), ~Conflict, snapped
  PROVE  /\ rec' \in [Partners -> RecStates]
         /\ \A p \in Partners : \/ rec'[p] = rec[p]
                                \/ /\ rec[p] = "queued"
                                   /\ rec'[p] \in {"opted_out", "sent", "failed"}
         /\ \A p \in linked : rec[p] = "queued" /\ rec'[p] = "sent" /\ msg'[p] = "sent"
         /\ \A p \in Partners \ linked : msg'[p] = msg[p]
         /\ msg' \in [Partners -> Reached \cup {"none", "failed"}]
         /\ stats' = Stats(rec')
         /\ "camp" \notin stale => Stats([p \in Partners |-> Mine(p)]) = Stats(rec')
         /\ Queued(rec') \subseteq Queued(rec)
<1>1. /\ rec' = [p \in Partners |-> IF p \in Written THEN staged[p] ELSE rec[p]]
      /\ stats' = IF Written = {} THEN stats ELSE Stats([p \in Partners |-> Mine(p)])
      /\ msg' = [p \in Partners |-> IF p \in linked THEN "sent" ELSE msg[p]]
  BY DEF Publish
<1>2. /\ rec \in [Partners -> RecStates] /\ staged \in [Partners -> Staged]
      /\ linked \subseteq Partners
      /\ msg \in [Partners -> Reached \cup {"none", "failed"}]
  BY DEF IInv, TypeOK
<1>3. \A p \in Written : /\ p \in Partners /\ p \notin stale /\ rec[p] = "queued"
                         /\ staged[p] \in {"opted_out", "sent", "failed"}
                         /\ snap.rec[p] = rec[p]
  BY <1>2 DEF Written, Conflict, IInv, StillQueued, Snapshot, Staged
<1>4. rec' \in [Partners -> RecStates]
  BY <1>1, <1>2, <1>3 DEF RecStates, Reached
<1>5. \A p \in Partners : \/ rec'[p] = rec[p]
                          \/ /\ rec[p] = "queued"
                             /\ rec'[p] \in {"opted_out", "sent", "failed"}
  BY <1>1, <1>3
<1>6. \A p \in linked : p \in Written /\ staged[p] = "sent"
  BY <1>2 DEF IInv, Transaction, Written
<1>7. \A p \in linked : rec[p] = "queued" /\ rec'[p] = "sent" /\ msg'[p] = "sent"
  BY <1>1, <1>2, <1>3, <1>6
<1>8. msg' \in [Partners -> Reached \cup {"none", "failed"}] BY <1>1, <1>2 DEF Reached
<1>9. ASSUME "camp" \notin stale
      PROVE  Stats([p \in Partners |-> Mine(p)]) = Stats(rec')
  <2>1. Stats(snap.rec) = Stats(rec) BY <1>9 DEF IInv, Snapshot
  <2>2. Written \in SUBSET Partners /\ \A p \in Written : snap.rec[p] = rec[p]
    BY <1>3 DEF Written
  <2>3. Stats([p \in Partners |-> IF p \in Written THEN staged[p] ELSE snap.rec[p]]) =
          Stats([p \in Partners |-> IF p \in Written THEN staged[p] ELSE rec[p]])
    BY <2>1, <2>2, StatsMerge
  <2> QED BY <1>1, <2>3 DEF Mine
<1>10. stats' = Stats(rec')
  <2>1. CASE Written = {}
    <3>1. rec' = rec BY <1>1, <1>2, <2>1
    <3>2. stats' = Stats(rec) BY <1>1, <2>1 DEF IInv, StatsExact
    <3> QED BY <3>1, <3>2
  <2>2. CASE Written # {}
    <3>1. "camp" \notin stale BY <2>2 DEF Conflict
    <3> QED BY <1>1, <1>9, <2>2, <3>1
  <2> QED BY <2>1, <2>2
<1>11. Queued(rec') \subseteq Queued(rec) BY <1>5 DEF Queued
<1> QED BY <1>1, <1>4, <1>5, <1>7, <1>8, <1>9, <1>10, <1>11

LEMMA PublishInv ==
  ASSUME IInv, NEW newCamp \in CampStates, Publish(newCamp), ~Conflict, snapped,
         UNCHANGED <<optOut, accepted, cur, late, counters>>,
         \/ cron = "commit" /\ cron' = "loop" /\ UNCHANGED <<batch, gone>>
         \/ cron = "end" /\ cron' = "idle" /\ batch' = {} /\ gone' = {},
         newCamp = "done" => camp = "done" \/ Queued(rec') = {},
         newCamp = "cancelled" => camp = "cancelled"
  PROVE  IInv'
<1>1. camp' = newCamp /\ noTx /\ UNCHANGED <<optOut, accepted, cur, late, userOps, hooks,
                                              crashes>>
  BY DEF Publish, counters
<1>p. /\ rec' \in [Partners -> RecStates] /\ stats' = Stats(rec')
      /\ \A p \in Partners : \/ rec'[p] = rec[p]
                             \/ /\ rec[p] = "queued"
                                /\ rec'[p] \in {"opted_out", "sent", "failed"}
      /\ \A p \in linked : rec[p] = "queued" /\ rec'[p] = "sent" /\ msg'[p] = "sent"
      /\ \A p \in Partners \ linked : msg'[p] = msg[p]
      /\ msg' \in [Partners -> Reached \cup {"none", "failed"}]
      /\ Queued(rec') \subseteq Queued(rec)
  BY Publishes
<1> USE NoTxInv
<1>2. batch' \subseteq Partners /\ gone' \subseteq Partners /\ cron' \in {"loop", "idle"}
  BY DEF IInv, TypeOK
<1>3. TypeOK'
  <2>1. stats' \in [Columns -> Nat] BY <1>p, StatsType
  <2>2. linked' \subseteq Partners BY <1>1
  <2> QED BY <1>p, <1>1, <1>2, <2>1, <2>2 DEF IInv, TypeOK
<1>4. StatsExact' BY <1>p DEF StatsExact
<1>5. Follows'
  <2>1. ASSUME NEW p \in Partners, msg'[p] # "none"
        PROVE  rec'[p] \in Reached /\ RecRank(rec'[p]) >= RecRank(msg'[p])
    <3>1. CASE p \in linked
      <4>1. rec'[p] = "sent" /\ msg'[p] = "sent" BY <1>p, <3>1
      <4>2. RecRank(rec'[p]) = 1 /\ RecRank(msg'[p]) = 1 BY <4>1, Ranks
      <4> QED BY <4>1, <4>2 DEF Reached
    <3>2. CASE p \notin linked
      <4>1. msg'[p] = msg[p] /\ rec[p] \in Reached /\ RecRank(rec[p]) >= RecRank(msg[p])
        BY <1>p, <2>1, <3>2 DEF IInv, Follows
      <4>2. rec'[p] = rec[p] BY <1>p, <4>1 DEF Reached
      <4> QED BY <4>1, <4>2
    <3> QED BY <3>1, <3>2
  <2> QED BY <2>1 DEF Follows
<1>6. Transaction' BY <1>1, <1>2 DEF Transaction
<1>7. Snapshot' BY <1>1 DEF Snapshot
<1>8. StillQueued'
  <2>1. ASSUME NEW p \in batch', p \notin gone' PROVE rec'[p] = "queued"
    <3>1. p \in batch /\ p \notin gone BY <2>1
    <3>2. staged[p] = "none" /\ p \in Partners BY <3>1 DEF IInv, StillQueued, TypeOK
    <3>3. rec'[p] = rec[p] BY <3>2 DEF Publish, Written
    <3> QED BY <3>1, <3>3 DEF IInv, StillQueued
  <2> QED BY <1>1, <1>2, <2>1 DEF StillQueued
<1>9. DoneMeansDone'
  BY <1>1, <1>p DEF IInv, DoneMeansDone
<1>10. Ahead' \in Nat /\ Ahead' <= Ahead
  <2>1. Cardinality(batch) \in Nat /\ Ahead = Cardinality(batch)
    BY AheadType DEF IInv, Ahead
  <2>2. Cardinality(batch') \in {0, Cardinality(batch)} BY FS_EmptySet
  <2>3. Ahead' = Cardinality(batch') BY <1>2, <2>1, <2>2 DEF Ahead
  <2> QED BY <2>1, <2>2, <2>3
<1>11. Bounded'
  <2>1. Limit \in Nat /\ Ahead \in Nat /\ late \in Nat
    BY CampaignAssumption, AheadType DEF IInv, TypeOK
  <2>2. Ahead <= Limit /\ late <= Limit /\ (camp = "cancelled" => late + Ahead <= Limit)
    BY DEF IInv, Bounded
  <2>3. Ahead' <= Limit /\ late' <= Limit BY <1>1, <1>10, <2>1, <2>2
  <2>4. ASSUME camp' = "cancelled" PROVE late' + Ahead' <= Limit
    <3>1. \A a, b, l \in Nat : b <= a /\ l + a <= Limit => l + b <= Limit BY <2>1
    <3>2. late + Ahead <= Limit /\ late' = late BY <1>1, <2>2, <2>4
    <3> QED BY <1>10, <2>1, <3>1, <3>2
  <2> QED BY <2>3, <2>4 DEF Bounded
<1> QED BY <1>3, <1>4, <1>5, <1>6, <1>7, <1>8, <1>9, <1>11 DEF IInv

LEMMA CronCommitInv ==
  ASSUME IInv, CronCommit
  PROVE  IInv'
<1>1. PICK newCamp \in CampStates : newCamp = IF holds THEN "running" ELSE camp
  BY DEF IInv, TypeOK, CampStates
<1>2. Publish(newCamp) BY <1>1 DEF CronCommit
<1>3. snapped BY DEF CronCommit, IInv, Transaction
<1> QED BY <1>1, <1>2, <1>3, PublishInv DEF CronCommit

(* Whether anyone is left queued is decided from the snapshot, and right:  *)
(* the campaign row, with the number of the queued, did not change.        *)
LEMMA CronEndInv ==
  ASSUME IInv, CronEnd
  PROVE  IInv'
<1>1. PICK newCamp \in CampStates :
        newCamp = IF Finished THEN "done" ELSE IF holds THEN "running" ELSE camp
  BY DEF IInv, TypeOK, CampStates
<1>2. Publish(newCamp) /\ ~Conflict BY <1>1 DEF CronEnd
<1>3. snapped BY DEF CronEnd, IInv, Transaction
<1>4. ASSUME Finished PROVE Queued(rec') = {}
  <2>1. "camp" \notin stale BY <1>4 DEF CronEnd
  <2>2. Stats([p \in Partners |-> Mine(p)]) = Stats(rec') BY <1>2, <1>3, <2>1, Publishes
  <2>3. Queued([p \in Partners |-> Mine(p)]) = {} BY <1>4 DEF Finished, Queued
  <2> QED BY <2>2, <2>3, NoneQueued
<1> QED BY <1>1, <1>2, <1>3, <1>4, PublishInv DEF CronEnd

LEMMA CronLeavesInv ==
  ASSUME IInv, CronLeaves
  PROVE  IInv'
<1> USE DEF CronLeaves, dbVars, txVars, counters
<1>1. TypeOK' BY DEF IInv, TypeOK
<1>2. Ahead' = Ahead BY DEF Ahead
<1>3. Bounded' BY <1>2 DEF IInv, Bounded
<1> QED
  BY <1>1, <1>3
  DEF IInv, StatsExact, Follows, Transaction, Snapshot, StillQueued, DoneMeansDone, Queued

LEMMA StutterInv ==
  ASSUME IInv, UNCHANGED vars
  PROVE  IInv'
<1> USE DEF vars, dbVars, runVars, txVars, counters
<1>1. TypeOK' BY DEF IInv, TypeOK
<1> QED
  BY <1>1
  DEF IInv, StatsExact, Follows, Transaction, Snapshot, StillQueued, DoneMeansDone, Queued,
      Bounded, Ahead

LEMMA StepInv ==
  ASSUME IInv, [Next]_vars
  PROVE  IInv'
<1>1. CASE User
  <2>1. CASE Launch
    BY <2>1, RebuildInv DEF Launch, CampStates, IInv
  <2>2. CASE Refresh
    <3>1. PICK c \in CampStates : c = camp BY DEF IInv, TypeOK
    <3>2. Rebuild(c) BY <2>2, <3>1 DEF Refresh
    <3> QED BY <2>2, <3>1, <3>2, RebuildInv DEF Refresh
  <2>3. CASE Cancel BY <2>3, SetStateInv DEF Cancel, CampStates
  <2>4. CASE ResetToDraft BY <2>4, SetStateInv DEF ResetToDraft, CampStates
  <2>5. ASSUME NEW p \in Partners, ToggleOptOut(p) PROVE IInv' BY <2>5, ToggleInv
  <2> QED BY <1>1, <2>1, <2>2, <2>3, <2>4, <2>5 DEF User
<1>2. CASE Hook BY <1>2, AckInv, EchoInv DEF Hook
<1>3. crashes \in 0 .. MaxCrash BY DEF IInv, TypeOK
<1>4. CASE CronStep
  <2>1. ASSUME NEW p \in Partners, CronMissing(p) PROVE IInv'
    BY <1>3, <2>1, RunEndsInv DEF CronMissing, counters
  <2>2. CASE CronCommitFails BY <1>3, <2>2, RunEndsInv DEF CronCommitFails, counters
  <2>3. CASE CronEndFails BY <1>3, <2>3, RunEndsInv DEF CronEndFails, counters
  <2> QED
    BY <1>4, <2>1, <2>2, <2>3, CronStartInv, CronSnapshotInv, CronSkipsInv, CronPicksInv,
       CronSendInv, CronCommitInv, CronLeavesInv, CronEndInv
    DEF CronStep
<1>5. CASE CronCrash
  <2>1. crashes' \in 0 .. MaxCrash BY <1>3, <1>5, CampaignAssumption DEF CronCrash
  <2> QED BY <1>5, <2>1, RunEndsInv DEF CronCrash
<1> QED BY <1>1, <1>2, <1>4, <1>5, CronWaitsInv, StutterInv DEF Next

(* In every reachable state the scheduled action's snapshot agrees with    *)
(* the database but for what it will notice, and what it has still to send *)
(* to is queued but for what was deleted.                                  *)
THEOREM Invariance == Spec => []IInv
BY InitInv, StepInv, PTL DEF Spec

(* Type correctness; among it, every statistic is a natural number. *)
THEOREM TypeCorrect == Spec => []TypeOK
BY Invariance, PTL DEF IInv

(* _compute_stats: the stored statistics are those of the recipients,      *)
(* though the scheduled action computes them from an old snapshot.         *)
THEOREM Exact == Spec => []StatsExact
BY Invariance, PTL DEF IInv

(* _process_batch sets the campaign done only when nobody is queued, even  *)
(* among the recipients a user added after its snapshot.                   *)
THEOREM NobodyForgotten == Spec => []DoneMeansDone
BY Invariance, PTL DEF IInv

(* action_cancel: whatever the interleaving, at most throttle_per_minute   *)
(* messages leave after the campaign was cancelled.                        *)
THEOREM CancelBounds == Spec => []CancelStops
<1>1. IInv => CancelStops BY DEF IInv, Bounded, CancelStops
<1> QED BY <1>1, Invariance, PTL

-------------------------------------------------------------------------------
(* The steps that change the recipients or what WhatsApp accepted.         *)

LEMMA OnlySendAccepts ==
  ASSUME [Next]_vars
  PROVE  CronSend \/ UNCHANGED accepted
<1>1. CASE User
  BY <1>1 DEF User, Launch, Refresh, Rebuild, Cancel, ResetToDraft, SetState, ToggleOptOut
<1>2. CASE Hook BY <1>2 DEF Hook, Ack, Echo
<1>3. CASE CronStep
  BY <1>3 DEF CronStep, CronStart, CronSnapshot, CronMissing, CronSkips, CronPicks,
              CronCommit, CronCommitFails, CronLeaves, CronEnd, CronEndFails
<1> QED BY <1>1, <1>2, <1>3 DEF Next, CronWaits, CronCrash, vars

(* _process_batch, "Commit per message so a later crash doesn't re-send    *)
(* earlier ones": WhatsApp accepts a message only for a contact whose      *)
(* committed recipient is queued, however old batch and snapshot are.      *)
THEOREM NeverSentAgain == Spec => OnlyQueuedIsSent
<1>1. ASSUME IInv, [Next]_vars, NEW p \in Partners, accepted'[p] > accepted[p]
      PROVE  rec[p] = "queued"
  <2>1. accepted[p] \in Nat /\ accepted \in [Partners -> Nat] BY <1>1 DEF IInv, TypeOK
  <2>2. CronSend BY <1>1, <2>1, OnlySendAccepts
  <2>3. cron = "send" BY <2>2 DEF CronSend
  <2>4. p = cur BY <1>1, <2>1, <2>2 DEF CronSend
  <2> QED BY <1>1, <2>3, <2>4 DEF IInv, StillQueued
<1>2. IInv /\ [Next]_vars =>
        [\A p \in Partners : accepted'[p] > accepted[p] => rec[p] = "queued"]_vars
  BY <1>1
<1> QED BY <1>2, Invariance, PTL DEF Spec, OnlyQueuedIsSent

(* What a step makes of a recipient: a rebuild keeps one that was used, an *)
(* acknowledgement raises it, the scheduled action writes a queued one.    *)
LEMMA RecipientStep ==
  ASSUME IInv, [Next]_vars, NEW p \in Partners
  PROVE  RecRank(rec'[p]) >= RecRank(rec[p])
<1>1. TypeOK /\ rec \in [Partners -> RecStates] BY DEF IInv, TypeOK
<1>2. ASSUME UNCHANGED rec PROVE RecRank(rec'[p]) >= RecRank(rec[p])
  BY <1>1, <1>2, Ranks
<1>3. ASSUME NEW c, Rebuild(c) PROVE RecRank(rec'[p]) >= RecRank(rec[p])
  <2>1. PICK targets : rec' = [q \in Partners |-> Built(q, targets)]
    BY <1>3 DEF Rebuild, Write
  <2> QED BY <1>1, <2>1, BuiltType
<1>4. CASE User
  <2>1. Launch \/ Refresh \/ UNCHANGED rec
    BY <1>4 DEF User, Cancel, ResetToDraft, SetState, Write, ToggleOptOut, dbVars
  <2>2. CASE Launch BY <1>3, <2>2 DEF Launch
  <2>3. CASE Refresh
    <3>1. PICK c : c = camp OBVIOUS
    <3>2. Rebuild(c) BY <2>3, <3>1 DEF Refresh
    <3> QED BY <1>3, <3>2
  <2> QED BY <1>2, <2>1, <2>2, <2>3
<1>5. ASSUME NEW q \in Partners, NEW s \in Reached \cup {"failed"}, Ack(q, s)
      PROVE  RecRank(rec'[p]) >= RecRank(rec[p])
  <2>1. rec' = [rec EXCEPT ![q] = Synced(q, s)] BY <1>5 DEF Ack, Write
  <2>2. CASE p = q BY <1>1, <2>1, <2>2, SyncedType
  <2>3. CASE p # q
    <3>1. rec'[p] = rec[p] BY <1>1, <2>1, <2>3
    <3> QED BY <1>1, <3>1, Ranks
  <2> QED BY <2>2, <2>3
<1>6. ASSUME NEW newCamp, Publish(newCamp), ~Conflict, cron \in {"commit", "end"}
      PROVE  RecRank(rec'[p]) >= RecRank(rec[p])
  <2>1. snapped BY <1>6 DEF IInv, Transaction
  <2>2. rec' \in [Partners -> RecStates]
        /\ (rec'[p] = rec[p] \/ rec[p] = "queued")
    BY <1>6, <2>1, Publishes
  <2> QED BY <1>1, <2>2, Ranks
<1>7. CASE CronCommit
  <2>1. PICK newCamp : newCamp = IF holds THEN "running" ELSE camp OBVIOUS
  <2> QED BY <1>6, <1>7, <2>1 DEF CronCommit
<1>8. CASE CronEnd
  <2>1. PICK newCamp :
          newCamp = IF Finished THEN "done" ELSE IF holds THEN "running" ELSE camp
    OBVIOUS
  <2> QED BY <1>6, <1>8, <2>1 DEF CronEnd
<1>9. CASE CronStep
  <2>1. CronCommit \/ CronEnd \/ UNCHANGED rec
    BY <1>9 DEF CronStep, CronStart, CronSnapshot, CronMissing, CronSkips, CronPicks,
                CronSend, CronCommitFails, CronLeaves, CronEndFails, dbVars
  <2> QED BY <1>2, <1>7, <1>8, <2>1
<1>10. CASE Hook
  <2>1. Echo => UNCHANGED rec BY DEF Echo, dbVars
  <2> QED BY <1>2, <1>5, <1>10, <2>1 DEF Hook
<1>11. CronWaits \/ CronCrash \/ UNCHANGED vars => UNCHANGED rec
  BY DEF CronWaits, CronCrash, vars, dbVars
<1> QED BY <1>2, <1>4, <1>9, <1>10, <1>11 DEF Next

(* _sync_from_messages and action_build_recipients: a recipient never      *)
(* loses what it reached and is never behind its message.                  *)
THEOREM ProgressKept == Spec => ProgressIsKept
<1>1. ASSUME IInv, IInv', [Next]_vars, NEW p \in Partners
      PROVE  /\ RecRank(rec'[p]) >= RecRank(rec[p])
             /\ RecRank(rec'[p]) >= RecRank(msg'[p])
  <2>1. RecRank(rec'[p]) >= RecRank(rec[p]) BY <1>1, RecipientStep
  <2>2. rec'[p] \in RecStates BY <1>1 DEF IInv, TypeOK
  <2>3. CASE msg'[p] = "none"
    <3>1. RecRank(msg'[p]) = 0 BY <2>3, Ranks
    <3>2. RecRank(rec'[p]) \in 0 .. 3 BY <2>2, Ranks
    <3> QED BY <2>1, <3>1, <3>2
  <2>4. CASE msg'[p] # "none"
    <3>1. Follows' BY <1>1 DEF IInv
    <3>2. RecRank(rec'[p]) >= RecRank(msg'[p]) BY <2>4, <3>1 DEF Follows
    <3> QED BY <2>1, <3>2
  <2> QED BY <2>3, <2>4
<1>2. IInv /\ IInv' /\ [Next]_vars =>
        [\A p \in Partners : /\ RecRank(rec'[p]) >= RecRank(rec[p])
                             /\ RecRank(rec'[p]) >= RecRank(msg'[p])]_vars
  BY <1>1
<1> QED BY <1>2, Invariance, PTL DEF Spec, ProgressIsKept
=============================================================================
