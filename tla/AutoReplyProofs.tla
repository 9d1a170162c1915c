-------------------------- MODULE AutoReplyProofs --------------------------
(***************************************************************************)
(* Proofs about AutoReply, for every set of messages, every batch limit,   *)
(* with and without "Allow Commit", and for any number of crashes and      *)
(* requeues.                                                               *)
(***************************************************************************)
EXTENDS AutoReply, FiniteSetTheorems, TLAPS

(* The strengthening that makes AtMostOneReply inductive: an open claim    *)
(* holds the row lock of a row that is still pending, so only one of the   *)
(* job and the scheduled action can be past the claim; a process about to  *)
(* reply has committed its claim and the reply has not been sent; and the  *)
(* reply has been sent only if the flag is gone for good.                  *)
JobOk(m) ==
  /\ worker[m] = "claimed" => lock[m] = "job"
  /\ worker[m] = "send" => /\ m \in arrived /\ ~pending[m] /\ replies[m] = 0
                           /\ ~(cron = "send" /\ cur = m)
  /\ lock[m] = "job" => worker[m] = "claimed"

CronOk ==
  /\ cron = "claimed" => lock[cur] = "cron"
  /\ cron = "send" => cur \in arrived /\ ~pending[cur] /\ replies[cur] = 0

RowOk(m) ==
  /\ lock[m] = "cron" => cron = "claimed" /\ cur = m
  /\ lock[m] # "none" => pending[m]
  /\ pending[m] => m \in arrived /\ replies[m] = 0
  /\ m \notin arrived => replies[m] = 0
  /\ replies[m] <= 1

Claims == CronOk /\ \A m \in Msgs : JobOk(m) /\ RowOk(m)

IInv == TypeOK /\ Claims

USE AutoReplyAssumption
    DEF rowVars, jobVars, cronVars, outcomes, JobStates, WorkerPcs, CronPcs

-----------------------------------------------------------------------------
LEMMA InitType == Init => TypeOK
<1> SUFFICES ASSUME Init PROVE TypeOK
  OBVIOUS
<1>1. pending \in [Msgs -> BOOLEAN] /\ jobSnap \in [Msgs -> BOOLEAN]
      /\ cronSnap \in [Msgs -> BOOLEAN]
  BY Zenon DEF Init
<1> QED BY <1>1 DEF Init, TypeOK

(* A run of the rules keeps the types of its outcomes. *)
LEMMA RunType ==
  ASSUME TypeOK, NEW m \in Msgs, RulesRun(m)
  PROVE  replies' \in [Msgs -> Nat] /\ silent' \subseteq Msgs /\ erred' \subseteq Msgs
<1>1. CASE replies' = [replies EXCEPT ![m] = @ + 1] /\ UNCHANGED <<silent, erred>>
  BY <1>1 DEF TypeOK
<1>2. CASE silent' = silent \cup {m} /\ UNCHANGED <<replies, erred>>
  BY <1>2 DEF TypeOK
<1>3. CASE erred' = erred \cup {m} /\ UNCHANGED <<replies, silent>>
  BY <1>3 DEF TypeOK
<1> QED BY <1>1, <1>2, <1>3 DEF RulesRun

(* No job step leaves the types. *)
LEMMA JobType ==
  ASSUME TypeOK, NEW m \in Msgs,
         JobStep(m) \/ JobCrash(m) \/ JobRequeue(m) \/ Flag(m)
  PROVE  TypeOK'
<1>1. CASE JobStart(m) BY <1>1 DEF TypeOK, JobStart
<1>2. CASE JobClaimLost(m) BY <1>2 DEF TypeOK, JobClaimLost, JobEnds
<1>3. CASE JobClaimConflict(m) BY <1>3 DEF TypeOK, JobClaimConflict, JobEnds
<1>4. CASE JobClaimWon(m) BY <1>4 DEF TypeOK, JobClaimWon
<1>5. CASE JobCommit(m) BY <1>5 DEF TypeOK, JobCommit
<1>12. CASE JobCommitRefused(m) BY <1>12 DEF TypeOK, JobCommitRefused, JobEnds
<1>6. CASE JobSend(m) BY <1>6, RunType DEF TypeOK, JobSend
<1>7. CASE JobFinish(m) BY <1>7 DEF TypeOK, JobFinish, JobEnds
<1>8. CASE JobFoundDead(m) BY <1>8 DEF TypeOK, JobFoundDead
<1>9. CASE JobCrash(m) BY <1>9 DEF TypeOK, JobCrash
<1>10. CASE JobRequeue(m) BY <1>10 DEF TypeOK, JobRequeue
<1>11. CASE Flag(m) BY <1>11 DEF TypeOK, Flag
<1> QED BY <1>1, <1>2, <1>3, <1>4, <1>5, <1>6, <1>7, <1>8, <1>9, <1>10, <1>11,
          <1>12 DEF JobStep

(* No step of the scheduled action leaves the types. *)
LEMMA CronType ==
  ASSUME TypeOK, CronStep \/ CronCrash
  PROVE  TypeOK'
<1>1. CASE CronStart BY <1>1 DEF TypeOK, CronStart, FirstPending, Pending
<1>2. CASE CronSnapshot BY <1>2 DEF TypeOK, CronSnapshot
<1>3. ASSUME NEW m \in Msgs, CronClaimLost(m) PROVE TypeOK'
  BY <1>3 DEF TypeOK, CronClaimLost
<1>4. ASSUME NEW m \in Msgs, CronClaimConflict(m) PROVE TypeOK'
  BY <1>4 DEF TypeOK, CronClaimConflict
<1>5. ASSUME NEW m \in Msgs, CronClaimWon(m) PROVE TypeOK'
  BY <1>5 DEF TypeOK, CronClaimWon
<1>6. CASE CronCommit BY <1>6 DEF TypeOK, CronCommit
<1>7. CASE CronSend
  <2>1. cur \in Msgs /\ RulesRun(cur) BY <1>7 DEF TypeOK, CronSend
  <2> QED BY <1>7, <2>1, RunType DEF TypeOK, CronSend
<1>8. CASE CronNextMsg BY <1>8 DEF TypeOK, CronNextMsg
<1>9. CASE CronEnd BY <1>9 DEF TypeOK, CronEnd
<1>10. CASE CronCrash
  <2>1. crashes' \in Nat
    BY <1>10 DEF TypeOK, CronCrash
  <2>2. lock' \in [Msgs -> {"none", "job", "cron"}]
    BY <1>10 DEF TypeOK, CronCrash
  <2>3. UNCHANGED <<arrived, pending, jobVars, cur, cronSnap, outcomes, requeues>>
    BY <1>10 DEF CronCrash
  <2>4. cron' \in CronPcs /\ batch' \subseteq Msgs /\ snapOpen' \in BOOLEAN
    BY <1>10 DEF CronCrash
  <2> QED BY <2>1, <2>2, <2>3, <2>4 DEF TypeOK
<1> QED BY <1>1, <1>2, <1>3, <1>4, <1>5, <1>6, <1>7, <1>8, <1>9, <1>10
        DEF CronStep

LEMMA NextType == TypeOK /\ [Next]_vars => TypeOK'
<1> SUFFICES ASSUME TypeOK, [Next]_vars PROVE TypeOK'
  OBVIOUS
<1>1. CASE Next BY <1>1, JobType, CronType DEF Next
<1>2. CASE UNCHANGED vars BY <1>2 DEF vars, TypeOK
<1> QED BY <1>1, <1>2

(* The variables keep their types in every reachable state. *)
THEOREM TypeCorrect == Spec => []TypeOK
BY InitType, NextType, PTL DEF Spec

-----------------------------------------------------------------------------
LEMMA InitClaims == Init => Claims
BY DEF Init, Claims, CronOk, JobOk, RowOk

(* A step of message m's job, or its arrival, disturbs only m's own claim. *)
LEMMA JobClaims ==
  ASSUME IInv, NEW m \in Msgs,
         JobStep(m) \/ JobCrash(m) \/ JobRequeue(m) \/ Flag(m)
  PROVE  Claims'
<1> USE DEF IInv, TypeOK, Claims, CronOk, JobOk, RowOk
<1>1. CASE JobStart(m) BY <1>1 DEF JobStart
<1>2. CASE JobClaimLost(m) BY <1>2 DEF JobClaimLost, JobEnds
<1>3. CASE JobClaimConflict(m) BY <1>3 DEF JobClaimConflict, JobEnds
<1>4. CASE JobClaimWon(m) BY <1>4 DEF JobClaimWon
<1>5. CASE JobCommit(m) BY <1>5 DEF JobCommit
<1>12. CASE JobCommitRefused(m) BY <1>12 DEF JobCommitRefused, JobEnds
<1>6. CASE JobSend(m) BY <1>6 DEF JobSend, RulesRun
<1>7. CASE JobFinish(m) BY <1>7 DEF JobFinish, JobEnds
<1>8. CASE JobFoundDead(m) BY <1>8 DEF JobFoundDead
<1>9. CASE JobCrash(m) BY <1>9 DEF JobCrash
<1>10. CASE JobRequeue(m) BY <1>10 DEF JobRequeue
<1>11. CASE Flag(m) BY <1>11 DEF Flag
<1> QED BY <1>1, <1>2, <1>3, <1>4, <1>5, <1>6, <1>7, <1>8, <1>9, <1>10, <1>11,
          <1>12 DEF JobStep

(* A step of the scheduled action disturbs only the claim it is working on. *)
LEMMA CronClaims ==
  ASSUME IInv, CronStep \/ CronCrash
  PROVE  Claims'
<1> USE DEF IInv, TypeOK, Claims, CronOk, JobOk, RowOk
<1>1. CASE CronStart BY <1>1 DEF CronStart
<1>2. CASE CronSnapshot BY <1>2 DEF CronSnapshot
<1>3. ASSUME NEW m \in Msgs, CronClaimLost(m) PROVE Claims'
  BY <1>3 DEF CronClaimLost
<1>4. ASSUME NEW m \in Msgs, CronClaimConflict(m) PROVE Claims'
  BY <1>4 DEF CronClaimConflict
<1>5. ASSUME NEW m \in Msgs, CronClaimWon(m) PROVE Claims'
  BY <1>5 DEF CronClaimWon
<1>6. CASE CronCommit BY <1>6 DEF CronCommit
<1>7. CASE CronSend BY <1>7 DEF CronSend, RulesRun
<1>8. CASE CronNextMsg BY <1>8 DEF CronNextMsg
<1>9. CASE CronEnd BY <1>9 DEF CronEnd
<1>10. CASE CronCrash BY <1>10 DEF CronCrash
<1> QED BY <1>1, <1>2, <1>3, <1>4, <1>5, <1>6, <1>7, <1>8, <1>9, <1>10
        DEF CronStep

LEMMA NextInv == IInv /\ [Next]_vars => IInv'
<1> SUFFICES ASSUME IInv, [Next]_vars PROVE IInv'
  OBVIOUS
<1>1. TypeOK' BY NextType DEF IInv
<1>2. CASE Next BY <1>1, <1>2, JobClaims, CronClaims DEF Next, IInv
<1>3. CASE UNCHANGED vars
  BY <1>1, <1>3 DEF vars, IInv, Claims, CronOk, JobOk, RowOk
<1> QED BY <1>2, <1>3

LEMMA Invariance == Spec => []IInv
BY InitType, InitClaims, NextInv, PTL DEF Spec, IInv

(* However the job, its retries and requeues, and the scheduled action     *)
(* interleave, and wherever a process dies, a message is answered at most  *)
(* once.                                                                   *)
THEOREM ReplyAtMostOnce == Spec => []AtMostOneReply
<1>1. IInv => AtMostOneReply BY DEF IInv, Claims, RowOk, AtMostOneReply
<1> QED BY <1>1, Invariance, PTL

-----------------------------------------------------------------------------
(* Steps of the detailed specification map to steps of ReplyOnce.          *)

(* The status of a message depends only on its own row and replies.        *)
LEMMA StatusUnchanged ==
  ASSUME UNCHANGED <<arrived, pending, replies>>
  PROVE  UNCHANGED Promise!vars
BY DEF status, Promise!vars

LEMMA FlagMaps ==
  ASSUME IInv, NEW m \in Msgs, Flag(m)
  PROVE  Promise!Flag(m)
<1>1. status[m] = "new"
  BY DEF Flag, status
<1>2. status' = [status EXCEPT ![m] = "flagged"]
  BY DEF Flag, status, IInv, TypeOK
<1>3. UNCHANGED replies
  BY DEF Flag
<1> QED BY <1>1, <1>2, <1>3 DEF Promise!Flag, Promise!Becomes

(* Clearing a set flag is the abstract Claim. *)
LEMMA ClaimMaps ==
  ASSUME IInv, NEW m \in Msgs, lock[m] # "none",
         pending' = [pending EXCEPT ![m] = FALSE],
         UNCHANGED <<arrived, replies>>
  PROVE  Promise!Claim(m)
<1>1. m \in arrived /\ pending[m] /\ replies[m] = 0
  BY DEF IInv, Claims, RowOk
<1>2. status[m] = "flagged"
  BY <1>1 DEF status
<1>3. status' = [status EXCEPT ![m] = "claimed"]
  BY <1>1 DEF status, IInv, TypeOK
<1> QED BY <1>2, <1>3 DEF Promise!Claim, Promise!Becomes

(* A reply to a claimed, unanswered message is the abstract Reply... *)
LEMMA ReplyMaps ==
  ASSUME IInv, NEW m \in Msgs, m \in arrived, ~pending[m], replies[m] = 0,
         replies' = [replies EXCEPT ![m] = @ + 1],
         UNCHANGED <<arrived, pending>>
  PROVE  Promise!Reply(m)
<1>1. status[m] = "claimed"
  BY DEF status
<1> DEFINE new == [status EXCEPT ![m] = "replied"]
<1>2. replies'[m] = 1 /\ \A n \in Msgs \ {m} : replies'[n] = replies[n]
  BY DEF IInv, TypeOK
<1>3. \A n \in Msgs : status'[n] = new[n]
  BY <1>2 DEF status
<1>4. status' = new
  BY <1>3 DEF status
<1> QED BY <1>1, <1>4 DEF Promise!Reply, Promise!Becomes

(* ... and a run of the rules that ends without one is a stutter. *)
LEMMA RunMaps ==
  ASSUME IInv, NEW m \in Msgs, m \in arrived, ~pending[m], replies[m] = 0,
         RulesRun(m), UNCHANGED <<arrived, pending>>
  PROVE  [Promise!Next]_(Promise!vars)
<1>1. CASE replies' = [replies EXCEPT ![m] = @ + 1]
  BY <1>1, ReplyMaps DEF Promise!Next
<1>2. CASE UNCHANGED replies
  BY <1>2, StatusUnchanged
<1> QED BY <1>1, <1>2 DEF RulesRun

LEMMA StepMaps == IInv /\ [Next]_vars => [Promise!Next]_(Promise!vars)
<1> SUFFICES ASSUME IInv, [Next]_vars PROVE [Promise!Next]_(Promise!vars)
  OBVIOUS
<1>1. ASSUME NEW m \in Msgs, Flag(m) PROVE Promise!Next
  BY <1>1, FlagMaps DEF Promise!Next
<1>2. ASSUME NEW m \in Msgs, JobCommit(m) PROVE Promise!Next
  <2>1. lock[m] # "none"
    BY <1>2 DEF JobCommit, IInv, Claims, JobOk
  <2> QED BY <1>2, <2>1, ClaimMaps DEF JobCommit, Promise!Next
<1>3. ASSUME NEW m \in Msgs, JobSend(m) PROVE [Promise!Next]_(Promise!vars)
  <2>1. m \in arrived /\ ~pending[m] /\ replies[m] = 0
    BY <1>3 DEF JobSend, IInv, Claims, JobOk
  <2> QED BY <1>3, <2>1, RunMaps DEF JobSend
<1>4. CASE CronCommit
  <2>1. cur \in Msgs /\ lock[cur] # "none"
    BY <1>4 DEF CronCommit, IInv, TypeOK, Claims, CronOk
  <2> QED BY <1>4, <2>1, ClaimMaps DEF CronCommit, Promise!Next
<1>5. ASSUME CronSend PROVE [Promise!Next]_(Promise!vars)
  <2>1. cur \in Msgs /\ cur \in arrived /\ ~pending[cur] /\ replies[cur] = 0
    BY <1>5 DEF CronSend, IInv, TypeOK, Claims, CronOk
  <2> QED BY <1>5, <2>1, RunMaps DEF CronSend
<1>6. ASSUME NEW m \in Msgs,
             \/ JobStart(m) \/ JobClaimLost(m) \/ JobClaimConflict(m)
             \/ JobClaimWon(m) \/ JobFinish(m) \/ JobFoundDead(m)
             \/ JobCrash(m) \/ JobRequeue(m) \/ JobCommitRefused(m)
      PROVE  UNCHANGED Promise!vars
  BY <1>6, StatusUnchanged
     DEF JobStart, JobClaimLost, JobClaimConflict, JobClaimWon, JobFinish,
         JobFoundDead, JobCrash, JobRequeue, JobCommitRefused
<1>7. ASSUME NEW m \in Msgs,
             CronClaimLost(m) \/ CronClaimConflict(m) \/ CronClaimWon(m)
      PROVE  UNCHANGED Promise!vars
  BY <1>7, StatusUnchanged DEF CronClaimLost, CronClaimConflict, CronClaimWon
<1>8. CASE CronStart \/ CronSnapshot \/ CronNextMsg \/ CronEnd \/ CronCrash
  <2>1. UNCHANGED <<arrived, pending, replies>>
    BY <1>8 DEF CronStart, CronSnapshot, CronNextMsg, CronEnd, CronCrash
  <2> QED BY <2>1, StatusUnchanged
<1>9. CASE UNCHANGED vars
  BY <1>9, StatusUnchanged DEF vars
<1> QED BY <1>1, <1>2, <1>3, <1>4, <1>5, <1>6, <1>7, <1>8, <1>9
        DEF Next, JobStep, CronStep

LEMMA InitMaps == Init => Promise!Init
BY DEF Init, Promise!Init, status

(* The claim protocol implements ReplyOnce: flagged once, taken once and   *)
(* before the send, answered at most once.                                 *)
THEOREM Implementation == Spec => ImplementsReplyOnce
BY InitMaps, StepMaps, Invariance, PTL DEF Spec, Promise!Spec, ImplementsReplyOnce

-----------------------------------------------------------------------------
(* Missed replies are counted against errors and crashes.  A process past  *)
(* its run of the rules has recorded the outcome for its message, and the  *)
(* messages missed without an error of their own are finitely many: a      *)
(* crash adds one of them at most, no other step any.                      *)
Counted ==
  /\ \A m \in Msgs : worker[m] = "sent" => RulesRan(m)
  /\ cron = "sent" => RulesRan(cur)

Unexplained == Missed \ erred

Accounted == Counted /\ IsFiniteSet(Unexplained) /\ OneMissedPerError

(* Messages that no crash of this step can have caused to be missed. *)
NoneMissed == Unexplained' \subseteq Unexplained /\ crashes' = crashes

OneMissed == \E m \in Msgs : Unexplained' \subseteq Unexplained \cup {m} /\ crashes' = crashes + 1

LEMMA InitAccounted == Init => Accounted
<1> SUFFICES ASSUME Init PROVE Accounted
  OBVIOUS
<1>1. Counted BY DEF Init, Counted, RulesRan
<1>2. Unexplained = {} /\ crashes = 0 BY DEF Init, Unexplained, Missed
<1>3. IsFiniteSet(Unexplained) /\ Cardinality(Unexplained) = 0 BY <1>2, FS_EmptySet
<1> QED BY <1>1, <1>2, <1>3 DEF Accounted, OneMissedPerError, Unexplained

(* A run of the rules records the outcome of its message, and touches no   *)
(* other.                                                                  *)
LEMMA RunRecorded ==
  ASSUME TypeOK, NEW m \in Msgs, RulesRun(m)
  PROVE  /\ replies'[m] > 0 \/ m \in silent' \/ m \in erred'
         /\ \A n \in Msgs : RulesRan(n) => RulesRan(n)'
         /\ \A n \in Msgs \ {m} : /\ replies'[n] = replies[n]
                                  /\ n \in silent' <=> n \in silent
                                  /\ n \in erred' <=> n \in erred
<1> USE DEF TypeOK, RulesRan
<1>1. CASE replies' = [replies EXCEPT ![m] = @ + 1] /\ UNCHANGED <<silent, erred>>
  BY <1>1
<1>2. CASE silent' = silent \cup {m} /\ UNCHANGED <<replies, erred>>
  BY <1>2
<1>3. CASE erred' = erred \cup {m} /\ UNCHANGED <<replies, silent>>
  BY <1>3
<1> QED BY <1>1, <1>2, <1>3 DEF RulesRun

(* Only a crash of the worker can lose the reply of the message it claimed. *)
LEMMA JobAccounts ==
  ASSUME IInv, Counted, NEW m \in Msgs,
         JobStep(m) \/ JobCrash(m) \/ JobRequeue(m) \/ Flag(m)
  PROVE  Counted' /\ (NoneMissed \/ OneMissed)
<1> USE DEF IInv, TypeOK, Claims, CronOk, JobOk, RowOk, Counted, RulesRan, NoneMissed, Unexplained, Missed
<1>1. CASE JobStart(m) BY <1>1 DEF JobStart
<1>2. CASE JobClaimLost(m) BY <1>2 DEF JobClaimLost, JobEnds
<1>3. CASE JobClaimConflict(m) BY <1>3 DEF JobClaimConflict, JobEnds
<1>4. CASE JobClaimWon(m) BY <1>4 DEF JobClaimWon
<1>5. CASE JobCommit(m) BY <1>5 DEF JobCommit
<1>6. CASE JobCommitRefused(m) BY <1>6 DEF JobCommitRefused, JobEnds
<1>7. CASE JobSend(m)
  <2>1. RulesRun(m) BY <1>7 DEF JobSend
  <2>2. m \notin Unexplained'
    BY <2>1, RunRecorded, RunType
  <2>3. \A n \in Msgs \ {m} : n \in Unexplained' => n \in Unexplained
    BY <1>7, <2>1, RunRecorded DEF JobSend
  <2>4. Counted'
    BY <1>7, <2>1, RunRecorded DEF JobSend
  <2>5. arrived' = arrived /\ crashes' = crashes
    BY <1>7 DEF JobSend
  <2>6. Unexplained' \subseteq Unexplained
    <3>1. Unexplained' \subseteq Msgs BY <2>5
    <3> HIDE DEF Unexplained
    <3> QED BY <2>2, <2>3, <3>1
  <2> HIDE DEF Counted, Unexplained
  <2> QED BY <2>4, <2>5, <2>6
<1>8. CASE JobFinish(m) BY <1>8 DEF JobFinish, JobEnds
<1>9. CASE JobFoundDead(m) BY <1>9 DEF JobFoundDead
<1>10. CASE JobCrash(m)
  <2>1. Counted' BY <1>10 DEF JobCrash
  <2>2. Unexplained' \subseteq Unexplained \cup {m} BY <1>10 DEF JobCrash
  <2>3. crashes' = crashes + 1 BY <1>10 DEF JobCrash
  <2> QED BY <2>1, <2>2, <2>3 DEF OneMissed
<1>11. CASE JobRequeue(m) BY <1>11 DEF JobRequeue
<1>12. CASE Flag(m) BY <1>12 DEF Flag
<1> QED BY <1>1, <1>2, <1>3, <1>4, <1>5, <1>6, <1>7, <1>8, <1>9, <1>10, <1>11,
          <1>12 DEF JobStep

(* Only a crash of the scheduled action can lose the reply it is about to  *)
(* send; an aborted run, and the rest of its batch, lose none.             *)
LEMMA CronAccounts ==
  ASSUME IInv, Counted, CronStep \/ CronCrash
  PROVE  Counted' /\ (NoneMissed \/ OneMissed)
<1> USE DEF IInv, TypeOK, Claims, CronOk, JobOk, RowOk, Counted, RulesRan, NoneMissed, Unexplained, Missed
<1>1. CASE CronStart BY <1>1 DEF CronStart
<1>2. CASE CronSnapshot BY <1>2 DEF CronSnapshot
<1>3. ASSUME NEW m \in Msgs, CronClaimLost(m) PROVE Counted' /\ NoneMissed
  BY <1>3 DEF CronClaimLost
<1>4. ASSUME NEW m \in Msgs, CronClaimConflict(m) PROVE Counted' /\ NoneMissed
  BY <1>4 DEF CronClaimConflict
<1>5. ASSUME NEW m \in Msgs, CronClaimWon(m) PROVE Counted' /\ NoneMissed
  BY <1>5 DEF CronClaimWon
<1>6. CASE CronCommit BY <1>6 DEF CronCommit
<1>7. CASE CronSend
  <2>1. cur \in Msgs /\ RulesRun(cur) BY <1>7 DEF CronSend
  <2>2. cur \notin Unexplained'
    BY <2>1, RunRecorded, RunType
  <2>3. \A n \in Msgs \ {cur} : n \in Unexplained' => n \in Unexplained
    BY <1>7, <2>1, RunRecorded DEF CronSend
  <2>4. Counted'
    BY <1>7, <2>1, RunRecorded DEF CronSend
  <2>5. arrived' = arrived /\ crashes' = crashes
    BY <1>7 DEF CronSend
  <2>6. Unexplained' \subseteq Unexplained
    <3>1. Unexplained' \subseteq Msgs BY <2>5
    <3> HIDE DEF Unexplained
    <3> QED BY <2>2, <2>3, <3>1
  <2> HIDE DEF Counted, Unexplained
  <2> QED BY <2>4, <2>5, <2>6
<1>8. CASE CronNextMsg BY <1>8 DEF CronNextMsg
<1>9. CASE CronEnd BY <1>9 DEF CronEnd
<1>10. CASE CronCrash
  <2>1. Counted' BY <1>10 DEF CronCrash
  <2>2. Unexplained' \subseteq Unexplained \cup {cur} BY <1>10 DEF CronCrash
  <2>3. crashes' = crashes + 1 /\ cur \in Msgs BY <1>10 DEF CronCrash
  <2> QED BY <2>1, <2>2, <2>3 DEF OneMissed
<1> QED BY <1>1, <1>2, <1>3, <1>4, <1>5, <1>6, <1>7, <1>8, <1>9, <1>10
        DEF CronStep

LEMMA NextAccounted == IInv /\ Accounted /\ [Next]_vars => Accounted'
<1> SUFFICES ASSUME IInv, Accounted, [Next]_vars PROVE Accounted'
  OBVIOUS
<1>1. Counted' /\ (NoneMissed \/ OneMissed)
  <2>1. CASE Next BY <2>1, JobAccounts, CronAccounts DEF Next, Accounted
  <2>2. CASE UNCHANGED vars
    BY <2>2 DEF vars, Accounted, Counted, RulesRan, NoneMissed, Unexplained, Missed
  <2> QED BY <2>1, <2>2
<1>2. IsFiniteSet(Unexplained) /\ Cardinality(Unexplained) \in Nat /\ crashes \in Nat
      /\ Cardinality(Unexplained) <= crashes
  BY FS_CardinalityType DEF Accounted, IInv, TypeOK, OneMissedPerError, Unexplained
<1>3. CASE NoneMissed
  <2>1. IsFiniteSet(Unexplained') /\ Cardinality(Unexplained') <= Cardinality(Unexplained)
    BY <1>2, <1>3, FS_Subset DEF NoneMissed
  <2>2. Cardinality(Unexplained') \in Nat BY <2>1, FS_CardinalityType
  <2>3. Cardinality(Unexplained') <= crashes' BY <1>2, <1>3, <2>1, <2>2 DEF NoneMissed
  <2> QED BY <1>1, <2>1, <2>3 DEF Accounted, OneMissedPerError, Unexplained
<1>4. CASE OneMissed
  <2>1. PICK m \in Msgs : Unexplained' \subseteq Unexplained \cup {m} /\ crashes' = crashes + 1
    BY <1>4 DEF OneMissed
  <2> DEFINE More == Unexplained \cup {m}
  <2>2. IsFiniteSet(More) /\ Cardinality(More) <= Cardinality(Unexplained) + 1
        /\ Cardinality(More) \in Nat
    <3>1. IsFiniteSet(More)
          /\ (Cardinality(More) = Cardinality(Unexplained) \/ Cardinality(More) = Cardinality(Unexplained) + 1)
      BY <1>2, FS_AddElement
    <3> HIDE DEF More
    <3> QED BY <1>2, <3>1
  <2>3. IsFiniteSet(Unexplained') /\ Cardinality(Unexplained') <= Cardinality(More)
    BY <2>1, <2>2, FS_Subset
  <2>4. Cardinality(Unexplained') \in Nat BY <2>3, FS_CardinalityType
  <2> HIDE DEF More
  <2>5. Cardinality(Unexplained') <= crashes' BY <1>2, <2>1, <2>2, <2>3, <2>4
  <2> QED BY <1>1, <2>3, <2>5 DEF Accounted, OneMissedPerError, Unexplained
<1> QED BY <1>1, <1>3, <1>4

(* Every missed reply is the fault of an error in its own run of the rules *)
(* or of a crash of its own, for any number of messages, errors, crashes   *)
(* and requeues, whatever runs next to it.                                 *)
THEOREM ErrorsAndCrashesExplainMissed == Spec => []OneMissedPerError
<1>1. Spec => []Accounted
  BY InitAccounted, NextAccounted, Invariance, PTL DEF Spec
<1>2. Accounted => OneMissedPerError BY DEF Accounted
<1> QED BY <1>1, <1>2, PTL
=============================================================================
