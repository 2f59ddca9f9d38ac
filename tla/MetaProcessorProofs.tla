------------------------- MODULE MetaProcessorProofs -------------------------
(***************************************************************************)
(* Proofs about MetaProcessor, for any roster, any number of concurrent    *)
(* runs and every fault.                                                   *)
(***************************************************************************)
EXTENDS MetaProcessor, TLAPS

USE ConstantsAssumption DEF TaskStatus, PartStatus, WorkerStatus, Waiting, Step,
    TailStep

LEMMA InitInv == Init => IInv
<1> SUFFICES ASSUME Init PROVE IInv
  OBVIOUS
<1>1. TypeOK
  <2>1. /\ status \in TaskStatus /\ submitted \in SUBSET Member
        /\ result \in SUBSET Member /\ raced \in SUBSET Member
    BY DEF Init
  <2>2. part \in [Member -> PartStatus] /\ worker \in [Member -> WorkerStatus]
    BY DEF Init
  <2>4. posts \in Nat /\ armed \in Nat /\ mapped \in {0, 1} /\ mapped <= armed
    BY DEF Init
  <2>5. /\ lockMap \in Mutex \cup {NoMutex}
        /\ locked \in SUBSET (Mutex \cup {NoMutex})
        /\ dirty \in BOOLEAN
    BY DEF Init
  <2>6. pc \in [Run -> Step] /\ mu \in [Run -> Mutex \cup {NoMutex}]
    BY DEF Init
  <2>7. snap \in [Run -> SUBSET Member]
    BY DEF Init
  <2>8. acc \in [Run -> SUBSET Member] /\ retries \in [Run -> Nat]
    BY DEF Init
  <2>9. at \in [Tail -> TailStep] /\ who \in [Tail -> Member] /\ only \in [Tail -> BOOLEAN]
    BY DEF Init
  <2> QED
    BY <2>1, <2>2, <2>4, <2>5, <2>6, <2>7, <2>8, <2>9 DEF TypeOK
<1>2. RosterConsistent
  BY DEF Init, RosterConsistent, Results
<1>3. MergeNotEmpty /\ SoleMemberShown /\ CompletedMatchesRoster
  BY DEF Init, MergeNotEmpty, SoleMemberShown, CompletedMatchesRoster
<1> QED
  BY <1>1, <1>2, <1>3 DEF IInv

\* A step of a run, or one of the triggers that start it, keeps every type.
LEMMA RunStepType ==
  ASSUME TypeOK, NEW r \in Run, Fire(r) \/ RunStep(r)
  PROVE  TypeOK'
<1> USE DEF TypeOK, Goto, timerVars, lockVars, runVars, tailVars, dbVars, rosterVars, textVars
<1>1. CASE Fire(r)
  BY <1>1 DEF Fire
<1>2. CASE GetMetaLock(r)
  <2>1. PICK x \in Mutex \cup {NoMutex} : lockMap' = x /\ mu' = [mu EXCEPT ![r] = x]
    BY <1>2 DEF GetMetaLock
  <2>2. pc' \in [Run -> Step] /\ mapped' = 0 /\ armed' = armed
    BY <1>2 DEF GetMetaLock
  <2>3. UNCHANGED <<dbVars, posts, locked, dirty, snap, acc, retries, tailVars>>
    BY <1>2 DEF GetMetaLock
  <2>4. lockMap' \in Mutex \cup {NoMutex} /\ mu' \in [Run -> Mutex \cup {NoMutex}]
    BY <2>1
  <2> QED
    BY <2>2, <2>3, <2>4
<1>3. CASE TryLock(r)
  <2>1. locked' \in SUBSET (Mutex \cup {NoMutex}) /\ pc' \in [Run -> Step]
    BY <1>3 DEF TryLock
  <2>2. UNCHANGED <<dbVars, posts, timerVars, lockMap, dirty, mu, snap, acc, retries, tailVars>>
    BY <1>3 DEF TryLock
  <2> QED
    BY <2>1, <2>2
<1>4. CASE MarkDirty(r)
  BY <1>4 DEF MarkDirty
<1>5. CASE ClearDirty(r)
  BY <1>5 DEF ClearDirty
<1>6. CASE ReadSubmitted(r)
  BY <1>6 DEF ReadSubmitted
<1>7. CASE ReadAccepted(r)
  BY <1>7 DEF ReadAccepted, Accepted
<1>8. CASE Decide(r)
  BY <1>8 DEF Decide
<1>9. CASE CheckStatus(r)
  BY <1>9 DEF CheckStatus
<1>10. CASE SaveLatestResult(r)
  <2>1. /\ status' \in TaskStatus /\ result' \in SUBSET Member
        /\ raced' \in SUBSET Member /\ snap' \in [Run -> SUBSET Member]
    BY <1>10 DEF SaveLatestResult, MarkTaskCompleted
  <2>2. \E s \in Step : Goto(r, s)
    BY <1>10 DEF SaveLatestResult
  <2>4. retries' \in {retries, [retries EXCEPT ![r] = @ + 1]}
    BY <1>10 DEF SaveLatestResult
  <2>5. pc' \in [Run -> Step]
    BY <2>2
  <2>6. retries' \in [Run -> Nat]
    BY <2>4
  <2>3. UNCHANGED <<rosterVars, posts, timerVars, lockVars, mu, acc, tailVars>>
    BY <1>10 DEF SaveLatestResult
  <2> QED
    BY <2>1, <2>3, <2>5, <2>6
<1>11. CASE IsDirty(r)
  BY <1>11 DEF IsDirty
<1>12. CASE Unlock(r)
  BY <1>12 DEF Unlock
<1>13. CASE DropLock(r)
  BY <1>13 DEF DropLock
<1>14. CASE DropDirty(r)
  BY <1>14 DEF DropDirty
<1> QED
  BY <1>1, <1>2, <1>3, <1>4, <1>5, <1>6, <1>7, <1>8, <1>9, <1>10, <1>11,
     <1>12, <1>13, <1>14 DEF RunStep

LEMMA MemberStepType ==
  ASSUME TypeOK, NEW m \in Member, MemberStep(m)
  PROVE  TypeOK'
<1> USE DEF TypeOK, Post, Revive, TriggerMetaSummary, procVars, timerVars,
            lockVars, runVars, tailVars, textVars
<1>1. CASE AddMember(m)
  BY <1>1 DEF AddMember
<1>2. CASE Accept(m)
  BY <1>2 DEF Accept
<1>3. CASE Decline(m)
  BY <1>3 DEF Decline
<1>4. CASE Leave(m)
  BY <1>4 DEF Leave
<1>5. CASE Submit(m)
  BY <1>5 DEF Submit
<1>6. CASE PersonalEdit(m)
  BY <1>6 DEF PersonalEdit, rosterVars
<1>7. CASE RegeneratePersonal(m)
  BY <1>7 DEF RegeneratePersonal
<1>8. CASE PersonalFail(m)
  BY <1>8 DEF PersonalFail
<1>9. CASE RetryRegenerate(m)
  BY <1>9 DEF RetryRegenerate
<1> QED
  BY <1>1, <1>2, <1>3, <1>4, <1>5, <1>6, <1>7, <1>8, <1>9 DEF MemberStep

\* A personal run's tail keeps every type.
LEMMA TailStepType ==
  ASSUME TypeOK, NEW t \in Tail, TailStepOf(t)
  PROVE  TypeOK'
<1> USE DEF TypeOK, Proceed, Finish, timerVars, lockVars, runVars, dbVars, rosterVars, textVars
<1>1. ASSUME NEW m \in Member, Recheck(t, m) PROVE TypeOK'
  BY <1>1 DEF Recheck
<1>2. CASE Persist(t)
  <2>1. worker' \in [Member -> WorkerStatus]
    BY <1>2 DEF Persist
  <2>2. at' \in [Tail -> TailStep] /\ who' \in [Tail -> Member] /\ only' \in [Tail -> BOOLEAN]
    <3>1. \E s \in TailStep : at' = [at EXCEPT ![t] = s]
      BY <1>2 DEF Persist
    <3>2. /\ who' \in {who, [who EXCEPT ![t] = Creator]}
          /\ only' \in {only, [only EXCEPT ![t] = FALSE]}
      BY <1>2 DEF Persist
    <3> QED
      BY <3>1, <3>2
  <2>3. UNCHANGED <<status, part, submitted, textVars, posts, timerVars, lockVars, runVars>>
    BY <1>2 DEF Persist
  <2> QED
    BY <2>1, <2>2, <2>3
<1>3. CASE MarkParticipant(t)
  BY <1>3 DEF MarkParticipant
<1>4. CASE CountParticipants(t)
  <2>1. /\ who' \in {who, [who EXCEPT ![t] = Creator]}
        /\ only' \in {only, [only EXCEPT ![t] = FALSE]}
    BY <1>4 DEF CountParticipants
  <2>2. \E s \in TailStep : at' = [at EXCEPT ![t] = s]
    BY <1>4 DEF CountParticipants
  <2>3. UNCHANGED <<dbVars, posts, timerVars, lockVars, runVars>>
    BY <1>4 DEF CountParticipants
  <2>4. who' \in [Tail -> Member] /\ only' \in [Tail -> BOOLEAN]
    BY <2>1
  <2>5. at' \in [Tail -> TailStep]
    BY <2>2
  <2> QED
    BY <2>3, <2>4, <2>5
<1>5. CASE SoloSave(t)
  <2>1. status' \in TaskStatus /\ result' \in SUBSET Member /\ raced' \in SUBSET Member
    <3>1. CASE UNCHANGED <<status, textVars>>
      BY <3>1
    <3>2. ASSUME NEW text, text \in {{who[t]}, result}, MarkTaskCompleted(text),
                 raced' = Disagreement(text)
          PROVE  /\ status' \in TaskStatus /\ result' \in SUBSET Member
                 /\ raced' \in SUBSET Member
      <4>1. text \in SUBSET Member /\ Results \in SUBSET Member
        BY <3>2 DEF Results
      <4> QED
        BY <3>2, <4>1 DEF MarkTaskCompleted, Disagreement
    <3> QED
      BY <1>5, <3>1, <3>2 DEF SoloSave
  <2>2. at' \in [Tail -> TailStep] /\ who' \in [Tail -> Member] /\ only' \in [Tail -> BOOLEAN]
    BY <1>5 DEF SoloSave
  <2>3. UNCHANGED <<rosterVars, posts, timerVars, lockVars, runVars>>
    BY <1>5 DEF SoloSave
  <2> QED
    BY <2>1, <2>2, <2>3
<1>6. CASE Backfill(t)
  BY <1>6 DEF Backfill
<1>7. CASE TriggerMeta(t)
  BY <1>7 DEF TriggerMeta, TriggerMetaSummary
<1> QED
  BY <1>1, <1>2, <1>3, <1>4, <1>5, <1>6, <1>7 DEF TailStepOf

LEMMA NextType == TypeOK /\ [Next]_vars => TypeOK'
<1> SUFFICES ASSUME TypeOK, [Next]_vars PROVE TypeOK'
  OBVIOUS
<1>1. CASE UNCHANGED vars
  BY <1>1 DEF TypeOK, vars
<1>2. CASE DeliverPost
  BY <1>2 DEF TypeOK, DeliverPost, TriggerMetaSummary, dbVars, lockVars, runVars,
     tailVars
<1>3. CASE LosePost
  BY <1>3 DEF TypeOK, LosePost, dbVars, procVars
<1>4. CASE Crash
  <2>1. snap' \in [Run -> SUBSET Member]
    BY <1>4 DEF Crash
  <2>2. /\ pc' \in [Run -> Step]
        /\ mu' \in [Run -> Mutex \cup {NoMutex}]
    BY <1>4 DEF Crash
  <2>3. acc' \in [Run -> SUBSET Member] /\ retries' \in [Run -> Nat]
    BY <1>4 DEF Crash
  <2>4. armed' \in Nat /\ mapped' \in {0, 1} /\ mapped' <= armed'
    BY <1>4 DEF Crash
  <2>6. /\ lockMap' \in Mutex \cup {NoMutex}
        /\ locked' \in SUBSET (Mutex \cup {NoMutex})
        /\ dirty' \in BOOLEAN
    BY <1>4 DEF Crash
  <2>5. /\ status' \in TaskStatus /\ submitted' \in SUBSET Member
        /\ part' \in [Member -> PartStatus] /\ worker' \in [Member -> WorkerStatus]
        /\ result' \in SUBSET Member /\ raced' \in SUBSET Member /\ posts' \in Nat
    BY <1>4 DEF Crash, TypeOK, dbVars
  <2>7. at' \in [Tail -> TailStep] /\ who' \in [Tail -> Member] /\ only' \in [Tail -> BOOLEAN]
    BY <1>4 DEF Crash
  <2> QED
    BY <2>1, <2>2, <2>3, <2>4, <2>5, <2>6, <2>7 DEF TypeOK
<1>5. CASE StartRound \/ GiveUpRound \/ Cancel
  BY <1>5 DEF TypeOK, StartRound, GiveUpRound, Cancel, rosterVars, textVars, procVars
<1>6. CASE Regenerate
  <2>1. worker' \in [Member -> WorkerStatus] /\ submitted' \in SUBSET Member
    BY <1>6 DEF TypeOK, Regenerate
  <2>2. status' \in TaskStatus /\ UNCHANGED <<part, textVars, posts, procVars>>
    BY <1>6 DEF Regenerate
  <2> QED
    BY <2>1, <2>2 DEF TypeOK, procVars, textVars
<1> QED
  BY <1>1, <1>2, <1>3, <1>4, <1>5, <1>6, RunStepType, MemberStepType, TailStepType DEF Next

-----------------------------------------------------------------------------
(* The roster invariant.                                                   *)

\* A task left with one participant is left with the creator.
LEMMA SoleMember ==
  ASSUME TypeOK, RosterConsistent, ~Multi
  PROVE  Results \subseteq {Creator}
<1> SUFFICES ASSUME NEW m \in Results PROVE m = Creator
  OBVIOUS
<1>1. m \in Rows /\ Creator \in Rows
  BY DEF RosterConsistent, Results, Rows
<1> QED
  BY <1>1 DEF Multi

\* A step that leaves the roster, the status and the text alone.
LEMMA Frame ==
  ASSUME IInv, UNCHANGED <<rosterVars, status, textVars>>
  PROVE  RosterConsistent' /\ SoleMemberShown' /\ CompletedMatchesRoster'
BY DEF IInv, RosterConsistent, SoleMemberShown, CompletedMatchesRoster, Results,
       Multi, Rows, rosterVars, textVars

\* A step that only stops the task.
LEMMA FrameStopped ==
  ASSUME IInv, UNCHANGED rosterVars, status' # "Completed"
  PROVE  RosterConsistent' /\ SoleMemberShown' /\ CompletedMatchesRoster'
BY DEF IInv, RosterConsistent, SoleMemberShown, CompletedMatchesRoster, Results,
       Multi, Rows, rosterVars

\* A run that reaches its write has a member to write about.
LEMMA RunStepNotEmpty ==
  ASSUME IInv, NEW r \in Run, Fire(r) \/ RunStep(r)
  PROVE  MergeNotEmpty'
<1> USE DEF IInv, MergeNotEmpty, TypeOK, Goto
<1>1. CASE ReadSubmitted(r)
  <2>1. pc' = [pc EXCEPT ![r] = "readAccepted"] /\ \A q \in Run : q # r => snap'[q] = snap[q]
    BY <1>1 DEF ReadSubmitted
  <2> QED
    BY <2>1
<1>2. CASE Unlock(r)
  <2>1. pc' = [pc EXCEPT ![r] = "dropLock"] /\ \A q \in Run : q # r => snap'[q] = snap[q]
    BY <1>2 DEF Unlock
  <2> QED
    BY <2>1
<1>3. CASE Decide(r)
  <2>1. snap' = snap
    BY <1>3 DEF Decide
  <2>2. PICK s \in Step : /\ pc' = [pc EXCEPT ![r] = s]
                          /\ s \in {"check", "save"} => snap[r] # {}
    BY <1>3 DEF Decide
  <2>3. ASSUME NEW q \in Run, pc'[q] \in {"check", "save"} PROVE snap[q] # {}
    <3>1. CASE q = r
      BY <2>2, <2>3, <3>1
    <3>2. CASE q # r
      BY <2>2, <2>3, <3>2
    <3> QED
      BY <3>1, <3>2
  <2> QED
    BY <2>1, <2>3
<1>4. CASE CheckStatus(r)
  <2>1. snap' = snap /\ pc[r] = "check" /\ \E s \in Step : Goto(r, s)
    BY <1>4 DEF CheckStatus
  <2> QED
    BY <2>1
<1>5. CASE \/ Fire(r) \/ GetMetaLock(r) \/ TryLock(r) \/ MarkDirty(r) \/ ClearDirty(r)
           \/ ReadAccepted(r) \/ IsDirty(r) \/ DropLock(r) \/ DropDirty(r)
  <2>1. snap' = snap /\ \E s \in Step \ {"check", "save"} : Goto(r, s)
    BY <1>5 DEF Fire, GetMetaLock, TryLock, MarkDirty, ClearDirty, ReadAccepted,
                IsDirty, DropLock, DropDirty, runVars
  <2> QED
    BY <2>1
<1>6. CASE SaveLatestResult(r)
  <2>1. /\ \A q \in Run : q # r => snap'[q] = snap[q]
        /\ \E s \in Step \ {"check", "save"} : Goto(r, s)
    BY <1>6 DEF SaveLatestResult
  <2> QED
    BY <2>1
<1> QED
  BY <1>1, <1>2, <1>3, <1>4, <1>5, <1>6 DEF RunStep

LEMMA RunStepInv ==
  ASSUME IInv, NEW r \in Run, Fire(r) \/ RunStep(r)
  PROVE  RosterConsistent' /\ SoleMemberShown' /\ CompletedMatchesRoster'
<1>1. CASE Decide(r)
  <2>1. UNCHANGED <<rosterVars, textVars>> /\ (status' = status \/ status' = "Cancelled")
    BY <1>1 DEF Decide
  <2> QED
    BY <2>1, Frame, FrameStopped
<1>2. CASE SaveLatestResult(r)
  <2>1. UNCHANGED rosterVars
    BY <1>2 DEF SaveLatestResult
  <2>2. CASE UNCHANGED <<status, textVars>>
    BY <2>1, <2>2, Frame
  <2>3. CASE SameRoster(r) /\ MarkTaskCompleted(snap[r]) /\ raced' = {}
    <3>1. result' = submitted /\ submitted # {} /\ submitted \subseteq Results
      BY <1>2, <2>3 DEF SaveLatestResult, SameRoster, MarkTaskCompleted, IInv,
                        MergeNotEmpty, RosterConsistent
    <3>2. Results' = Results /\ Multi' = Multi /\ submitted' = submitted /\ RosterConsistent'
      BY <2>1 DEF IInv, rosterVars, Results, Multi, Rows, RosterConsistent
    <3>3. ~Multi => Results \subseteq submitted
      BY <3>1, SoleMember DEF IInv
    <3> QED
      BY <2>3, <3>1, <3>2, <3>3 DEF SoleMemberShown, CompletedMatchesRoster
  <2> QED
    BY <1>2, <2>2, <2>3 DEF SaveLatestResult
<1>3. CASE \/ Fire(r) \/ GetMetaLock(r) \/ TryLock(r) \/ MarkDirty(r) \/ ClearDirty(r)
           \/ ReadSubmitted(r) \/ ReadAccepted(r) \/ CheckStatus(r) \/ IsDirty(r)
           \/ Unlock(r) \/ DropLock(r) \/ DropDirty(r)
  <2>1. UNCHANGED dbVars
    BY <1>3 DEF Fire, GetMetaLock, TryLock, MarkDirty, ClearDirty, ReadSubmitted,
                ReadAccepted, CheckStatus, IsDirty, Unlock, DropLock, DropDirty
  <2> QED
    BY <2>1, Frame DEF dbVars, rosterVars, textVars
<1> QED
  BY <1>1, <1>2, <1>3 DEF RunStep

LEMMA MemberStepInv ==
  ASSUME IInv, NEW m \in Member, MemberStep(m)
  PROVE  RosterConsistent' /\ SoleMemberShown' /\ CompletedMatchesRoster'
<1> USE DEF IInv, TypeOK, RosterConsistent, SoleMemberShown, CompletedMatchesRoster,
            Results, Rows, Multi, Revive, textVars
<1>1. CASE AddMember(m)
  <2>1. /\ UNCHANGED <<status, worker, submitted, result, raced>>
        /\ part[m] = "Absent" /\ part' = [part EXCEPT ![m] = "Pending"]
    BY <1>1 DEF AddMember
  <2>2. Results' = Results /\ Rows \subseteq Rows'
    BY <2>1
  <2>3. \A n \in Member : n \in Results \/ n = Creator => part'[n] = part[n]
    BY <2>1
  <2>4. RosterConsistent'
    BY <2>1, <2>2, <2>3
  <2>5. Multi => Multi'
    BY <2>2
  <2> QED
    BY <2>1, <2>2, <2>4, <2>5
<1>2. CASE Accept(m)
  <2>1. m # Creator /\ m \in Rows /\ Creator \in Rows
    BY <1>2 DEF Accept
  <2>2. Multi
    BY <2>1
  <2>3. /\ status' # "Completed" /\ UNCHANGED submitted
        /\ part' = [part EXCEPT ![m] = "In"] /\ worker' = [worker EXCEPT ![m] = "Pending"]
    BY <1>2, <2>2 DEF Accept
  <2>4. Results \subseteq Results'
    BY <2>3
  <2>5. RosterConsistent'
    BY <2>3, <2>4
  <2> QED
    BY <2>3, <2>5
<1>3. CASE Decline(m)
  BY <1>3 DEF Decline
<1>4. CASE Leave(m)
  BY <1>4 DEF Leave
<1>5. CASE Submit(m)
  BY <1>5 DEF Submit
<1>6. CASE PersonalEdit(m)
  <2>1. UNCHANGED <<result, raced, part, worker, submitted>>
    BY <1>6 DEF PersonalEdit, rosterVars
  <2>2. status' = status \/ status' # "Completed"
    BY <1>6 DEF PersonalEdit
  <2> QED
    BY <2>1, <2>2
<1>7. CASE RegeneratePersonal(m)
  BY <1>7 DEF RegeneratePersonal
<1>8. CASE PersonalFail(m)
  <2>1. /\ UNCHANGED <<submitted, result, raced>> /\ worker' = [worker EXCEPT ![m] = "Failed"]
        /\ part' \in {part, [part EXCEPT ![m] = "Declined"]} /\ m \in Results
        /\ status' = "Completed" => status = "Completed"
    BY <1>8 DEF PersonalFail
  <2>2. part[m] \in {"In", "Declined"}
    BY <2>1
  <2>3. Results' = Results
    BY <2>1
  <2>4. Rows' = Rows
    BY <2>1, <2>2
  <2>5. Multi' = Multi
    BY <2>4
  <2>6. RosterConsistent'
    BY <2>1, <2>2, <2>3
  <2> QED
    BY <2>1, <2>3, <2>5, <2>6
<1>9. CASE RetryRegenerate(m)
  BY <1>9 DEF RetryRegenerate
<1> QED
  BY <1>1, <1>2, <1>3, <1>4, <1>5, <1>6, <1>7, <1>8, <1>9 DEF MemberStep

\* What a tail does to the rosters and the text: it persists a row there is, takes the
\* participant in, counts a confirmed member's result as submitted, or writes the text
\* of one member.
LEMMA TailStepInv ==
  ASSUME IInv, NEW t \in Tail, TailStepOf(t)
  PROVE  RosterConsistent' /\ SoleMemberShown' /\ CompletedMatchesRoster'
<1> USE DEF IInv, TypeOK, RosterConsistent, SoleMemberShown, CompletedMatchesRoster,
            Results, Rows, Multi, textVars
<1>1. CASE (\E m \in Member : Recheck(t, m)) \/ CountParticipants(t) \/ TriggerMeta(t)
  <2>1. UNCHANGED dbVars
    BY <1>1 DEF Recheck, CountParticipants, TriggerMeta
  <2> QED
    BY <2>1, Frame DEF dbVars, rosterVars
<1>2. CASE Persist(t)
  <2>1. /\ UNCHANGED <<status, part, submitted, textVars>>
        /\ \/ worker' = worker
           \/ who[t] \in Results /\ worker' = [worker EXCEPT ![who[t]] = "Completed"]
    BY <1>2 DEF Persist
  <2>2. Results' = Results
    BY <2>1
  <2> QED
    BY <2>1, <2>2
<1>3. CASE MarkParticipant(t)
  <2>1. /\ UNCHANGED <<status, worker, submitted, textVars>>
        /\ part' = [part EXCEPT ![who[t]] = IF who[t] \in Rows THEN "In" ELSE @]
    BY <1>3 DEF MarkParticipant
  <2>2. Results' = Results /\ Rows' = Rows
    BY <2>1
  <2>3. RosterConsistent'
    BY <2>1, <2>2
  <2>4. Multi' = Multi
    BY <2>2
  <2> QED
    BY <2>1, <2>2, <2>3, <2>4
<1>4. CASE SoloSave(t)
  <2>1. UNCHANGED rosterVars
    BY <1>4 DEF SoloSave
  <2>2. CASE UNCHANGED <<status, textVars>>
    BY <2>1, <2>2, Frame
  <2>3. CASE raced' = Disagreement(result')
    <3>1. Results' = Results /\ submitted' = submitted /\ RosterConsistent'
      BY <2>1 DEF rosterVars
    <3> QED
      BY <2>3, <3>1 DEF Disagreement
  <2> QED
    BY <1>4, <2>2, <2>3 DEF SoloSave, MarkTaskCompleted
<1>5. CASE Backfill(t)
  <2>1. PICK new \in SUBSET Results :
          /\ submitted' = submitted \cup new
          /\ raced' = IF status = "Completed" THEN raced \cup (new \ submitted) ELSE raced
    BY <1>5 DEF Backfill
  <2>2. UNCHANGED <<status, part, worker, result>>
    BY <1>5 DEF Backfill
  <2>3. Results' = Results /\ Multi' = Multi
    BY <2>2
  <2> QED
    BY <2>1, <2>2, <2>3
<1> QED
  BY <1>1, <1>2, <1>3, <1>4, <1>5 DEF TailStepOf

\* A round that starts, is given up or starts over keeps the roster; who starts over
\* has nothing submitted.
LEMMA RoundStepInv ==
  ASSUME IInv, StartRound \/ GiveUpRound \/ Cancel \/ Regenerate
  PROVE  RosterConsistent' /\ SoleMemberShown' /\ CompletedMatchesRoster'
<1>1. CASE StartRound \/ GiveUpRound \/ Cancel
  <2>1. UNCHANGED rosterVars /\ status' # "Completed"
    BY <1>1 DEF StartRound, GiveUpRound, Cancel
  <2> QED
    BY <2>1, FrameStopped
<1>2. CASE Regenerate
  <2>1. status' # "Completed" /\ part' = part /\ submitted' \subseteq submitted
    BY <1>2 DEF Regenerate
  <2>2. Results' = Results
    BY <1>2 DEF Regenerate, Results, IInv, TypeOK
  <2>3. RosterConsistent'
    BY <2>1, <2>2 DEF IInv, RosterConsistent
  <2> QED
    BY <2>1, <2>3 DEF SoleMemberShown, CompletedMatchesRoster
<1> QED
  BY <1>1, <1>2

\* A step of anyone but a run leaves every run where it was, or idle.
LEMMA OthersNotEmpty ==
  ASSUME IInv,
         \/ \E m \in Member : MemberStep(m)
         \/ \E t \in Tail : TailStepOf(t)
         \/ DeliverPost \/ LosePost \/ Crash
         \/ StartRound \/ GiveUpRound \/ Cancel \/ Regenerate
  PROVE  MergeNotEmpty'
<1>1. CASE Crash
  BY <1>1 DEF Crash, MergeNotEmpty
<1>2. CASE UNCHANGED <<pc, snap>>
  BY <1>2 DEF IInv, MergeNotEmpty
<1>3. CASE DeliverPost \/ LosePost \/ StartRound \/ GiveUpRound \/ Cancel \/ Regenerate
  BY <1>2, <1>3 DEF DeliverPost, LosePost, StartRound, GiveUpRound, Cancel, Regenerate,
     runVars, procVars
<1>4. ASSUME NEW m \in Member, MemberStep(m) PROVE MergeNotEmpty'
  BY <1>2, <1>4 DEF MemberStep, AddMember, Accept, Decline, Leave, Submit, PersonalEdit,
     RegeneratePersonal, RetryRegenerate, PersonalFail, runVars, procVars
<1>5. ASSUME NEW t \in Tail, TailStepOf(t) PROVE MergeNotEmpty'
  BY <1>2, <1>5 DEF TailStepOf, Recheck, Persist, MarkParticipant, CountParticipants, SoloSave,
     Backfill, TriggerMeta, runVars
<1> QED
  BY <1>1, <1>3, <1>4, <1>5

LEMMA NextInv == IInv /\ [Next]_vars => IInv'
<1> SUFFICES ASSUME IInv, [Next]_vars PROVE IInv'
  OBVIOUS
<1>1. TypeOK'
  BY NextType DEF IInv
<1>2. CASE UNCHANGED vars
  BY <1>1, <1>2, Frame DEF IInv, MergeNotEmpty, vars, rosterVars, textVars
<1>3. ASSUME NEW r \in Run, Fire(r) \/ RunStep(r) PROVE IInv'
  BY <1>1, <1>3, RunStepInv, RunStepNotEmpty DEF IInv
<1>4. ASSUME NEW m \in Member, MemberStep(m) PROVE IInv'
  BY <1>1, <1>4, MemberStepInv, OthersNotEmpty DEF IInv
<1>5. CASE DeliverPost \/ LosePost \/ Crash
  <2>1. UNCHANGED <<rosterVars, status, textVars>>
    BY <1>5 DEF DeliverPost, LosePost, Crash, dbVars, rosterVars, textVars
  <2> QED
    BY <1>1, <1>5, <2>1, Frame, OthersNotEmpty DEF IInv
<1>6. CASE StartRound \/ GiveUpRound \/ Cancel \/ Regenerate
  BY <1>1, <1>6, RoundStepInv, OthersNotEmpty DEF IInv
<1>7. ASSUME NEW t \in Tail, TailStepOf(t) PROVE IInv'
  BY <1>1, <1>7, TailStepInv, OthersNotEmpty DEF IInv
<1> QED
  BY <1>2, <1>3, <1>4, <1>5, <1>6, <1>7 DEF Next

THEOREM Invariance == Spec => []IInv
<1>1. Init => IInv
  BY InitInv
<1>2. IInv /\ [Next]_vars => IInv'
  BY NextInv
<1> QED
  BY <1>1, <1>2, PTL DEF Spec

\* Every variable keeps its type, whatever the interleaving of runs, handlers and
\* crashes.
THEOREM TypeCorrect == Spec => []TypeOK
<1>1. IInv => TypeOK
  BY DEF IInv
<1> QED
  BY <1>1, Invariance, PTL

\* The text a Completed task shows was merged from members who are still there
\* and from every submission made, for any roster and any number of runs at once:
\* it rests on the comparison under the row lock, not on metaLocks.
THEOREM RosterTheorem == Spec => []CompletedMatchesRoster
<1>1. IInv => CompletedMatchesRoster
  BY DEF IInv
<1> QED
  BY <1>1, Invariance, PTL

\* A cancelled or failed round keeps its text, and its status until the task is
\* generated anew.
THEOREM StoppedRound == Spec => StoppedRoundIsFinal
<1>1. TypeOK /\ [Next]_vars =>
        [(status \in {"Cancelled", "Failed"}) =>
           status' \in {status, "Pending"} /\ result' = result]_vars
  <2> SUFFICES ASSUME TypeOK, Next, status \in {"Cancelled", "Failed"}
               PROVE  status' \in {status, "Pending"} /\ result' = result
    BY DEF vars
  <2>1. ASSUME NEW r \in Run, Fire(r) \/ RunStep(r)
        PROVE  UNCHANGED <<status, result>>
    BY <2>1 DEF Fire, RunStep, GetMetaLock, TryLock, MarkDirty, ClearDirty,
       ReadSubmitted, ReadAccepted, Decide, CheckStatus, SaveLatestResult, IsDirty,
       Unlock, DropLock, DropDirty, MarkTaskCompleted, dbVars, textVars
  <2>2. ASSUME NEW m \in Member, MemberStep(m)
        PROVE  UNCHANGED <<status, result>>
    BY <2>2 DEF MemberStep, AddMember, Accept, Decline, Leave, Submit, PersonalEdit,
       RegeneratePersonal, RetryRegenerate, PersonalFail, Revive, textVars
  <2>3. CASE DeliverPost \/ LosePost \/ Crash
    BY <2>3 DEF DeliverPost, LosePost, Crash, dbVars
  <2>4. CASE StartRound \/ GiveUpRound \/ Cancel \/ Regenerate
    BY <2>4 DEF StartRound, GiveUpRound, Cancel, Regenerate, textVars
  <2>5. ASSUME NEW t \in Tail, TailStepOf(t)
        PROVE  UNCHANGED <<status, result>>
    BY <2>5 DEF TailStepOf, Recheck, Persist, MarkParticipant, CountParticipants, SoloSave,
       Backfill, TriggerMeta, MarkTaskCompleted, dbVars, textVars
  <2> QED
    BY <2>1, <2>2, <2>3, <2>4, <2>5 DEF Next
<1> QED
  BY <1>1, TypeCorrect, PTL DEF Spec, StoppedRoundIsFinal

-----------------------------------------------------------------------------
(* The refinement of TeamText.  Of all a run does, only its write shows.   *)

\* Nobody touches the results, the submissions or the text: at most the round stops,
\* starts or is reopened.
LEMMA StatusSimulates ==
  ASSUME UNCHANGED <<worker, submitted, textVars>>, IInv,
         \/ status' = status
         \/ status = "Pending" /\ status' \in {"Processing", "Cancelled"}
         \/ status = "Processing" /\ status' \in {"Pending", "Failed", "Cancelled"}
         \/ status = "Completed" /\ status' = "Processing"
  PROVE  Team!Next \/ UNCHANGED Team!vars
<1>1. Results' = Results
  BY DEF Results
<1>2. Results \subseteq Member /\ submitted \subseteq Results
  BY DEF Results, IInv, RosterConsistent
<1> QED
  BY <1>1, <1>2 DEF Team!Next, Team!vars, Team!Start, Team!Stop, Team!Stopped, Team!Change,
     textVars

\* The write: what it shows is what is submitted as it shows it.
LEMMA RunSimulates ==
  ASSUME IInv, NEW r \in Run, Fire(r) \/ RunStep(r)
  PROVE  Team!Next \/ UNCHANGED Team!vars
<1>1. CASE Decide(r)
  <2>1. UNCHANGED <<worker, submitted, textVars>>
    BY <1>1 DEF Decide, rosterVars, textVars
  <2>2. status' = status \/ (status = "Processing" /\ status' = "Cancelled")
    BY <1>1 DEF Decide
  <2> QED
    BY <2>1, <2>2, StatusSimulates
<1>2. CASE SaveLatestResult(r)
  <2>1. UNCHANGED <<worker, submitted>> /\ Results' = Results
    BY <1>2 DEF SaveLatestResult, rosterVars, Results
  <2>2. CASE UNCHANGED <<status, textVars>>
    BY <2>1, <2>2, StatusSimulates
  <2>3. CASE SameRoster(r) /\ MarkTaskCompleted(snap[r]) /\ raced' = {}
    <3>1. submitted # {} /\ result' = submitted
      BY <1>2, <2>3 DEF SaveLatestResult, SameRoster, MarkTaskCompleted, IInv, MergeNotEmpty
    <3> QED
      BY <2>1, <2>3, <3>1 DEF MarkTaskCompleted, Team!Next, Team!Merge, Team!Publish
  <2> QED
    BY <1>2, <2>2, <2>3 DEF SaveLatestResult
<1>3. CASE \/ Fire(r) \/ GetMetaLock(r) \/ TryLock(r) \/ MarkDirty(r) \/ ClearDirty(r)
           \/ ReadSubmitted(r) \/ ReadAccepted(r) \/ CheckStatus(r) \/ IsDirty(r)
           \/ Unlock(r) \/ DropLock(r) \/ DropDirty(r)
  <2>1. UNCHANGED <<status, worker, submitted, textVars>>
    BY <1>3 DEF Fire, GetMetaLock, TryLock, MarkDirty, ClearDirty, ReadSubmitted,
       ReadAccepted, CheckStatus, IsDirty, Unlock, DropLock, DropDirty, dbVars, textVars
  <2> QED
    BY <2>1, StatusSimulates
<1> QED
  BY <1>1, <1>2, <1>3 DEF RunStep

\* A member's step leaves the text alone; where it takes the text's grounds away it
\* reopens the round.
LEMMA MemberSimulates ==
  ASSUME IInv, NEW m \in Member, MemberStep(m)
  PROVE  Team!Next \/ UNCHANGED Team!vars
<1> USE DEF Team!Next, Team!Change, textVars
<1>0. IInv'
  BY NextInv DEF Next
<1>1. /\ Results \subseteq Member /\ submitted \subseteq Results
      /\ Results' \subseteq Member /\ submitted' \subseteq Results'
  BY <1>0 DEF Results, IInv, RosterConsistent
<1>2. CASE AddMember(m) \/ Decline(m) \/ PersonalEdit(m)
  <2>1. UNCHANGED <<worker, submitted, textVars>>
    BY <1>2 DEF AddMember, Decline, PersonalEdit, rosterVars
  <2>2. status' = status \/ (status = "Completed" /\ status' = "Processing")
    BY <1>2 DEF AddMember, Decline, PersonalEdit, Revive
  <2> QED
    BY <2>1, <2>2, StatusSimulates
<1>3. CASE Accept(m)
  <2>1. m # Creator /\ m \in Rows /\ Creator \in Rows
    BY <1>3 DEF Accept, IInv, RosterConsistent, Rows
  <2>2. Multi
    BY <2>1 DEF Multi
  <2> QED
    BY <1>1, <1>3, <2>2 DEF Accept, Revive
<1>4. CASE Leave(m)
  BY <1>1, <1>4 DEF Leave, Revive
<1>5. CASE Submit(m)
  <2>1. Results' = Results /\ UNCHANGED textVars /\ submitted' = submitted \cup {m}
    BY <1>5 DEF Submit, Results
  <2>2. CASE Multi
    BY <1>1, <1>5, <2>1, <2>2 DEF Submit, Revive
  <2>3. CASE ~Multi
    <3>1. status' = status
      BY <1>5, <2>3 DEF Submit
    <3>2. status = "Completed" => submitted' \ raced \subseteq result
      BY <1>1, <2>1, <2>3 DEF IInv, SoleMemberShown
    <3> QED
      BY <1>1, <2>1, <3>1, <3>2
  <2> QED
    BY <2>2, <2>3
<1>6. CASE RegeneratePersonal(m)
  <2>1. Results' = Results
    BY <1>6 DEF RegeneratePersonal, Results, IInv, TypeOK
  <2> QED
    BY <1>1, <1>6, <2>1 DEF RegeneratePersonal, IInv, CompletedMatchesRoster
<1>7. CASE RetryRegenerate(m)
  <2>1. Results' = Results
    BY <1>7 DEF RetryRegenerate, Results, IInv, TypeOK
  <2> QED
    BY <1>7, <2>1 DEF RetryRegenerate, Team!vars
<1>8. CASE PersonalFail(m)
  <2>1. Results' = Results /\ UNCHANGED <<submitted, textVars>>
    BY <1>8 DEF PersonalFail, Results, IInv, TypeOK
  <2>2. status' = status \/ (status = "Processing" /\ status' = "Failed")
    BY <1>8 DEF PersonalFail
  <2> QED
    BY <2>1, <2>2 DEF Team!vars, Team!Stop, Team!Stopped
<1> QED
  BY <1>2, <1>3, <1>4, <1>5, <1>6, <1>7, <1>8 DEF MemberStep

\* Of a tail, its write and its submission show: the first publishes, the second is a
\* member's, and Late when the text is already out.
LEMMA TailSimulates ==
  ASSUME IInv, NEW t \in Tail, TailStepOf(t)
  PROVE  Team!Next \/ UNCHANGED Team!vars
<1>0. Results \subseteq Member /\ submitted \subseteq Results
  BY DEF Results, IInv, RosterConsistent
<1>1. CASE \/ \E m \in Member : Recheck(t, m)
           \/ MarkParticipant(t) \/ CountParticipants(t) \/ TriggerMeta(t)
  <2>1. UNCHANGED <<status, worker, submitted, textVars>>
    BY <1>1 DEF Recheck, MarkParticipant, CountParticipants, TriggerMeta, dbVars, textVars
  <2> QED
    BY <2>1, StatusSimulates
<1>2. CASE Persist(t)
  <2>1. Results' = Results
    BY <1>2 DEF Persist, Results, IInv, TypeOK
  <2> QED
    BY <1>2, <2>1 DEF Persist, Team!vars, textVars
<1>3. CASE SoloSave(t)
  <2>1. UNCHANGED <<worker, submitted>> /\ Results' = Results
    BY <1>3 DEF SoloSave, rosterVars, Results
  <2>2. CASE UNCHANGED <<status, textVars>>
    BY <2>1, <2>2, StatusSimulates
  <2>3. ASSUME NEW text, text \in {{who[t]}, result}, MarkTaskCompleted(text),
               raced' = Disagreement(text)
        PROVE  Team!Sync
    <3>1. text \in {{m} : m \in Member} \cup {result}
      BY <2>3 DEF IInv, TypeOK
    <3>2. Team!Publish(text, (Results \ text) \cup (text \ Results))
      BY <2>1, <2>3 DEF Team!Publish, MarkTaskCompleted, Disagreement
    <3> QED
      BY <3>1, <3>2 DEF Team!Sync
  <2> QED
    BY <1>3, <2>2, <2>3 DEF SoloSave, Team!Next
<1>4. CASE Backfill(t)
  <2>1. /\ UNCHANGED <<status, worker, result>> /\ Results' = Results
        /\ \/ UNCHANGED <<submitted, raced>>
           \/ /\ who[t] \in Results \ submitted
              /\ submitted' = submitted \cup {who[t]}
              /\ raced' = IF status = "Completed" THEN raced \cup {who[t]} ELSE raced
    <3>1. PICK new \in {{}, {who[t]}} :
            /\ new \subseteq Results
            /\ submitted' = submitted \cup new
            /\ raced' = IF status = "Completed" THEN raced \cup (new \ submitted) ELSE raced
      BY <1>4 DEF Backfill
    <3>2. UNCHANGED <<status, worker, result>> /\ Results' = Results
      BY <1>4 DEF Backfill, Results
    <3>3. CASE new \subseteq submitted
      BY <3>1, <3>2, <3>3
    <3>4. CASE ~(new \subseteq submitted)
      <4>1. new = {who[t]} /\ who[t] \in Results \ submitted /\ new \ submitted = {who[t]}
        BY <3>1, <3>4
      <4> QED
        BY <3>1, <3>2, <4>1
    <3> QED
      BY <3>3, <3>4
  <2>2. CASE UNCHANGED <<submitted, raced>>
    BY <2>1, <2>2 DEF Team!vars
  <2>3. CASE status = "Completed"
    BY <2>1, <2>2, <2>3 DEF Team!Next, Team!Late
  <2>4. CASE status # "Completed"
    BY <1>0, <2>1, <2>2, <2>4 DEF Team!Next, Team!Change
  <2> QED
    BY <2>3, <2>4
<1> QED
  BY <1>1, <1>2, <1>3, <1>4 DEF TailStepOf

\* The round starts, stops, or starts over with fewer submissions.
LEMMA RoundSimulates ==
  ASSUME IInv, StartRound \/ GiveUpRound \/ Cancel \/ Regenerate
  PROVE  Team!Next \/ UNCHANGED Team!vars
<1>1. CASE StartRound \/ GiveUpRound \/ Cancel
  <2>1. UNCHANGED <<worker, submitted, textVars>>
    BY <1>1 DEF StartRound, GiveUpRound, Cancel, rosterVars
  <2> QED
    BY <1>1, <2>1, StatusSimulates DEF StartRound, GiveUpRound, Cancel
<1>2. CASE Regenerate
  <2>1. Results' = Results
    BY <1>2 DEF Regenerate, Results, IInv, TypeOK
  <2> QED
    BY <1>2, <2>1 DEF Regenerate, Team!Next, Team!Restart, Team!Stopped, textVars
<1> QED
  BY <1>1, <1>2

\* Whatever runs, handlers, the scan and crashes do between a merge's read and its
\* write, readers see the texts of TeamText: each published at one instant, from what
\* was submitted at that instant, in a round still open.
THEOREM TeamTextImplemented == Spec => ImplementsTeamText
<1>1. Init => Team!Init
  BY DEF Init, Team!Init, Results
<1>2. IInv /\ [Next]_vars => [Team!Next]_(Team!vars)
  <2> SUFFICES ASSUME IInv, [Next]_vars PROVE Team!Next \/ UNCHANGED Team!vars
    OBVIOUS
  <2>1. CASE UNCHANGED vars
    BY <2>1, StatusSimulates DEF vars, textVars
  <2>2. CASE DeliverPost \/ LosePost \/ Crash
    BY <2>2, StatusSimulates DEF DeliverPost, LosePost, Crash, dbVars, textVars
  <2> QED
    BY <2>1, <2>2, RunSimulates, MemberSimulates, TailSimulates,
       RoundSimulates DEF Next
<1> QED
  BY <1>1, <1>2, Invariance, PTL DEF Spec, ImplementsTeamText, Team!Spec
=============================================================================
