--------------------------- MODULE NotifierProofs ---------------------------
(***************************************************************************)
(* Proofs about Notifier, for any number of runners, callbacks, rounds,    *)
(* attempts and faults, whichever rounds overlap.                          *)
(***************************************************************************)
EXTENDS Notifier, TLAPS

USE ConstantsAssumption DEF RowStatus, Step, Round, history, Goto

\* All of IInv but the types and the rounds, which each step treats alike.
RowInv == /\ OneOwner /\ PendingHasBudget /\ AckedWasDelivered
          /\ SentWasDelivered /\ DeliveriesAccounted

LEMMA Slack ==
  ASSUME NEW d \in Nat, NEW l \in Nat, NEW b, d <= l
  PROVE  d <= l + (IF b THEN 1 ELSE 0)
OBVIOUS

LEMMA InitInv == Init => IInv
<1> SUFFICES ASSUME Init PROVE IInv
  OBVIOUS
<1>1. /\ attempts \in Nat /\ round \in Round
      /\ delivered \in Nat /\ lost \in Nat /\ faults \in 0 .. MaxFaults
  BY DEF Init
<1>2. /\ row \in RowStatus /\ stale \in BOOLEAN
      /\ stalled \in BOOLEAN /\ crossed \in BOOLEAN
  BY DEF Init
<1>3. owed \in [Round -> 0 .. MaxCalls]
  BY DEF Init
<1>4. pc \in [Runner -> Step] /\ of \in [Runner -> Round]
  BY DEF Init
<1>5. TypeOK
  BY <1>1, <1>2, <1>3, <1>4 DEF TypeOK
<1>6. OneOwner /\ AckedWasDelivered /\ SentWasDelivered /\ PendingHasBudget
  BY DEF Init, PendingHasBudget, OneOwner, Owns, AckedWasDelivered, Acked, SentWasDelivered
<1>7. NotAhead
  BY DEF Init, NotAhead
<1>8. DeliveriesAccounted
  BY DEF Init, DeliveriesAccounted, Settled
<1> QED
  BY <1>5, <1>6, <1>7, <1>8 DEF IInv

\* Nothing happens to the row, and nobody comes to own it or to acknowledge it.
LEMMA Quiet ==
  ASSUME IInv, UNCHANGED <<row, attempts, stale, round, history>>,
         \A q \in Runner : (Owns(q)' => Owns(q)) /\ (Acked(q)' <=> Acked(q))
  PROVE  RowInv'
<1>1. OneOwner' /\ PendingHasBudget'
  BY DEF IInv, OneOwner, PendingHasBudget, Budget, Undisturbed
<1>2. AckedWasDelivered' /\ SentWasDelivered'
  BY DEF IInv, AckedWasDelivered, SentWasDelivered
<1>3. Settled' = Settled
  BY DEF Settled
<1>4. DeliveriesAccounted'
  BY <1>3 DEF IInv, DeliveriesAccounted, Undisturbed
<1> QED
  BY <1>1, <1>2, <1>4 DEF RowInv

\* A runner wins the row; in an undisturbed round nobody else owned it.
LEMMA Won ==
  ASSUME IInv, NEW p \in Runner, row # "sent",
         Undisturbed => \A q \in Runner : ~Owns(q),
         pc' = [pc EXCEPT ![p] = "deliver"], row' = "pending", stale' = FALSE,
         attempts' < MaxAttempts, Touch(p),
         UNCHANGED <<round, of, delivered, lost, stalled>>
  PROVE  RowInv'
<1> USE DEF IInv, TypeOK
<1>1. \A q \in Runner : /\ Owns(q)' => Owns(q) \/ q = p
                        /\ Acked(q)' => Acked(q)
  BY DEF Owns, Acked, Current
<1>2. Undisturbed' => Undisturbed
  BY DEF Undisturbed, Touch
<1>3. OneOwner'
  BY <1>1, <1>2 DEF OneOwner, Budget
<1>4. AckedWasDelivered' /\ SentWasDelivered' /\ PendingHasBudget'
  BY <1>1 DEF AckedWasDelivered, SentWasDelivered, PendingHasBudget, Budget
<1>5. Undisturbed => ~Settled
  BY DEF Settled, Owns, Acked
<1>6. DeliveriesAccounted'
  <2> SUFFICES ASSUME Undisturbed' PROVE delivered <= lost + (IF Settled' THEN 1 ELSE 0)
    BY DEF DeliveriesAccounted
  <2>1. delivered <= lost
    BY <1>2, <1>5 DEF DeliveriesAccounted
  <2> QED
    BY <2>1, Slack
<1> QED
  BY <1>3, <1>4, <1>6 DEF RowInv

\* A runner ends, with its outcome written on a row, or written nowhere.
LEMMA Released ==
  ASSUME IInv, NEW p \in Runner,
         pc' = [pc EXCEPT ![p] = "idle"],
         UNCHANGED <<stale, round, of, delivered, stalled>>,
         \/ /\ UNCHANGED <<row, attempts, crossed>>
            /\ lost' = IF Acked(p) THEN lost + 1 ELSE lost
         \/ /\ row = "none"
            /\ pc[p] \in {"markSent", "markFailed"}
            /\ UNCHANGED <<row, attempts, crossed, lost>>
         \/ /\ pc[p] \in {"markSent", "markFailed"}
            /\ row' = IF pc[p] = "markSent" THEN "sent" ELSE "failed"
            /\ attempts' = attempts + 1
            /\ Touch(p)
            /\ lost' = lost
  PROVE  RowInv' /\ row' \in RowStatus /\ attempts' \in Nat /\ lost' \in Nat
                 /\ crossed' \in BOOLEAN
<1> USE DEF IInv, TypeOK
<1>1. row' \in RowStatus /\ attempts' \in Nat /\ lost' \in Nat /\ crossed' \in BOOLEAN
  <2>1. row' \in RowStatus
    OBVIOUS
  <2>2. attempts' \in Nat
    OBVIOUS
  <2>3. lost' \in Nat
    OBVIOUS
  <2>4. crossed' \in BOOLEAN
    BY DEF Touch
  <2> QED
    BY <2>1, <2>2, <2>3, <2>4
<1>2. \A q \in Runner : /\ Owns(q)' => Owns(q) /\ q # p
                        /\ Acked(q)' <=> Acked(q) /\ q # p
  BY DEF Owns, Acked, Current
<1>3. Undisturbed' => Undisturbed /\ (row' # row => Owns(p))
  BY DEF Undisturbed, Touch, Owns
<1>4. OneOwner'
  BY <1>2, <1>3 DEF OneOwner, Budget
<1>5. AckedWasDelivered' /\ PendingHasBudget'
  BY <1>2 DEF AckedWasDelivered, PendingHasBudget, Budget
<1>6. SentWasDelivered'
  BY DEF SentWasDelivered, AckedWasDelivered, Acked, Touch
<1>7. DeliveriesAccounted'
  <2> SUFFICES ASSUME Undisturbed' PROVE delivered' <= lost' + (IF Settled' THEN 1 ELSE 0)
    BY DEF DeliveriesAccounted
  <2>1. delivered <= lost + (IF Settled THEN 1 ELSE 0)
    BY <1>3 DEF DeliveriesAccounted
  <2>2. CASE Acked(p)
    <3>1. row = "pending"
      BY <1>3, <2>2 DEF Acked, Owns, OneOwner
    <3>2. lost' = lost + 1 \/ (Settled' /\ lost' = lost)
      BY <2>2, <3>1 DEF Acked, Settled
    <3>3. delivered <= lost + 1
      BY <2>1
    <3>4. CASE lost' = lost + 1
      <4>1. delivered <= lost'
        BY <3>3, <3>4
      <4> QED
        BY <1>1, <4>1, Slack
    <3>5. CASE Settled' /\ lost' = lost
      BY <3>3, <3>5
    <3> QED
      BY <3>2, <3>4, <3>5
  <2>3. CASE ~Acked(p)
    <3>1. lost' = lost
      BY <2>3
    <3>2. row = "sent" => row' = "sent"
      BY <1>3 DEF OneOwner
    <3>3. Settled => Settled'
      BY <1>2, <2>3, <3>2 DEF Settled
    <3> QED
      BY <2>1, <3>1, <3>3
  <2> QED
    BY <2>2, <2>3
<1> QED
  BY <1>1, <1>4, <1>5, <1>6, <1>7 DEF RowInv

\* One step of one runner.
LEMMA RunnerInv ==
  ASSUME IInv, NEW p \in Runner,
         \/ \E k \in Round : OnTaskTerminal(p, k)
         \/ SweepRetryFailed(p) \/ SweepStalePending(p) \/ RunnerStep(p) \/ Crash(p)
  PROVE  IInv'
<1>1. ASSUME NEW k \in Round, OnTaskTerminal(p, k) PROVE IInv'
  <2>1. /\ UNCHANGED <<row, attempts, stale, round, history>> /\ pc[p] = "idle"
        /\ owed' = [owed EXCEPT ![k] = @ - 1] /\ owed[k] > 0
        /\ \/ pc' = [pc EXCEPT ![p] = "insert"] /\ of' = [of EXCEPT ![p] = k] /\ faults' = faults
           \/ UNCHANGED <<pc, of>> /\ faults' \in 0 .. MaxFaults
    BY <1>1 DEF OnTaskTerminal, Fault, IInv, TypeOK
  <2>2. k <= round
    BY <2>1 DEF IInv, NotAhead, TypeOK
  <2>3. owed' \in [Round -> 0 .. MaxCalls]
    <3>1. owed \in [Round -> 0 .. MaxCalls] /\ owed[k] \in 0 .. MaxCalls /\ owed[k] # 0
      BY <2>1 DEF IInv, TypeOK
    <3>2. owed[k] - 1 \in 0 .. MaxCalls
      BY <3>1
    <3> HIDE DEF Round
    <3> QED
      BY <2>1, <3>1, <3>2
  <2>4. /\ pc' \in [Runner -> Step] /\ of' \in [Runner -> Round] /\ faults' \in 0 .. MaxFaults
    BY <2>1 DEF IInv, TypeOK
  <2>5. TypeOK'
    BY <2>1, <2>3, <2>4 DEF IInv, TypeOK
  <2>6. NotAhead'
    <3>1. \A q \in Runner : of'[q] <= round'
      BY <2>1, <2>2 DEF IInv, TypeOK, NotAhead
    <3>2. \A j \in Round : j > round' => owed'[j] = 0
      BY <2>1, <2>2 DEF IInv, TypeOK, NotAhead
    <3> QED
      BY <3>1, <3>2 DEF NotAhead
  <2>7. \A q \in Runner : (Owns(q)' => Owns(q)) /\ (Acked(q)' <=> Acked(q))
    BY <2>1 DEF IInv, TypeOK, Owns, Acked, Current
  <2> QED
    BY <2>1, <2>5, <2>6, <2>7, Quiet DEF IInv, RowInv
<1>2. CASE SweepRetryFailed(p) \/ SweepStalePending(p)
  <2>1. PICK s \in {"retry", "reclaim"} : pc' = [pc EXCEPT ![p] = s]
    BY <1>2 DEF SweepRetryFailed, SweepStalePending
  <2>2. /\ UNCHANGED <<row, attempts, stale, round, owed, history, faults>>
        /\ pc[p] = "idle" /\ of' = [of EXCEPT ![p] = round]
    BY <1>2 DEF SweepRetryFailed, SweepStalePending
  <2>3. pc' \in [Runner -> Step] /\ of' \in [Runner -> Round]
    BY <2>1, <2>2 DEF IInv, TypeOK
  <2>4. TypeOK'
    BY <2>2, <2>3 DEF IInv, TypeOK
  <2>5. NotAhead'
    BY <2>2 DEF IInv, TypeOK, NotAhead
  <2>6. \A q \in Runner : (Owns(q)' => Owns(q)) /\ (Acked(q)' <=> Acked(q))
    BY <2>1, <2>2 DEF IInv, TypeOK, Owns, Acked, Current
  <2> QED
    BY <2>2, <2>4, <2>5, <2>6, Quiet DEF IInv, RowInv
<1>3. ASSUME UNCHANGED <<of, owed, round>> PROVE NotAhead'
  BY <1>3 DEF IInv, NotAhead
<1>4. CASE Insert(p) \/ Reread(p) \/ ClaimRetry(p) \/ ClaimStalePending(p)
  <2>1. /\ UNCHANGED <<round, owed, of, delivered, lost, stalled, faults>>
        /\ pc[p] \in {"insert", "reread", "retry", "reclaim"}
    BY <1>4 DEF Insert, Reread, ClaimRetry, ClaimStalePending
  <2>2. NotAhead'
    BY <1>3, <2>1
  <2>3. CASE /\ \E s \in {"reread", "retry", "idle"} : pc' = [pc EXCEPT ![p] = s]
             /\ UNCHANGED <<row, attempts, stale, crossed>>
    <3>1. \A q \in Runner : (Owns(q)' => Owns(q)) /\ (Acked(q)' <=> Acked(q))
      BY <2>1, <2>3 DEF IInv, TypeOK, Owns, Acked, Current
    <3>2. TypeOK'
      BY <2>1, <2>3 DEF IInv, TypeOK
    <3> QED
      BY <2>1, <2>2, <2>3, <3>1, <3>2, Quiet DEF IInv, RowInv
  <2>4. CASE /\ pc' = [pc EXCEPT ![p] = "deliver"] /\ row' = "pending" /\ stale' = FALSE
             /\ row # "sent" /\ attempts' \in Nat /\ attempts' < MaxAttempts /\ Touch(p)
             /\ Undisturbed => \A q \in Runner : ~Owns(q)
    <3>1. TypeOK'
      BY <2>1, <2>4 DEF IInv, TypeOK, Touch
    <3> QED
      BY <2>1, <2>2, <2>4, <3>1, Won DEF IInv, RowInv
  <2>5. Undisturbed /\ (row # "pending" \/ stale) => \A q \in Runner : ~Owns(q)
    BY DEF IInv, OneOwner
  <2>6. CASE Insert(p)
    <3>1. CASE row = "none"
      <4>1. /\ pc' = [pc EXCEPT ![p] = "deliver"] /\ row' = "pending" /\ stale' = FALSE
            /\ attempts' = 0 /\ Touch(p)
        BY <2>6, <3>1 DEF Insert
      <4>2. attempts' \in Nat /\ attempts' < MaxAttempts
        BY <4>1
      <4>3. Undisturbed => \A q \in Runner : ~Owns(q)
        BY <2>5, <3>1
      <4> QED
        BY <2>4, <3>1, <4>1, <4>2, <4>3
    <3>2. CASE row # "none"
      BY <2>3, <2>6, <3>2 DEF Insert
    <3> QED
      BY <3>1, <3>2
  <2>7. CASE Reread(p)
    BY <2>3, <2>7 DEF Reread
  <2>8. CASE ClaimRetry(p)
    BY <2>3, <2>4, <2>5, <2>8 DEF ClaimRetry, RetryGuard, Budget, IInv, TypeOK
  <2>9. CASE ClaimStalePending(p)
    <3>1. CASE StaleGuard
      <4>1. /\ attempts' = attempts /\ row' = "pending" /\ row = "pending" /\ stale' = FALSE
            /\ pc' = [pc EXCEPT ![p] = "deliver"] /\ stale /\ Touch(p)
        BY <2>9, <3>1 DEF ClaimStalePending, StaleGuard
      <4>2. attempts' \in Nat /\ attempts' < MaxAttempts
        BY <4>1 DEF IInv, TypeOK, PendingHasBudget, Budget
      <4> QED
        BY <2>4, <2>5, <4>1, <4>2
    <3>2. CASE ~StaleGuard
      BY <2>3, <2>9, <3>2 DEF ClaimStalePending, StaleGuard
    <3> QED
      BY <3>1, <3>2
  <2> QED
    BY <1>4, <2>6, <2>7, <2>8, <2>9
<1>5. CASE Deliver(p)
  <2>1. /\ UNCHANGED <<row, attempts, stale, round, owed, of, stalled, crossed>>
        /\ pc[p] = "deliver"
    BY <1>5 DEF Deliver
  <2>2. PICK s \in {"markSent", "markFailed"} : pc' = [pc EXCEPT ![p] = s]
    BY <1>5 DEF Deliver
  <2>3. /\ delivered' \in Nat /\ lost' \in Nat /\ faults' \in 0 .. MaxFaults
        /\ ~Current(p) => UNCHANGED <<delivered, lost>>
    <3>1. delivered' \in {delivered, delivered + 1} /\ lost' \in {lost, lost + 1}
      BY <1>5 DEF Deliver, Reach, Forget
    <3>2. faults' = faults \/ Fault("timeout")
      BY <1>5 DEF Deliver
    <3>3. ~Current(p) => UNCHANGED <<delivered, lost>>
      BY <1>5 DEF Deliver, Reach, Forget
    <3> QED
      BY <3>1, <3>2, <3>3 DEF Fault, IInv, TypeOK
  <2>4. TypeOK' /\ NotAhead'
    BY <1>3, <2>1, <2>2, <2>3 DEF IInv, TypeOK
  <2>5. CASE ~Current(p)
    <3>1. \A q \in Runner : (Owns(q)' => Owns(q)) /\ (Acked(q)' <=> Acked(q))
      BY <2>1, <2>2, <2>5 DEF IInv, TypeOK, Owns, Acked, Current
    <3> QED
      BY <2>1, <2>3, <2>4, <2>5, <3>1, Quiet DEF IInv, RowInv
  <2>6. CASE Current(p)
    <3>1. \/ delivered' = delivered + 1 /\ lost' = lost /\ s = "markSent"
          \/ delivered' = delivered /\ lost' = lost /\ s = "markFailed"
          \/ delivered' = delivered + 1 /\ lost' = lost + 1 /\ s = "markFailed"
      BY <1>5, <2>2, <2>6 DEF Deliver, Reach, Forget, IInv, TypeOK
    <3>2. OneOwner' /\ PendingHasBudget'
      BY <2>1, <2>2 DEF IInv, TypeOK, OneOwner, Owns, Current, Budget, PendingHasBudget,
         Undisturbed
    <3>3. AckedWasDelivered' /\ SentWasDelivered'
      BY <2>1, <2>2, <3>1 DEF IInv, TypeOK, AckedWasDelivered, Acked, Current, SentWasDelivered
    <3>4. DeliveriesAccounted'
      <4> SUFFICES ASSUME Undisturbed
                   PROVE  delivered' <= lost' + (IF Settled' THEN 1 ELSE 0)
        BY <2>1 DEF DeliveriesAccounted, Undisturbed
      <4>1. Owns(p) /\ ~Acked(p)
        BY <2>1, <2>6 DEF Owns, Acked
      <4>2. ~Settled
        BY <4>1 DEF IInv, OneOwner, Owns, Settled, Acked
      <4>3. delivered <= lost
        BY <4>2 DEF IInv, TypeOK, DeliveriesAccounted
      <4>4. CASE s = "markSent"
        <5>1. Settled'
          BY <2>1, <2>2, <2>6, <4>4 DEF Settled, Acked, Current, IInv, TypeOK
        <5>2. delivered' <= lost' + 1
          BY <3>1, <4>3, <4>4 DEF IInv, TypeOK
        <5> QED
          BY <5>1, <5>2
      <4>5. CASE s = "markFailed"
        <5>1. delivered' <= lost'
          BY <3>1, <4>3, <4>5 DEF IInv, TypeOK
        <5> QED
          BY <2>3, <5>1, Slack
      <4> QED
        BY <4>4, <4>5
    <3> QED
      BY <2>4, <3>2, <3>3, <3>4 DEF IInv
  <2> QED
    BY <2>5, <2>6
<1>6. CASE Mark(p) \/ Crash(p)
  <2>1. /\ UNCHANGED <<stale, round, owed, of, delivered, stalled>>
        /\ pc' = [pc EXCEPT ![p] = "idle"]
    BY <1>6 DEF Mark, Crash
  <2>2. faults' \in 0 .. MaxFaults
    <3>1. faults' = faults \/ Fault("writeError") \/ Fault("crash")
      BY <1>6 DEF Mark, Crash
    <3> QED
      BY <3>1 DEF Fault, IInv, TypeOK
  <2>3. \/ /\ UNCHANGED <<row, attempts, crossed>>
           /\ lost' = IF Acked(p) THEN lost + 1 ELSE lost
        \/ /\ row = "none"
           /\ pc[p] \in {"markSent", "markFailed"}
           /\ UNCHANGED <<row, attempts, crossed, lost>>
        \/ /\ pc[p] \in {"markSent", "markFailed"}
           /\ row' = IF pc[p] = "markSent" THEN "sent" ELSE "failed"
           /\ attempts' = attempts + 1
           /\ Touch(p)
           /\ lost' = lost
    BY <1>6 DEF Mark, Crash, Record, Forget, Acked
  <2>4. /\ RowInv' /\ row' \in RowStatus /\ attempts' \in Nat /\ lost' \in Nat
        /\ crossed' \in BOOLEAN
    BY <2>1, <2>3, Released
  <2>5. pc' \in [Runner -> Step]
    BY <2>1 DEF IInv, TypeOK
  <2>6. TypeOK'
    BY <2>1, <2>2, <2>4, <2>5 DEF IInv, TypeOK
  <2> QED
    BY <1>3, <2>1, <2>4, <2>6 DEF IInv, RowInv
<1> QED
  BY <1>1, <1>2, <1>4, <1>5, <1>6 DEF RunnerStep

\* A round that begins finds no runner reporting it, and no row.
LEMMA RearmInv ==
  ASSUME IInv, Rearm
  PROVE  IInv'
<1>1. /\ row' = "none" /\ attempts' = 0 /\ stale' = FALSE /\ round' = round + 1
      /\ owed' = [owed EXCEPT ![round'] = MaxCalls] /\ delivered' = 0 /\ lost' = 0
      /\ stalled' = FALSE /\ crossed' = FALSE
      /\ round < MaxRound /\ UNCHANGED <<pc, of, faults>>
  BY DEF Rearm, ClearRows
<1>2. round' \in Round
  BY <1>1 DEF IInv, TypeOK
<1>3. owed' \in [Round -> 0 .. MaxCalls]
  BY <1>1, <1>2 DEF IInv, TypeOK
<1>4. /\ row' \in RowStatus /\ attempts' \in Nat /\ delivered' \in Nat /\ lost' \in Nat
      /\ stale' \in BOOLEAN /\ stalled' \in BOOLEAN /\ crossed' \in BOOLEAN
  BY <1>1
<1>5. TypeOK'
  BY <1>1, <1>2, <1>3, <1>4 DEF IInv, TypeOK
<1>6. NotAhead'
  BY <1>1 DEF IInv, TypeOK, NotAhead
<1>7. \A p \in Runner : ~Owns(p)' /\ ~Acked(p)'
  <2>1. ASSUME NEW p \in Runner PROVE of[p] # round + 1
    <3>1. of[p] \in Nat /\ round \in Nat /\ of[p] <= round
      BY DEF IInv, TypeOK, NotAhead
    <3> QED
      BY <3>1
  <2> QED
    BY <1>1, <2>1 DEF Owns, Acked, Current
<1>8. RowInv'
  <2>1. OneOwner' /\ AckedWasDelivered'
    BY <1>7 DEF OneOwner, AckedWasDelivered
  <2>2. SentWasDelivered' /\ PendingHasBudget' /\ ~Settled'
    BY <1>1, <1>7 DEF SentWasDelivered, PendingHasBudget, Settled
  <2>3. DeliveriesAccounted'
    BY <1>1, <2>2 DEF DeliveriesAccounted
  <2> QED
    BY <2>1, <2>2, <2>3 DEF RowInv
<1> QED
  BY <1>5, <1>6, <1>8 DEF IInv, RowInv

LEMMA NextInv ==
  ASSUME IInv, [Next]_vars
  PROVE  IInv'
<1>1. CASE UNCHANGED vars
  <2>1. UNCHANGED <<row, attempts, stale, round, owed, pc, of, delivered, lost, stalled,
                    crossed, faults>>
    BY <1>1 DEF vars
  <2>2. TypeOK' /\ NotAhead'
    BY <2>1 DEF IInv, TypeOK, NotAhead
  <2>3. \A q \in Runner : (Owns(q)' <=> Owns(q)) /\ (Acked(q)' <=> Acked(q))
    BY <2>1 DEF Owns, Acked, Current
  <2> QED
    BY <2>1, <2>2, <2>3, Quiet DEF IInv, RowInv
<1>2. CASE LeaseExpires \/ Stall
  <2>1. /\ UNCHANGED <<row, attempts, round, owed, pc, of, delivered, lost, crossed>>
        /\ stale' = TRUE /\ stalled' \in BOOLEAN /\ faults' \in 0 .. MaxFaults
        /\ \/ stalled' = TRUE
           \/ stalled' = stalled /\ \A p \in Runner : ~Owns(p)
    <3>1. CASE LeaseExpires
      BY <3>1 DEF LeaseExpires, IInv, TypeOK
    <3>2. CASE Stall
      <4>1. faults' \in 0 .. MaxFaults
        BY <3>2 DEF Stall, Fault, IInv, TypeOK
      <4> QED
        BY <3>2, <4>1 DEF Stall
    <3> QED
      BY <1>2, <3>1, <3>2
  <2>2. TypeOK' /\ NotAhead'
    BY <2>1 DEF IInv, TypeOK, NotAhead
  <2>3. \A q \in Runner : (Owns(q)' <=> Owns(q)) /\ (Acked(q)' <=> Acked(q))
    BY <2>1 DEF Owns, Acked, Current
  <2>4. OneOwner' /\ PendingHasBudget'
    BY <2>1, <2>3 DEF IInv, OneOwner, PendingHasBudget, Budget, Undisturbed
  <2>5. AckedWasDelivered' /\ SentWasDelivered' /\ Settled' = Settled
    BY <2>1, <2>3 DEF IInv, AckedWasDelivered, SentWasDelivered, Settled
  <2>6. DeliveriesAccounted'
    BY <2>1, <2>5 DEF IInv, DeliveriesAccounted, Undisturbed
  <2> QED
    BY <2>2, <2>4, <2>5, <2>6 DEF IInv
<1>3. CASE Rearm
  BY <1>3, RearmInv
<1> QED
  BY <1>1, <1>2, <1>3, RunnerInv DEF Next

THEOREM Invariance == Spec => []IInv
<1>1. IInv /\ [Next]_vars => IInv'
  BY NextInv
<1> QED
  BY <1>1, InitInv, PTL DEF Spec

\* Every variable keeps its type, whichever rounds and faults overlap.
THEOREM TypeCorrect == Spec => []TypeOK
<1>1. IInv => TypeOK
  BY DEF IInv
<1> QED
  BY <1>1, Invariance, PTL

\* The compare-and-set updates let one goroutine at a time deliver a round's row, and
\* only within its budget, however many callbacks and sweeps run, until a lease expires
\* under its owner or a runner of an earlier round writes the row.
THEOREM Exclusion == Spec => []OneOwner
<1>1. IInv => OneOwner
  BY DEF IInv
<1> QED
  BY <1>1, Invariance, PTL

\* In a round so undisturbed, every message after the first one follows a delivery
\* whose outcome was lost.
THEOREM Duplicates == Spec => []DuplicateOnlyAfterLoss
<1>1. IInv => DuplicateOnlyAfterLoss
  <2> SUFFICES ASSUME IInv, Undisturbed PROVE delivered <= 1 + lost
    BY DEF DuplicateOnlyAfterLoss
  <2>1. delivered \in Nat /\ lost \in Nat
    BY DEF IInv, TypeOK
  <2>2. CASE Settled
    BY <2>1, <2>2 DEF IInv, DeliveriesAccounted
  <2>3. CASE ~Settled
    BY <2>1, <2>3 DEF IInv, DeliveriesAccounted
  <2> QED
    BY <2>2, <2>3
<1> QED
  BY <1>1, Invariance, PTL

\* A row that says sent is backed by a message of its own round, or was written by a
\* runner of an earlier one: rounds overlap, leases are taken over, calls are cut off
\* and records lost in every way, and this is the only one that does it.
THEOREM Backed == Spec => []SentWasDelivered
<1>1. IInv => SentWasDelivered
  BY DEF IInv
<1> QED
  BY <1>1, Invariance, PTL

\* A sent row stays sent for its round, and no message follows it, while the round is
\* undisturbed.
THEOREM SentFinal == Spec => SentIsFinal
<1>1. IInv /\ [Next]_vars =>
        [(row = "sent" /\ round' = round /\ Undisturbed') =>
           row' = "sent" /\ delivered' = delivered]_vars
  <2> SUFFICES ASSUME IInv, Next, row = "sent", round' = round, Undisturbed'
               PROVE  row' = "sent" /\ delivered' = delivered
    BY DEF vars
  <2>1. ASSUME Undisturbed, NEW p \in Runner PROVE ~Owns(p)
    BY <2>1 DEF IInv, OneOwner
  <2>2. ASSUME NEW p \in Runner, RunnerStep(p) \/ Crash(p)
        PROVE  row' = "sent" /\ delivered' = delivered
    <3>1. CASE Insert(p) \/ Reread(p) \/ ClaimRetry(p) \/ ClaimStalePending(p) \/ Crash(p)
      BY <3>1 DEF Insert, Reread, ClaimRetry, RetryGuard, ClaimStalePending, Crash
    <3>2. CASE Deliver(p)
      <4>1. Undisturbed /\ row' = row
        BY <3>2 DEF Deliver, Undisturbed
      <4>2. ~Current(p)
        BY <2>1, <3>2, <4>1 DEF Deliver, Owns
      <4> QED
        BY <3>2, <4>1, <4>2 DEF Deliver, Reach
    <3>3. CASE Mark(p)
      <4>1. delivered' = delivered
        BY <3>3 DEF Mark
      <4>2. CASE row' = row
        BY <4>1, <4>2
      <4>3. CASE row' # row
        <5>1. Touch(p) /\ stalled' = stalled /\ pc[p] \in {"markSent", "markFailed"}
          BY <3>3, <4>3 DEF Mark, Record
        <5>2. Undisturbed /\ Owns(p)
          BY <5>1 DEF Undisturbed, Touch, Owns
        <5> QED
          BY <2>1, <5>2
      <4> QED
        BY <4>2, <4>3
    <3> QED
      BY <2>2, <3>1, <3>2, <3>3 DEF RunnerStep
  <2>3. ASSUME NEW p \in Runner,
               \/ \E k \in Round : OnTaskTerminal(p, k)
               \/ SweepRetryFailed(p) \/ SweepStalePending(p)
        PROVE  row' = "sent" /\ delivered' = delivered
    BY <2>3 DEF OnTaskTerminal, SweepRetryFailed, SweepStalePending
  <2>4. CASE LeaseExpires \/ Stall \/ Rearm
    BY <2>4 DEF LeaseExpires, Stall, Rearm, IInv, TypeOK
  <2> QED
    BY <2>2, <2>3, <2>4 DEF Next
<1> QED
  BY <1>1, Invariance, PTL DEF Spec, SentIsFinal
=============================================================================
