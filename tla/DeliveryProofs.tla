--------------------------- MODULE DeliveryProofs ---------------------------
(***************************************************************************)
(* Proofs about Delivery, for every number of sessions, rows, attempts,    *)
(* crashes and seconds.                                                    *)
(***************************************************************************)
EXTENDS Delivery, TLAPS

USE DeliveryAssumption

-----------------------------------------------------------------------------
(* Type correctness.                                                       *)

LEMMA TypeInit == Init => TypeOK
BY DEF Init, TypeOK, Loops

(* Both ends of a delivery keep the types.                                 *)
LEMMA ProceedTypes ==
  ASSUME TypeOK, NEW l \in Loops, NEW rest \in SUBSET Rows, Proceed(l, rest)
  PROVE  /\ left' \in [Loops -> SUBSET Rows]
         /\ cur' \in [Loops -> Rows \union {None}]
         /\ call' \in [Loops -> {"idle", "calling", "landed"}]
         /\ inflight' \subseteq Sessions
         /\ visiting' \in [Loops -> Sessions \union {None}]
BY DEF TypeOK, Proceed

LEMMA SucceedTypes ==
  ASSUME TypeOK, NEW l \in Loops, NEW m \in Rows, NEW rest \in SUBSET Rows, Succeed(l, m, rest)
  PROVE  TypeOK'
<1>1. verdict' \in [Rows -> {"none", "delivered", "failed"}]
  BY DEF TypeOK, Succeed, Record
<1>2. attempts' \in [Rows -> 0..(MaxAttempts - 1)]
  BY DEF TypeOK, Succeed
<1>. QED  BY <1>1, <1>2, ProceedTypes DEF TypeOK, Succeed

LEMMA FailTypes ==
  ASSUME TypeOK, NEW l \in Loops, NEW m \in Rows, NEW rest \in SUBSET Rows, Fail(l, m, rest)
  PROVE  TypeOK'
<1>1. verdict' \in [Rows -> {"none", "delivered", "failed"}]
  BY DEF TypeOK, Fail, Record
<1>2. attempts' \in [Rows -> 0..(MaxAttempts - 1)]
  BY DEF TypeOK, Fail
<1>3. faults' \in [Rows -> Nat]
  BY DEF TypeOK, Fail
<1>. QED  BY <1>1, <1>2, <1>3, ProceedTypes DEF TypeOK, Fail

(* The row a delivery ends with is one of the loop's rows.                 *)
CurrentRow(l, m, rest) ==
  \/ NextRow(l, m) /\ rest = left[l] \ {m}
  \/ call[l] # "idle" /\ m = cur[l] /\ rest = left[l]

(* Every end of a delivery is a success or a failure of a current row.     *)
LEMMA DeliveryEnds ==
  ASSUME TypeOK, \A k \in Loops : DrainInv(k), NEW l \in Loops, Deliver(l)
  PROVE  \/ \E m \in Rows : NextRow(l, m) /\ Send(l, m)
         \/ Land(l) /\ cur[l] \in Rows
         \/ \E m \in Rows, rest \in SUBSET Rows :
              CurrentRow(l, m, rest) /\ (Succeed(l, m, rest) \/ Fail(l, m, rest))
<1>1. call[l] # "idle" => cur[l] \in Rows
  BY DEF DrainInv, TypeOK
<1>2. left[l] \in SUBSET Rows
  BY DEF TypeOK
<1>3. ASSUME NEW m \in Rows, Refuse(l, m) \/ Drop(l, m)
      PROVE  \E rest \in SUBSET Rows :
               CurrentRow(l, m, rest) /\ (Succeed(l, m, rest) \/ Fail(l, m, rest))
  <2>1. left[l] \ {m} \in SUBSET Rows
    BY <1>2
  <2>. QED  BY <1>3, <2>1 DEF Refuse, Drop, CurrentRow
<1>4. CASE Return(l) \/ Throw(l)
  BY <1>1, <1>2, <1>4 DEF Return, Throw, CurrentRow
<1>5. CASE Land(l)
  BY <1>1, <1>5 DEF Land
<1>6. ASSUME NEW m \in Rows, Send(l, m)
      PROVE  NextRow(l, m) /\ Send(l, m)
  BY <1>6 DEF Send
<1>. QED  BY <1>3, <1>4, <1>5, <1>6 DEF Deliver

LEMMA TypeStep ==
  ASSUME TypeOK, \A k \in Loops : DrainInv(k), [Next]_vars
  PROVE  TypeOK'
<1>. USE DEF TypeOK, tables, rounds, drains
<1>1. ASSUME NEW m \in Rows, Write(m)
      PROVE  TypeOK'
  BY <1>1 DEF Write
<1>2. CASE Tick
  BY <1>2 DEF Tick
<1>3. ASSUME NEW l \in Loops, StartRound(l) \/ AbortRound(l)
      PROVE  TypeOK'
  BY <1>3 DEF StartRound, AbortRound
<1>4. ASSUME NEW l \in Loops, NEW s \in Sessions, Visit(l, s)
      PROVE  TypeOK'
  BY <1>4 DEF Visit, Undelivered
<1>5. ASSUME NEW l \in Loops, Deliver(l)
      PROVE  TypeOK'
  <2>1. ASSUME NEW m \in Rows, Send(l, m)
        PROVE  TypeOK'
    BY <2>1 DEF Send
  <2>2. CASE Land(l) /\ cur[l] \in Rows
    BY <2>2 DEF Land
  <2>. QED  BY <1>5, <2>1, <2>2, DeliveryEnds, SucceedTypes, FailTypes
<1>6. CASE HostCrash
  BY <1>6 DEF HostCrash
<1>7. CASE UNCHANGED vars
  BY <1>7 DEF vars
<1>. QED  BY <1>1, <1>2, <1>3, <1>4, <1>5, <1>6, <1>7 DEF Next

-----------------------------------------------------------------------------
(* One delivery, seen from the loop that makes it.                         *)

(* The current row is unsettled, no other loop holds it, and whatever the  *)
(* loop has passed over was tried.                                         *)
LEMMA CurrentFacts ==
  ASSUME IInv, NEW l \in Loops, NEW m \in Rows, NEW rest \in SUBSET Rows, CurrentRow(l, m, rest)
  PROVE  /\ visiting[l] # None /\ Home[m] = visiting[l]
         /\ stamp[m] > 0 /\ verdict[m] = "none"
         /\ m \notin rest /\ rest \subseteq left[l]
         /\ \A k \in Loops : k # l => visiting[k] # visiting[l] /\ m \notin left[k] /\ cur[k] # m
         /\ \A p \in rest, n \in Rows :
              (Home[n] = Home[p] /\ stamp[n] > 0 /\ stamp[n] < stamp[p] /\ n \notin rest)
                => n = m \/ verdict[n] # "none" \/ faults[n] > 0
<1>1. DrainInv(l) /\ OrderInv(l) /\ Exclusive
  BY DEF IInv
<1>2. visiting[l] # None /\ Home[m] = visiting[l] /\ stamp[m] > 0 /\ verdict[m] = "none"
        /\ m \notin rest /\ rest \subseteq left[l] /\ left[l] \subseteq rest \union {m}
  BY <1>1 DEF CurrentRow, NextRow, Earliest, DrainInv
<1>3. ASSUME NEW k \in Loops, k # l
      PROVE  visiting[k] # visiting[l] /\ m \notin left[k] /\ cur[k] # m
  <2>1. visiting[k] # visiting[l] /\ DrainInv(k)
    BY <1>1, <1>2, <1>3 DEF Exclusive, IInv
  <2>. QED  BY <1>2, <2>1 DEF DrainInv
<1>4. ASSUME NEW p \in rest, NEW n \in Rows,
             Home[n] = Home[p], stamp[n] > 0, stamp[n] < stamp[p], n \notin rest
      PROVE  n = m \/ verdict[n] # "none" \/ faults[n] > 0
  <2>1. CASE n \in left[l]
    BY <1>2, <2>1, <1>4
  <2>2. CASE n \notin left[l]
    <3>1. verdict[n] # "none" \/ faults[n] > 0 \/ cur[l] = n
      BY <1>1, <1>2, <1>4, <2>2 DEF OrderInv
    <3>2. cur[l] = n => n = m
      BY <1>1 DEF CurrentRow, NextRow, DrainInv
    <3>. QED  BY <3>1, <3>2
  <2>. QED  BY <2>1, <2>2
<1>. QED  BY <1>2, <1>3, <1>4

(* After a delivery the drains stay apart and in order, provided the row   *)
(* was settled or is now known to have failed.                             *)
LEMMA ProceedInv ==
  ASSUME IInv, NEW l \in Loops, NEW m \in Rows, NEW rest \in SUBSET Rows, CurrentRow(l, m, rest),
         Proceed(l, rest), stamp' = stamp,
         \A n \in Rows : verdict'[n] = verdict[n] \/ n = m,
         \A n \in Rows : faults[n] > 0 => faults'[n] > 0,
         verdict'[m] # "none" \/ faults'[m] > 0
  PROVE  (\A k \in Loops : DrainInv(k)' /\ OrderInv(k)') /\ Exclusive'
<1>0. /\ TypeOK /\ Exclusive
      /\ \A k \in Loops : DrainInv(k) /\ OrderInv(k)
  BY DEF IInv
<1>1. /\ left'[l] = rest /\ cur'[l] = None /\ call'[l] = "idle"
      /\ visiting'[l] = IF rest = {} THEN None ELSE visiting[l]
      /\ inflight' = IF rest = {} THEN inflight \ {visiting[l]} ELSE inflight
      /\ \A k \in Loops : k # l =>
           /\ left'[k] = left[k] /\ cur'[k] = cur[k] /\ call'[k] = call[k]
           /\ visiting'[k] = visiting[k]
  BY <1>0 DEF Proceed, TypeOK
<1>2. DrainInv(l)'
  BY <1>0, <1>1, CurrentFacts DEF DrainInv
<1>3. OrderInv(l)'
  <2>. SUFFICES ASSUME NEW p \in rest, NEW n \in Rows,
                       Home[n] = Home[p], stamp[n] > 0, stamp[n] < stamp[p], n \notin rest
                PROVE  verdict'[n] # "none" \/ faults'[n] > 0
    BY <1>1 DEF OrderInv
  <2>. QED  BY CurrentFacts
<1>4. ASSUME NEW k \in Loops, k # l
      PROVE  DrainInv(k)' /\ OrderInv(k)'
  <2>0. DrainInv(k) /\ OrderInv(k) /\ left[k] \subseteq Rows /\ cur[k] \in Rows \union {None}
    BY <1>0 DEF TypeOK
  <2>1. visiting[k] # visiting[l] /\ m \notin left[k] /\ cur[k] # m
    BY <1>4, CurrentFacts
  <2>2. left'[k] = left[k] /\ cur'[k] = cur[k] /\ call'[k] = call[k] /\ visiting'[k] = visiting[k]
    BY <1>1, <1>4
  <2>3. DrainInv(k)'
    BY <1>1, <2>0, <2>1, <2>2 DEF DrainInv
  <2>4. OrderInv(k)'
    BY <2>0, <2>2, CurrentFacts DEF OrderInv
  <2>. QED  BY <2>3, <2>4
<1>5. Exclusive'
  BY <1>0, <1>1 DEF Exclusive
<1>. QED  BY <1>2, <1>3, <1>4, <1>5

LEMMA SucceedInv ==
  ASSUME IInv, NEW l \in Loops, NEW m \in Rows, NEW rest \in SUBSET Rows, CurrentRow(l, m, rest),
         Succeed(l, m, rest)
  PROVE  IInv'
<1>0. TypeOK /\ \A n \in Rows : HistoryInv(n)
  BY DEF IInv
<1>1. TypeOK'
  BY <1>0, SucceedTypes
<1>2. verdict[m] = "none" /\ \A k \in Loops : k # l => cur[k] # m
  BY CurrentFacts
<1>3. verdict'[m] = "delivered" /\ \A n \in Rows : n # m => verdict'[n] = verdict[n]
  BY <1>0, <1>2 DEF Succeed, Record, TypeOK
<1>4. (\A k \in Loops : DrainInv(k)' /\ OrderInv(k)') /\ Exclusive'
  BY <1>3, ProceedInv DEF Succeed
<1>5. ASSUME NEW n \in Rows
      PROVE  HistoryInv(n)'
  <2>1. HistoryInv(n) /\ faults[n] \in Nat /\ attempts[n] \in Nat /\ landed[n] \in Nat
    BY <1>0 DEF TypeOK
  <2>2. UNCHANGED <<landed, faults, stamp, clock>>
    BY DEF Succeed
  <2>3. attempts'[n] <= faults[n]
    BY <1>0, <2>1 DEF Succeed, TypeOK, HistoryInv
  <2>4. CASE n = m
    BY <1>3, <2>1, <2>2, <2>3, <2>4 DEF HistoryInv
  <2>5. CASE n # m
    <3>1. InCall(n) => InCall(n)'
      BY <1>0, <2>5 DEF InCall, Succeed, Proceed, TypeOK, CurrentRow, NextRow
    <3>. QED  BY <1>3, <2>1, <2>2, <2>3, <2>5, <3>1 DEF HistoryInv
  <2>. QED  BY <2>4, <2>5
<1>. QED  BY <1>1, <1>4, <1>5 DEF IInv

LEMMA FailInv ==
  ASSUME IInv, NEW l \in Loops, NEW m \in Rows, NEW rest \in SUBSET Rows, CurrentRow(l, m, rest),
         Fail(l, m, rest)
  PROVE  IInv'
<1>0. TypeOK /\ \A n \in Rows : HistoryInv(n)
  BY DEF IInv
<1>1. TypeOK'
  BY <1>0, FailTypes
<1>2. verdict[m] = "none" /\ \A k \in Loops : k # l => cur[k] # m
  BY CurrentFacts
<1>3. /\ faults'[m] = faults[m] + 1 /\ faults[m] \in Nat
      /\ \A n \in Rows : n # m => faults'[n] = faults[n] /\ verdict'[n] = verdict[n]
                                    /\ attempts'[n] = attempts[n]
  BY <1>0, <1>2 DEF Fail, Record, TypeOK
<1>4. (\A k \in Loops : DrainInv(k)' /\ OrderInv(k)') /\ Exclusive'
  <2>1. \A n \in Rows : faults[n] > 0 => faults'[n] > 0
    BY <1>3
  <2>2. faults'[m] > 0
    BY <1>3
  <2>3. \A n \in Rows : verdict'[n] = verdict[n] \/ n = m
    BY <1>3
  <2>. QED  BY <2>1, <2>2, <2>3, ProceedInv DEF Fail
<1>5. ASSUME NEW n \in Rows
      PROVE  HistoryInv(n)'
  <2>1. HistoryInv(n) /\ faults[n] \in Nat /\ attempts[n] \in Nat /\ landed[n] \in Nat
    BY <1>0 DEF TypeOK
  <2>2. UNCHANGED <<landed, stamp, clock>>
    BY DEF Fail
  <2>3. CASE n = m
    <3>1. /\ attempts'[m] = 0 \/ attempts'[m] = attempts[m] + 1
          /\ verdict'[m] = "failed" => attempts[m] + 1 >= MaxAttempts
      BY <1>0, <1>2 DEF Fail, Record, TypeOK
    <3>2. landed[m] <= faults[m] + 1 /\ attempts[m] <= faults[m] /\ stamp[m] <= clock
      BY <2>1, <2>3 DEF HistoryInv
    <3>. QED  BY <1>3, <2>1, <2>2, <2>3, <3>1, <3>2 DEF HistoryInv
  <2>4. CASE n # m
    <3>1. InCall(n) => InCall(n)'
      BY <1>0, <2>4 DEF InCall, Fail, Proceed, TypeOK, CurrentRow, NextRow
    <3>. QED  BY <1>3, <2>1, <2>2, <2>4, <3>1 DEF HistoryInv
  <2>. QED  BY <2>3, <2>4
<1>. QED  BY <1>1, <1>4, <1>5 DEF IInv

-----------------------------------------------------------------------------
(* The inductive invariant.                                                *)

LEMMA InvInit == Init => IInv
<1>. SUFFICES ASSUME Init PROVE IInv
  OBVIOUS
<1>1. TypeOK
  BY TypeInit
<1>2. (\A l \in Loops : DrainInv(l) /\ OrderInv(l)) /\ Exclusive
  BY DEF Init, DrainInv, OrderInv, Exclusive
<1>3. \A m \in Rows : HistoryInv(m)
  BY DEF Init, HistoryInv
<1>. QED  BY <1>1, <1>2, <1>3 DEF IInv

(* A new row is no earlier than any row of a snapshot.                     *)
LEMMA WriteInv ==
  ASSUME IInv, NEW w \in Rows, Write(w), TypeOK'
  PROVE  IInv'
<1>0. /\ TypeOK /\ Exclusive
      /\ \A l \in Loops : DrainInv(l) /\ OrderInv(l)
      /\ \A m \in Rows : HistoryInv(m)
  BY DEF IInv
<1>1. /\ UNCHANGED <<clock, verdict, attempts, rounds, drains, landed, faults, crashes>>
      /\ stamp[w] = 0 /\ stamp'[w] = clock /\ clock \in Nat
      /\ \A m \in Rows : m # w => stamp'[m] = stamp[m]
  BY <1>0 DEF Write, TypeOK
<1>2. \A l \in Loops : w \notin left[l] /\ cur[l] # w
  BY <1>0, <1>1 DEF DrainInv, TypeOK
<1>3. ASSUME NEW l \in Loops
      PROVE  DrainInv(l)'
  BY <1>0, <1>1, <1>2 DEF DrainInv, rounds, drains, TypeOK
<1>4. ASSUME NEW l \in Loops
      PROVE  OrderInv(l)'
  <2>. SUFFICES ASSUME NEW m \in left[l], NEW n \in Rows,
                       Home[n] = Home[m], stamp'[n] > 0, stamp'[n] < stamp'[m], n \notin left[l]
                PROVE  verdict[n] # "none" \/ faults[n] > 0 \/ cur[l] = n
    BY <1>1 DEF OrderInv, drains
  <2>1. m \in Rows /\ stamp'[m] = stamp[m] /\ stamp[m] <= clock /\ stamp[m] \in Nat
    BY <1>0, <1>1, <1>2 DEF TypeOK, HistoryInv
  <2>2. n # w
    BY <1>1, <2>1
  <2>. QED  BY <1>0, <1>1, <2>1, <2>2 DEF OrderInv
<1>5. Exclusive'
  BY <1>0, <1>1 DEF Exclusive, rounds
<1>6. ASSUME NEW m \in Rows
      PROVE  HistoryInv(m)'
  BY <1>0, <1>1 DEF HistoryInv, InCall, drains
<1>. QED  BY <1>3, <1>4, <1>5, <1>6 DEF IInv

(* The guard admits one drain per session, and the snapshot it takes is    *)
(* everything unsettled.                                                   *)
LEMMA VisitInv ==
  ASSUME IInv, NEW l \in Loops, NEW s \in Sessions, Visit(l, s), TypeOK'
  PROVE  IInv'
<1>0. /\ TypeOK /\ Exclusive
      /\ \A k \in Loops : DrainInv(k) /\ OrderInv(k)
      /\ \A m \in Rows : HistoryInv(m)
  BY DEF IInv
<1>1. UNCHANGED <<tables, attempts, cur, call, landed, faults, crashes>> /\ cur[l] = None
  BY <1>0 DEF Visit, DrainInv
<1>2. \A m \in Rows : HistoryInv(m)'
  BY <1>0, <1>1 DEF HistoryInv, InCall, tables
<1>3. CASE UNCHANGED <<inflight, visiting, left>>
  BY <1>0, <1>1, <1>2, <1>3 DEF IInv, DrainInv, OrderInv, Exclusive, tables
<1>4. CASE /\ s \notin inflight /\ inflight' = inflight \union {s}
           /\ visiting' = [visiting EXCEPT ![l] = s]
           /\ left' = [left EXCEPT ![l] = Undelivered(s)]
  <2>1. /\ visiting'[l] = s /\ left'[l] = Undelivered(s) /\ s # None
        /\ \A k \in Loops : k # l => visiting'[k] = visiting[k] /\ left'[k] = left[k]
    BY <1>0, <1>4 DEF TypeOK
  <2>2. \A k \in Loops : visiting[k] # s
    BY <1>0, <1>4, <2>1 DEF DrainInv
  <2>3. DrainInv(l)' /\ OrderInv(l)'
    BY <1>0, <1>1, <1>4, <2>1 DEF DrainInv, OrderInv, Undelivered, tables, TypeOK
  <2>4. ASSUME NEW k \in Loops, k # l
        PROVE  DrainInv(k)' /\ OrderInv(k)'
    BY <1>0, <1>1, <1>4, <2>1, <2>4 DEF DrainInv, OrderInv, tables
  <2>5. Exclusive'
    BY <1>0, <2>1, <2>2 DEF Exclusive
  <2>. QED  BY <1>2, <2>3, <2>4, <2>5 DEF IInv
<1>. QED  BY <1>3, <1>4 DEF Visit

LEMMA SendInv ==
  ASSUME IInv, NEW l \in Loops, NEW m \in Rows, Send(l, m), TypeOK'
  PROVE  IInv'
<1>0. /\ TypeOK /\ Exclusive
      /\ \A k \in Loops : DrainInv(k) /\ OrderInv(k)
      /\ \A n \in Rows : HistoryInv(n)
  BY DEF IInv
<1>1. /\ UNCHANGED <<tables, attempts, rounds, landed, faults, crashes>>
      /\ left'[l] = left[l] \ {m} /\ cur'[l] = m /\ call'[l] = "calling" /\ cur[l] = None
      /\ m \in left[l] /\ m # None /\ visiting[l] # None
      /\ \A k \in Loops : k # l => left'[k] = left[k] /\ cur'[k] = cur[k] /\ call'[k] = call[k]
  BY <1>0 DEF Send, NextRow, Earliest, TypeOK
<1>2. \A k \in Loops : DrainInv(k)' /\ OrderInv(k)'
  <2>1. DrainInv(l)' /\ OrderInv(l)'
    BY <1>0, <1>1 DEF DrainInv, OrderInv, tables, rounds
  <2>2. ASSUME NEW k \in Loops, k # l
        PROVE  DrainInv(k)' /\ OrderInv(k)'
    BY <1>0, <1>1, <2>2 DEF DrainInv, OrderInv, tables, rounds
  <2>. QED  BY <2>1, <2>2
<1>3. Exclusive'
  BY <1>0, <1>1 DEF Exclusive, rounds
<1>4. ASSUME NEW n \in Rows
      PROVE  HistoryInv(n)'
  <2>1. InCall(n) => InCall(n)'
    BY <1>0, <1>1 DEF InCall, DrainInv
  <2>. QED  BY <1>0, <1>1, <2>1 DEF HistoryInv, tables
<1>. QED  BY <1>2, <1>3, <1>4 DEF IInv

(* The effect takes place while no other call for the row is open.         *)
LEMMA LandInv ==
  ASSUME IInv, NEW l \in Loops, Land(l), TypeOK'
  PROVE  IInv'
<1>0. /\ TypeOK /\ Exclusive
      /\ \A k \in Loops : DrainInv(k) /\ OrderInv(k)
      /\ \A n \in Rows : HistoryInv(n)
  BY DEF IInv
<1>1. cur[l] \in Rows /\ visiting[l] # None
  BY <1>0 DEF Land, DrainInv, TypeOK
<1>2. /\ UNCHANGED <<tables, attempts, rounds, left, cur, faults, crashes>>
      /\ call[l] = "calling" /\ call'[l] = "landed" /\ landed'[cur[l]] = landed[cur[l]] + 1
      /\ \A k \in Loops : k # l => call'[k] = call[k]
      /\ \A n \in Rows : n # cur[l] => landed'[n] = landed[n]
  BY <1>0, <1>1 DEF Land, TypeOK
<1>3. (\A k \in Loops : DrainInv(k)' /\ OrderInv(k)') /\ Exclusive'
  BY <1>0, <1>2 DEF DrainInv, OrderInv, Exclusive, tables, rounds
<1>4. ASSUME NEW n \in Rows
      PROVE  HistoryInv(n)'
  <2>1. HistoryInv(n) /\ faults[n] \in Nat /\ landed[n] \in Nat
    BY <1>0 DEF TypeOK
  <2>2. InCall(n) => InCall(n)'
    BY <1>0, <1>2 DEF InCall
  <2>3. CASE n = cur[l]
    <3>1. \A k \in Loops : k # l => cur[k] # n
      BY <1>0, <1>1, <2>3 DEF Exclusive, DrainInv
    <3>2. ~ InCall(n) /\ verdict[n] = "none" /\ InCall(n)'
      BY <1>0, <1>1, <1>2, <2>3, <3>1 DEF InCall, DrainInv
    <3>. QED  BY <1>2, <2>1, <2>3, <3>2 DEF HistoryInv, tables
  <2>4. CASE n # cur[l]
    BY <1>2, <2>1, <2>2, <2>4 DEF HistoryInv, tables
  <2>. QED  BY <2>3, <2>4
<1>. QED  BY <1>3, <1>4 DEF IInv

LEMMA CrashInv ==
  ASSUME IInv, HostCrash, TypeOK'
  PROVE  IInv'
<1>0. TypeOK /\ \A m \in Rows : HistoryInv(m)
  BY DEF IInv
<1>1. (\A l \in Loops : DrainInv(l)' /\ OrderInv(l)') /\ Exclusive'
  BY DEF HostCrash, DrainInv, OrderInv, Exclusive
<1>2. ASSUME NEW m \in Rows
      PROVE  HistoryInv(m)'
  <2>1. HistoryInv(m) /\ faults[m] \in Nat /\ landed[m] \in Nat
    BY <1>0 DEF TypeOK
  <2>2. InCall(m) => faults'[m] = faults[m] + 1
    BY DEF InCall, HostCrash
  <2>3. faults'[m] = faults[m] \/ faults'[m] = faults[m] + 1
    BY DEF HostCrash
  <2>4. UNCHANGED <<tables, landed>> /\ attempts'[m] = 0
    BY DEF HostCrash
  <2>. QED  BY <2>1, <2>2, <2>3, <2>4 DEF HistoryInv, tables, TypeOK, DeliveryAssumption
<1>. QED  BY <1>1, <1>2 DEF IInv

LEMMA InvStep ==
  ASSUME IInv, [Next]_vars
  PROVE  IInv'
<1>0. TypeOK /\ \A k \in Loops : DrainInv(k)
  BY DEF IInv
<1>1. TypeOK'
  BY <1>0, TypeStep
<1>2. CASE Tick
  BY <1>1, <1>2 DEF Tick, IInv, DrainInv, OrderInv, Exclusive, HistoryInv, InCall, rounds, drains, TypeOK
<1>3. ASSUME NEW l \in Loops, StartRound(l) \/ AbortRound(l)
      PROVE  IInv'
  <2>1. UNCHANGED <<tables, attempts, inflight, visiting, drains, landed, faults>>
    BY <1>3 DEF StartRound, AbortRound
  <2>. QED  BY <1>1, <2>1 DEF IInv, DrainInv, OrderInv, Exclusive, HistoryInv, InCall, tables, drains
<1>4. ASSUME NEW l \in Loops, Deliver(l)
      PROVE  IInv'
  BY <1>0, <1>1, <1>4, DeliveryEnds, SendInv, LandInv, SucceedInv, FailInv
<1>5. CASE UNCHANGED vars
  BY <1>1, <1>5 DEF vars, tables, rounds, drains, IInv, DrainInv, OrderInv, Exclusive, HistoryInv, InCall
<1>. QED  BY <1>1, <1>2, <1>3, <1>4, <1>5, WriteInv, VisitInv, CrashInv DEF Next

LEMMA Invariance == Spec => []IInv
BY InvInit, InvStep, PTL DEF Spec

-----------------------------------------------------------------------------
(* The safety properties.                                                  *)

(* Every reachable state is well typed.                                    *)
THEOREM TypeCorrect == Spec => []TypeOK
<1>1. IInv => TypeOK
  BY DEF IInv
<1>. QED  BY <1>1, Invariance, PTL

(* A row takes effect at most once more than deliveries of it failed.      *)
THEOREM NoDuplicateDelivery == Spec => []SentOncePerFault
<1>1. IInv => SentOncePerFault
  BY DEF IInv, TypeOK, HistoryInv, SentOncePerFault
<1>. QED  BY <1>1, Invariance, PTL

(* A row is given up on only after MaxAttempts failures of its own.        *)
THEOREM RowsGetTheirAttempts == Spec => []FailedMeansTried
<1>1. IInv => FailedMeansTried
  BY DEF IInv, HistoryInv, FailedMeansTried
<1>. QED  BY <1>1, Invariance, PTL

(* No row is sent before an earlier one of its session was tried.          *)
THEOREM RowsGoInOrder == Spec => NoOvertaking
<1>1. ASSUME IInv, [Next]_vars, NEW l \in Loops, cur'[l] # cur[l], cur'[l] # None, NEW n \in Rows,
             Home[n] = Home[cur'[l]], stamp[n] > 0, stamp[n] < stamp[cur'[l]]
      PROVE  verdict[n] # "none" \/ faults[n] > 0
  <2>0. TypeOK /\ \A k \in Loops : DrainInv(k) /\ OrderInv(k)
    BY <1>1 DEF IInv
  <2>1. PICK k \in Loops : Deliver(k)
    <3>1. UNCHANGED cur \/ HostCrash \/ \E k \in Loops : Deliver(k)
      BY <1>1 DEF Next, Write, Tick, StartRound, AbortRound, Visit, drains, vars
    <3>. QED  BY <1>1, <3>1 DEF HostCrash
  <2>2. ASSUME NEW m \in Rows, NextRow(k, m), Send(k, m)
        PROVE  verdict[n] # "none" \/ faults[n] > 0
    <3>1. k = l /\ cur'[l] = m /\ cur[l] = None
      BY <1>1, <2>0, <2>2 DEF Send, NextRow, TypeOK
    <3>2. m \in left[l] /\ n \notin left[l] /\ n # None
      BY <1>1, <2>0, <2>2, <3>1 DEF NextRow, Earliest, TypeOK
    <3>. QED  BY <1>1, <2>0, <3>1, <3>2 DEF OrderInv
  <2>3. Land(k) => UNCHANGED cur
    BY DEF Land
  <2>4. ASSUME NEW m \in Rows, NEW rest \in SUBSET Rows, Succeed(k, m, rest) \/ Fail(k, m, rest)
        PROVE  FALSE
    BY <1>1, <2>0, <2>4 DEF Succeed, Fail, Proceed, TypeOK
  <2>. QED  BY <1>1, <2>0, <2>1, <2>2, <2>3, <2>4, DeliveryEnds
<1>2. IInv /\ [Next]_vars =>
        [\A l \in Loops :
           (cur'[l] # cur[l] /\ cur'[l] # None) =>
             \A n \in Rows :
               (Home[n] = Home[cur'[l]] /\ stamp[n] > 0 /\ stamp[n] < stamp[cur'[l]])
                 => verdict[n] # "none" \/ faults[n] > 0]_vars
  BY <1>1
<1>. QED  BY <1>2, Invariance, PTL DEF Spec, NoOvertaking

-----------------------------------------------------------------------------
(* Refinement: every step of the polls is a step of Outbox, or a stutter.  *)

(* The first row of what is left of a snapshot is in its turn.             *)
LEMMA NextRowInTurn ==
  ASSUME IInv, NEW l \in Loops, NEW m \in Rows, NextRow(l, m)
  PROVE  m \in Box!Turn
<1>1. TypeOK /\ DrainInv(l) /\ OrderInv(l)
  BY DEF IInv
<1>2. stamp[m] > 0 /\ verdict[m] = "none" /\ m \in left[l] /\ cur[l] = None
  BY <1>1 DEF NextRow, Earliest, DrainInv
<1>3. ASSUME NEW n \in Rows, Home[n] = Home[m], stamp[n] > 0, stamp[n] < stamp[m]
      PROVE  verdict[n] # "none" \/ faults[n] > 0
  <2>1. n \notin left[l]
    BY <1>1, <1>3 DEF NextRow, Earliest, TypeOK
  <2>. QED  BY <1>1, <1>2, <1>3, <2>1 DEF OrderInv
<1>. QED  BY <1>2, <1>3 DEF Box!Turn

LEMMA CurrentInTurn ==
  ASSUME IInv, TurnInv, NEW l \in Loops, NEW m \in Rows, NEW rest \in SUBSET Rows,
         CurrentRow(l, m, rest)
  PROVE  m \in Box!Turn
<1>1. cur[l] # None <=> call[l] # "idle"
  BY DEF IInv, DrainInv
<1>. QED  BY <1>1, NextRowInTurn DEF CurrentRow, TurnInv

(* What no step of anyone takes back: the second a row was written in, its *)
(* verdict, its faults; and a row written now is later than none before.   *)
Forward ==
  \A n \in Rows :
    /\ stamp'[n] = stamp[n] \/ (stamp[n] = 0 /\ stamp'[n] = clock)
    /\ verdict[n] # "none" => verdict'[n] # "none"
    /\ faults[n] > 0 => faults'[n] > 0

LEMMA TurnLasts ==
  ASSUME IInv, Forward, NEW m \in Box!Turn, verdict'[m] = "none"
  PROVE  m \in (Box!Turn)'
<1>1. m \in Rows /\ stamp[m] > 0 /\ stamp[m] \in Nat /\ clock \in Nat /\ stamp[m] <= clock
  BY DEF Box!Turn, IInv, TypeOK, HistoryInv
<1>2. stamp'[m] = stamp[m]
  BY <1>1 DEF Forward
<1>3. ASSUME NEW n \in Rows, Home[n] = Home[m], stamp'[n] > 0, stamp'[n] < stamp'[m]
      PROVE  verdict'[n] # "none" \/ faults'[n] > 0
  <2>1. stamp'[n] # clock \/ stamp'[n] = stamp[n]
    BY <1>1, <1>2, <1>3
  <2>2. stamp'[n] = stamp[n]
    BY <2>1 DEF Forward
  <2>3. verdict[n] # "none" \/ faults[n] > 0
    BY <1>2, <1>3, <2>2 DEF Box!Turn
  <2>. QED  BY <2>3 DEF Forward
<1>. QED  BY <1>1, <1>2, <1>3 DEF Box!Turn

(* Each end of a delivery is Settle or Fault of the abstract outbox.       *)
LEMMA SucceedRefines ==
  ASSUME IInv, TurnInv, NEW l \in Loops, NEW m \in Rows, NEW rest \in SUBSET Rows,
         CurrentRow(l, m, rest), Succeed(l, m, rest)
  PROVE  Box!Settle(m) /\ Forward
<1>1. m \in Box!Turn /\ verdict[m] = "none"
  BY CurrentInTurn DEF Box!Turn
<1>2. verdict' = [verdict EXCEPT ![m] = "delivered"] /\ UNCHANGED <<clock, stamp, landed, faults>>
  BY <1>1 DEF Succeed, Record
<1>3. verdict \in [Rows -> {"none", "delivered", "failed"}]
  BY DEF IInv, TypeOK
<1>. QED  BY <1>1, <1>2, <1>3 DEF Box!Settle, Forward

LEMMA FailRefines ==
  ASSUME IInv, TurnInv, NEW l \in Loops, NEW m \in Rows, NEW rest \in SUBSET Rows,
         CurrentRow(l, m, rest), Fail(l, m, rest)
  PROVE  Box!Fault(m) /\ Forward
<1>1. m \in Box!Turn /\ verdict[m] = "none"
  BY CurrentInTurn DEF Box!Turn
<1>2. /\ faults' = [faults EXCEPT ![m] = @ + 1] /\ UNCHANGED <<clock, stamp, landed>>
      /\ \/ UNCHANGED verdict
         \/ attempts[m] + 1 >= MaxAttempts /\ verdict' = [verdict EXCEPT ![m] = "failed"]
  BY <1>1 DEF Fail, Record
<1>3. /\ verdict \in [Rows -> {"none", "delivered", "failed"}]
      /\ faults \in [Rows -> Nat] /\ attempts[m] \in Nat /\ attempts[m] <= faults[m]
  BY DEF IInv, TypeOK, HistoryInv
<1>4. attempts[m] + 1 >= MaxAttempts => faults'[m] >= MaxAttempts
  BY <1>2, <1>3
<1>5. Box!Fault(m)
  BY <1>1, <1>2, <1>4 DEF Box!Fault
<1>6. Forward
  BY <1>2, <1>3 DEF Forward
<1>. QED  BY <1>5, <1>6

(* The effect of a row in its turn, which no call before has left open.    *)
LEMMA LandRefines ==
  ASSUME IInv, TurnInv, NEW l \in Loops, Land(l)
  PROVE  cur[l] \in Rows /\ Box!Land(cur[l]) /\ Forward
<1>0. /\ TypeOK /\ Exclusive
      /\ \A k \in Loops : DrainInv(k)
      /\ \A n \in Rows : HistoryInv(n)
  BY DEF IInv
<1>1. cur[l] \in Rows /\ cur[l] # None /\ visiting[l] # None /\ call[l] = "calling"
  BY <1>0 DEF Land, DrainInv, TypeOK
<1>2. \A k \in Loops : k # l => cur[k] # cur[l]
  BY <1>0, <1>1 DEF Exclusive, DrainInv
<1>3. ~ InCall(cur[l]) /\ verdict[cur[l]] = "none"
  BY <1>0, <1>1, <1>2 DEF InCall, DrainInv
<1>4. landed[cur[l]] <= faults[cur[l]]
  BY <1>0, <1>1, <1>3 DEF HistoryInv
<1>5. cur[l] \in Box!Turn
  BY <1>1 DEF TurnInv
<1>6. Box!Land(cur[l])
  BY <1>4, <1>5 DEF Land, Box!Land, tables
<1>7. Forward
  BY DEF Land, Forward, tables
<1>. QED  BY <1>1, <1>6, <1>7

(* A crash cuts short what the two loops were delivering.                  *)
LEMMA CrashRefines ==
  ASSUME IInv, TurnInv, HostCrash
  PROVE  (\E S \in SUBSET Rows : Box!Crash(S)) /\ Forward
<1>. DEFINE S == {m \in Rows : m \in {cur[l] : l \in Loops}}
<1>0. TypeOK /\ Exclusive /\ \A k \in Loops : DrainInv(k)
  BY DEF IInv
<1>1. ASSUME NEW m \in S
      PROVE  m \in Box!Turn
  <2>1. PICK l \in Loops : cur[l] = m
    OBVIOUS
  <2>2. m # None
    OBVIOUS
  <2>. QED  BY <2>1, <2>2 DEF TurnInv
<1>2. ASSUME NEW m \in S, NEW n \in S, Home[m] = Home[n]
      PROVE  m = n
  <2>1. PICK l \in Loops, k \in Loops : cur[l] = m /\ cur[k] = n
    OBVIOUS
  <2>2. m # None /\ n # None
    OBVIOUS
  <2>3. visiting[l] # None /\ visiting[l] = visiting[k]
    BY <1>0, <1>2, <2>1, <2>2 DEF DrainInv
  <2>4. l = k
    BY <1>0, <2>3 DEF Exclusive
  <2>. QED  BY <2>1, <2>4
<1>3. /\ faults' = [m \in Rows |-> IF m \in S THEN faults[m] + 1 ELSE faults[m]]
      /\ UNCHANGED <<clock, stamp, verdict, landed>>
  BY DEF HostCrash, tables
<1>4. S \in SUBSET Rows
  OBVIOUS
<1>. HIDE DEF S
<1>5. Box!Crash(S)
  BY <1>1, <1>2, <1>3 DEF Box!Crash
<1>6. Forward
  BY <1>0, <1>3 DEF Forward, TypeOK
<1>. QED  BY <1>4, <1>5, <1>6

(* Writing, time and the rounds.                                           *)
LEMMA WriteRefines ==
  ASSUME IInv, NEW m \in Rows, Write(m)
  PROVE  Box!Write(m) /\ Forward
<1>1. stamp \in [Rows -> Nat]
  BY DEF IInv, TypeOK
<1>. QED  BY <1>1 DEF Write, Box!Write, Forward

LEMMA TickRefines ==
  ASSUME Tick
  PROVE  Box!Tick /\ Forward
BY DEF Tick, Box!Tick, Forward

(* A step of the rounds, and the start of a call, is invisible.            *)
LEMMA InvisibleSteps ==
  ASSUME \/ \E l \in Loops : StartRound(l) \/ AbortRound(l)
         \/ \E l \in Loops, s \in Sessions : Visit(l, s)
         \/ \E l \in Loops, m \in Rows : Send(l, m)
         \/ UNCHANGED vars
  PROVE  UNCHANGED Box!vars /\ Forward
<1>1. UNCHANGED <<clock, stamp, verdict, landed, faults>>
  BY DEF StartRound, AbortRound, Visit, Send, vars, tables
<1>. QED  BY <1>1 DEF Box!vars, Forward

LEMMA StepRefines ==
  ASSUME IInv, TurnInv, [Next]_vars
  PROVE  [Box!Next]_(Box!vars) /\ Forward
<1>0. TypeOK /\ \A k \in Loops : DrainInv(k)
  BY DEF IInv
<1>1. ASSUME NEW m \in Rows, Write(m)
      PROVE  Box!Next /\ Forward
  BY <1>1, WriteRefines DEF Box!Next
<1>2. CASE Tick
  BY <1>2, TickRefines DEF Box!Next
<1>3. ASSUME NEW l \in Loops, Deliver(l)
      PROVE  (Box!Next \/ UNCHANGED Box!vars) /\ Forward
  <2>1. ASSUME NEW m \in Rows, Send(l, m)
        PROVE  UNCHANGED Box!vars /\ Forward
    BY <2>1, InvisibleSteps
  <2>2. CASE Land(l)
    BY <2>2, LandRefines DEF Box!Next
  <2>3. ASSUME NEW m \in Rows, NEW rest \in SUBSET Rows, CurrentRow(l, m, rest), Succeed(l, m, rest)
        PROVE  Box!Next /\ Forward
    BY <2>3, SucceedRefines DEF Box!Next
  <2>4. ASSUME NEW m \in Rows, NEW rest \in SUBSET Rows, CurrentRow(l, m, rest), Fail(l, m, rest)
        PROVE  Box!Next /\ Forward
    BY <2>4, FailRefines DEF Box!Next
  <2>. QED  BY <1>0, <1>3, <2>1, <2>2, <2>3, <2>4, DeliveryEnds
<1>4. CASE HostCrash
  BY <1>4, CrashRefines DEF Box!Next
<1>. QED  BY <1>1, <1>2, <1>3, <1>4, InvisibleSteps DEF Next

(* A delivery starts with a row in its turn and keeps it there.            *)
LEMMA TurnStep ==
  ASSUME IInv, IInv', TurnInv, Forward, [Next]_vars
  PROVE  TurnInv'
<1>0. TypeOK /\ TypeOK' /\ \A k \in Loops : DrainInv(k) /\ DrainInv(k)'
  BY DEF IInv
<1>. SUFFICES ASSUME NEW l \in Loops, cur'[l] # None
              PROVE  cur'[l] \in (Box!Turn)'
  BY DEF TurnInv
<1>1. verdict'[cur'[l]] = "none"
  BY <1>0 DEF DrainInv
<1>2. cur'[l] \in Box!Turn
  <2>1. CASE cur'[l] = cur[l]
    BY <2>1 DEF TurnInv
  <2>2. ASSUME NEW k \in Loops, Deliver(k)
        PROVE  cur'[l] \in Box!Turn
    <3>1. ASSUME NEW m \in Rows, NextRow(k, m), Send(k, m)
          PROVE  cur'[l] \in Box!Turn
      <4>1. cur' = [cur EXCEPT ![k] = m] /\ m \in Box!Turn
        BY <3>1, NextRowInTurn DEF Send
      <4>. QED  BY <1>0, <2>1, <4>1 DEF TypeOK
    <3>2. CASE Land(k)
      BY <2>1, <3>2 DEF Land
    <3>3. ASSUME NEW m \in Rows, NEW rest \in SUBSET Rows, Succeed(k, m, rest) \/ Fail(k, m, rest)
          PROVE  cur'[l] \in Box!Turn
      <4>1. cur' = [cur EXCEPT ![k] = None]
        BY <3>3 DEF Succeed, Fail, Proceed
      <4>. QED  BY <1>0, <2>1, <4>1 DEF TypeOK
    <3>. QED  BY <1>0, <2>2, <3>1, <3>2, <3>3, DeliveryEnds
  <2>3. UNCHANGED cur \/ HostCrash \/ \E k \in Loops : Deliver(k)
    BY DEF Next, Write, Tick, StartRound, AbortRound, Visit, drains, vars
  <2>4. HostCrash => cur'[l] = None
    BY DEF HostCrash
  <2>. QED  BY <2>1, <2>2, <2>3, <2>4
<1>. QED  BY <1>1, <1>2, TurnLasts

(* Two interleaved polls, an in-memory guard and in-memory counters        *)
(* implement the abstract outbox: rows in their turn, one effect per cut   *)
(* attempt and one more, failure only for a row's own faults.              *)
THEOREM DeliveryImplementsOutbox == Spec => ImplementsOutbox
<1>1. Init => Box!Init /\ TurnInv
  BY DEF Init, Box!Init, TurnInv
<1>2. IInv /\ IInv' /\ TurnInv /\ [Next]_vars => TurnInv' /\ [Box!Next]_(Box!vars)
  BY StepRefines, TurnStep
<1>. QED  BY <1>1, <1>2, Invariance, PTL DEF Spec, ImplementsOutbox, Box!Spec
=============================================================================
