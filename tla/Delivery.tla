------------------------------ MODULE Delivery ------------------------------
(***************************************************************************)
(* Outbound delivery: the host reads rows the containers wrote to their    *)
(* outbound.db, hands each to the outside world (a channel adapter, the    *)
(* handler of a system action, another agent's session) and records the    *)
(* verdict in the "delivered" table of inbound.db.                         *)
(*                                                                         *)
(* Two timer chains drain sessions: the active poll (running sessions) and *)
(* the sweep poll (all of them). Each visits its sessions one by one and   *)
(* awaits every delivery, so the two interleave at those awaits and only   *)
(* the in-flight guard keeps them off the same session.                    *)
(***************************************************************************)
EXTENDS Naturals, FiniteSets

CONSTANTS
  Sessions,
  Rows,          \* ids of messages_out rows
  Home,          \* the session whose outbound.db holds a row
  MaxAttempts,   \* MAX_DELIVERY_ATTEMPTS
  MaxCrashes,    \* bound on host crashes
  MaxClock,      \* bound on the seconds that pass while rows are written
  None           \* no session, no row

ASSUME DeliveryAssumption ==
  /\ Home \in [Rows -> Sessions]
  /\ MaxAttempts \in Nat \ {0}
  /\ MaxCrashes \in Nat
  /\ MaxClock \in Nat \ {0}
  /\ None \notin Sessions \union Rows

Loops == {"active", "sweep"}

VARIABLES
  clock,      \* the current second
  stamp,      \* messages_out.timestamp, 0 while the row is not written
  verdict,    \* the delivered table: none, delivered, failed
  attempts,   \* deliveryAttempts (memory)
  inflight,   \* inflightDeliveries (memory)
  visiting,   \* the session each loop is draining
  todo,       \* sessions left in each loop's round
  left,       \* rows left of the snapshot each drain works through
  cur,        \* the row each drain is delivering
  call,       \* idle, calling, or landed: the effect took place, the await has not returned
  landed,     \* history: how often a row's effect took place
  faults,     \* history: deliveries that threw or that a crash cut short
  crashes

tables   == <<clock, stamp, verdict>>
rounds   == <<inflight, visiting, todo>>
drains   == <<left, cur, call>>
vars     == <<tables, attempts, rounds, drains, landed, faults, crashes>>

Init ==
  /\ clock = 1
  /\ stamp = [m \in Rows |-> 0]
  /\ verdict = [m \in Rows |-> "none"]
  /\ attempts = [m \in Rows |-> 0]
  /\ inflight = {}
  /\ visiting = [l \in Loops |-> None]
  /\ todo = [l \in Loops |-> {}]
  /\ left = [l \in Loops |-> {}]
  /\ cur = [l \in Loops |-> None]
  /\ call = [l \in Loops |-> "idle"]
  /\ landed = [m \in Rows |-> 0]
  /\ faults = [m \in Rows |-> 0]
  /\ crashes = 0

-----------------------------------------------------------------------------
(* The containers.                                                         *)

(* writeMessageOut: timestamps have a resolution of one second.            *)
Write(m) ==
  /\ stamp[m] = 0
  /\ stamp' = [stamp EXCEPT ![m] = clock]
  /\ UNCHANGED <<clock, verdict, attempts, rounds, drains, landed, faults, crashes>>

Tick ==
  /\ clock < MaxClock
  /\ clock' = clock + 1
  /\ UNCHANGED <<stamp, verdict, attempts, rounds, drains, landed, faults, crashes>>

-----------------------------------------------------------------------------
(* The rounds of the two polls.                                            *)

(* The sweep lists every active session; which of them are running when    *)
(* the active poll looks is up to their containers.                        *)
StartRound(l) ==
  /\ visiting[l] = None /\ todo[l] = {}
  /\ \E S \in SUBSET Sessions \ {{}} :
       /\ l = "sweep" => S = Sessions
       /\ todo' = [todo EXCEPT ![l] = S]
  /\ UNCHANGED <<tables, attempts, inflight, visiting, drains, landed, faults, crashes>>

Undelivered(s) == {m \in Rows : Home[m] = s /\ stamp[m] > 0 /\ verdict[m] = "none"}

(* A deliberate fault: no in-flight guard.                                 *)
VisitUnguarded(l, s) ==
  /\ visiting[l] = None /\ s \in todo[l]
  /\ todo' = [todo EXCEPT ![l] = @ \ {s}]
  /\ IF Undelivered(s) = {}
       THEN UNCHANGED <<inflight, visiting, left>>
       ELSE /\ inflight' = inflight \union {s}
            /\ visiting' = [visiting EXCEPT ![l] = s]
            /\ left' = [left EXCEPT ![l] = Undelivered(s)]
  /\ UNCHANGED <<tables, attempts, cur, call, landed, faults, crashes>>

(* deliverSessionMessages: re-entry is refused; otherwise drainSession     *)
(* takes its snapshot, and with nothing to deliver it is over at once.     *)
Visit(l, s) ==
  /\ visiting[l] = None /\ s \in todo[l]
  /\ todo' = [todo EXCEPT ![l] = @ \ {s}]
  /\ IF s \in inflight \/ Undelivered(s) = {}
       THEN UNCHANGED <<inflight, visiting, left>>
       ELSE /\ inflight' = inflight \union {s}
            /\ visiting' = [visiting EXCEPT ![l] = s]
            /\ left' = [left EXCEPT ![l] = Undelivered(s)]
  /\ UNCHANGED <<tables, attempts, cur, call, landed, faults, crashes>>

(* Reading a session's databases throws: the guard is released and the     *)
(* rest of the round is abandoned.                                         *)
AbortRound(l) ==
  /\ visiting[l] = None
  /\ todo[l] \ inflight # {}
  /\ todo' = [todo EXCEPT ![l] = {}]
  /\ UNCHANGED <<tables, attempts, inflight, visiting, drains, landed, faults, crashes>>

-----------------------------------------------------------------------------
(* One delivery.                                                           *)

(* A deliberate fault: the snapshot is not sorted.                         *)
EarliestUnsorted(S) == S

(* ORDER BY timestamp: rows of the same second come in any order.          *)
Earliest(S) == {m \in S : \A n \in S : stamp[m] <= stamp[n]}

(* A deliberate fault: the guard is kept when a drain ends.                *)
ProceedKeepsGuard(l, rest) ==
  /\ left' = [left EXCEPT ![l] = rest]
  /\ cur' = [cur EXCEPT ![l] = None]
  /\ call' = [call EXCEPT ![l] = "idle"]
  /\ visiting' = IF rest = {} THEN [visiting EXCEPT ![l] = None] ELSE visiting
  /\ UNCHANGED inflight

(* The drain goes on, or ends and releases the guard.                      *)
Proceed(l, rest) ==
  /\ left' = [left EXCEPT ![l] = rest]
  /\ cur' = [cur EXCEPT ![l] = None]
  /\ call' = [call EXCEPT ![l] = "idle"]
  /\ IF rest = {}
       THEN /\ inflight' = inflight \ {visiting[l]}
            /\ visiting' = [visiting EXCEPT ![l] = None]
       ELSE UNCHANGED <<inflight, visiting>>

(* INSERT OR IGNORE INTO delivered.                                        *)
Record(m, v) ==
  verdict' = [verdict EXCEPT ![m] = IF @ = "none" THEN v ELSE @]

Succeed(l, m, rest) ==
  /\ Record(m, "delivered")
  /\ attempts' = [attempts EXCEPT ![m] = 0]
  /\ Proceed(l, rest)
  /\ UNCHANGED <<clock, stamp, todo, landed, faults, crashes>>

(* A deliberate fault: failures are counted per session.                   *)
FailPerSession(l, m, rest) ==
  LET bumped == [n \in Rows |-> IF Home[n] = Home[m] THEN attempts[n] + 1 ELSE attempts[n]] IN
  /\ faults' = [faults EXCEPT ![m] = @ + 1]
  /\ IF bumped[m] >= MaxAttempts
       THEN /\ Record(m, "failed")
            /\ attempts' = [bumped EXCEPT ![m] = 0]
       ELSE /\ attempts' = bumped
            /\ UNCHANGED verdict
  /\ Proceed(l, rest)
  /\ UNCHANGED <<clock, stamp, todo, landed, crashes>>

(* A delivery threw: it is retried on a later tick, MaxAttempts times.     *)
Fail(l, m, rest) ==
  /\ faults' = [faults EXCEPT ![m] = @ + 1]
  /\ IF attempts[m] + 1 >= MaxAttempts
       THEN /\ Record(m, "failed")
            /\ attempts' = [attempts EXCEPT ![m] = 0]
       ELSE /\ attempts' = [attempts EXCEPT ![m] = @ + 1]
            /\ UNCHANGED verdict
  /\ Proceed(l, rest)
  /\ UNCHANGED <<clock, stamp, todo, landed, crashes>>

NextRow(l, m) == visiting[l] # None /\ cur[l] = None /\ m \in Earliest(left[l])

(* deliverMessage throws before any effect: an unknown or unauthorized     *)
(* destination, content that does not parse, an action handler's refusal.  *)
Refuse(l, m) == NextRow(l, m) /\ Fail(l, m, left[l] \ {m})

(* deliverMessage returns without any effect, and the row counts as        *)
(* delivered: no adapter for the channel, no routing fields, no handler    *)
(* for the action.                                                         *)
Drop(l, m) == NextRow(l, m) /\ Succeed(l, m, left[l] \ {m})

Send(l, m) ==
  /\ NextRow(l, m)
  /\ left' = [left EXCEPT ![l] = @ \ {m}]
  /\ cur' = [cur EXCEPT ![l] = m]
  /\ call' = [call EXCEPT ![l] = "calling"]
  /\ UNCHANGED <<tables, attempts, rounds, landed, faults, crashes>>

Land(l) ==
  /\ call[l] = "calling"
  /\ call' = [call EXCEPT ![l] = "landed"]
  /\ landed' = [landed EXCEPT ![cur[l]] = @ + 1]
  /\ UNCHANGED <<tables, attempts, rounds, left, cur, faults, crashes>>

Return(l) == call[l] = "landed" /\ Succeed(l, cur[l], left[l])

(* The adapter throws, before the effect or after it (a lost reply).       *)
Throw(l) == call[l] # "idle" /\ Fail(l, cur[l], left[l])

-----------------------------------------------------------------------------
(* The host process dies: the guard, the counters and the drains are gone. *)
HostCrash ==
  /\ crashes < MaxCrashes
  /\ crashes' = crashes + 1
  /\ attempts' = [m \in Rows |-> 0]
  /\ inflight' = {}
  /\ visiting' = [l \in Loops |-> None]
  /\ todo' = [l \in Loops |-> {}]
  /\ left' = [l \in Loops |-> {}]
  /\ cur' = [l \in Loops |-> None]
  /\ call' = [l \in Loops |-> "idle"]
  /\ faults' = [m \in Rows |-> IF m \in {cur[l] : l \in Loops} THEN faults[m] + 1 ELSE faults[m]]
  /\ UNCHANGED <<tables, landed>>

Deliver(l) ==
  \/ \E m \in Rows : Refuse(l, m) \/ Drop(l, m) \/ Send(l, m)
  \/ Land(l) \/ Return(l) \/ Throw(l)

Next ==
  \/ \E m \in Rows : Write(m)
  \/ Tick
  \/ \E l \in Loops : StartRound(l) \/ AbortRound(l)
  \/ \E l \in Loops, s \in Sessions : Visit(l, s)
  \/ \E l \in Loops : Deliver(l)
  \/ HostCrash

Spec == Init /\ [][Next]_vars

(* The timers keep firing and every adapter call returns or throws in the  *)
(* end; nothing forces containers to write, databases to fail or the host  *)
(* to crash.                                                               *)
Fairness ==
  /\ WF_vars(StartRound("sweep"))
  /\ \A l \in Loops : WF_vars(Deliver(l))
  /\ WF_vars(\E s \in Sessions : Visit("sweep", s))

FairSpec == Spec /\ Fairness

-----------------------------------------------------------------------------
TypeOK ==
  /\ clock \in Nat
  /\ stamp \in [Rows -> Nat]
  /\ verdict \in [Rows -> {"none", "delivered", "failed"}]
  /\ attempts \in [Rows -> 0..(MaxAttempts - 1)]
  /\ inflight \subseteq Sessions
  /\ visiting \in [Loops -> Sessions \union {None}]
  /\ todo \in [Loops -> SUBSET Sessions]
  /\ left \in [Loops -> SUBSET Rows]
  /\ cur \in [Loops -> Rows \union {None}]
  /\ call \in [Loops -> {"idle", "calling", "landed"}]
  /\ landed \in [Rows -> Nat]
  /\ faults \in [Rows -> Nat]
  /\ crashes \in 0..MaxCrashes

(* A row takes effect twice only if a delivery of it threw or was cut off  *)
(* by a crash: the polls never deliver the same row side by side, and a    *)
(* delivered row is never sent again.                                      *)
SentOncePerFault == \A m \in Rows : landed[m] <= 1 + faults[m]

(* A row is given up on only after MaxAttempts deliveries of that row      *)
(* failed; the failures of its neighbours do not count.                    *)
FailedMeansTried == \A m \in Rows : verdict[m] = "failed" => faults[m] >= MaxAttempts

(* A session's rows are sent in the order of their seconds: none overtakes *)
(* an earlier one unless a delivery of the earlier one failed first.       *)
NoOvertaking ==
  [][\A l \in Loops :
       (cur'[l] # cur[l] /\ cur'[l] # None) =>
         \A n \in Rows :
           (Home[n] = Home[cur'[l]] /\ stamp[n] > 0 /\ stamp[n] < stamp[cur'[l]])
             => verdict[n] # "none" \/ faults[n] > 0]_vars

(* Two loops, a guard in memory and counters in memory that a crash clears *)
(* together behave like an outbox that attempts rows in turn, lets an      *)
(* effect happen once more than it was cut short, and gives up on a row    *)
(* for its own failures only.                                              *)
Box == INSTANCE Outbox WITH Attempts <- MaxAttempts

ImplementsOutbox == Box!Spec

-----------------------------------------------------------------------------
(* The inductive invariant behind the safety properties.                   *)

(* A drain holds the guard of its session and works on unsettled rows of   *)
(* that session; it is past the guard alone.                               *)
DrainInv(l) ==
  /\ visiting[l] = None => left[l] = {} /\ cur[l] = None
  /\ visiting[l] # None => visiting[l] \in inflight
  /\ cur[l] = None <=> call[l] = "idle"
  /\ \A m \in left[l] : Home[m] = visiting[l] /\ stamp[m] > 0 /\ verdict[m] = "none" /\ cur[l] # m
  /\ cur[l] # None => Home[cur[l]] = visiting[l] /\ stamp[cur[l]] > 0 /\ verdict[cur[l]] = "none"

Exclusive ==
  \A l, k \in Loops : l # k /\ visiting[l] # None => visiting[l] # visiting[k]

(* An effect is paid for by a fault, by the verdict, or by the call that   *)
(* has not returned yet.                                                   *)
InCall(m) == \E l \in Loops : cur[l] = m /\ call[l] = "landed"
HistoryInv(m) ==
  /\ attempts[m] <= faults[m]
  /\ verdict[m] = "failed" => faults[m] >= MaxAttempts
  /\ landed[m] <= faults[m] + 1
  /\ verdict[m] = "none" /\ ~ InCall(m) => landed[m] <= faults[m]
  /\ stamp[m] <= clock

(* What a drain has passed over it has tried.                              *)
OrderInv(l) ==
  \A m \in left[l], n \in Rows :
    (Home[n] = Home[m] /\ stamp[n] > 0 /\ stamp[n] < stamp[m] /\ n \notin left[l])
      => verdict[n] # "none" \/ faults[n] > 0 \/ cur[l] = n

IInv ==
  /\ TypeOK
  /\ \A l \in Loops : DrainInv(l) /\ OrderInv(l)
  /\ Exclusive
  /\ \A m \in Rows : HistoryInv(m)

(* A row under delivery stays in its turn until the delivery is over.      *)
TurnInv == \A l \in Loops : cur[l] # None => cur[l] \in Box!Turn

-----------------------------------------------------------------------------
(* Every written row gets its verdict, whatever fails before it in its own *)
(* session and although a session in flight is skipped, as long as the     *)
(* databases can be read in the end.                                       *)
EveryRowGetsVerdict ==
  <>[][\A l \in Loops : ~ AbortRound(l)]_vars
    => \A m \in Rows : (stamp[m] > 0) ~> (verdict[m] # "none")

-----------------------------------------------------------------------------
(* delivery.ts, permission check: a row is not marked delivered when       *)
(* nothing was delivered.                                                  *)
DeliveredWasSent == \A m \in Rows : verdict[m] = "delivered" => landed[m] > 0
=============================================================================
