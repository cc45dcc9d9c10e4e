------------------------ MODULE ProviderQueryProofs ------------------------
(***************************************************************************)
(* Proofs about ProviderQuery, for every number and kind of rows, every    *)
(* size of the buffer and any number of crashes.                           *)
(***************************************************************************)
EXTENDS ProviderQuery, TLAPS

USE ProviderAssumption

\* All rows in a sequence of prompts.
Pushed(q) == UNION {q[k] : k \in DOMAIN q}

LEMMA PushedNone == Pushed(<<>>) = {} /\ <<>> \in Seq(SUBSET Rows)
BY DEF Pushed

LEMMA PushedOne ==
  ASSUME NEW S \in SUBSET Rows
  PROVE  Pushed(<<S>>) = S /\ <<S>> \in Seq(SUBSET Rows)
<1>1. DOMAIN <<S>> = {1} /\ <<S>>[1] = S
  OBVIOUS
<1>. QED  BY <1>1 DEF Pushed

LEMMA PushedAppend ==
  ASSUME NEW q \in Seq(SUBSET Rows), NEW S \in SUBSET Rows
  PROVE  Pushed(Append(q, S)) = Pushed(q) \cup S /\ Append(q, S) \in Seq(SUBSET Rows)
<1>. DEFINE p == Append(q, S)
<1>1. /\ p \in Seq(SUBSET Rows) /\ DOMAIN p = DOMAIN q \cup {Len(q) + 1}
      /\ \A k \in DOMAIN q : p[k] = q[k]
      /\ p[Len(q) + 1] = S
  OBVIOUS
<1>. QED  BY <1>1 DEF Pushed

LEMMA PushedHead ==
  ASSUME NEW q \in Seq(SUBSET Rows), q # <<>>
  PROVE  /\ Pushed(q) = Head(q) \cup Pushed(Tail(q))
         /\ Head(q) \in SUBSET Rows /\ Tail(q) \in Seq(SUBSET Rows)
<1>1. /\ Len(q) \in Nat \ {0} /\ DOMAIN q = 1..Len(q) /\ Head(q) = q[1]
      /\ Tail(q) \in Seq(SUBSET Rows) /\ DOMAIN Tail(q) = 1..(Len(q) - 1)
      /\ \A k \in 1..(Len(q) - 1) : Tail(q)[k] = q[k + 1]
      /\ Head(q) \in SUBSET Rows
  OBVIOUS
<1>2. \A k \in 1..Len(q) : k = 1 \/ k - 1 \in 1..(Len(q) - 1)
  BY <1>1
<1>3. Pushed(q) \subseteq Head(q) \cup Pushed(Tail(q))
  <2>1. SUFFICES ASSUME NEW k \in DOMAIN q, NEW x \in q[k] PROVE x \in Head(q) \cup Pushed(Tail(q))
    BY DEF Pushed
  <2>2. CASE k = 1
    BY <1>1, <2>1, <2>2
  <2>3. CASE k # 1
    <3>1. k - 1 \in DOMAIN Tail(q) /\ Tail(q)[k - 1] = q[k]
      BY <1>1, <1>2, <2>1, <2>3
    <3>. QED  BY <2>1, <3>1 DEF Pushed
  <2>. QED  BY <2>2, <2>3
<1>4. Head(q) \cup Pushed(Tail(q)) \subseteq Pushed(q)
  <2>1. Head(q) \subseteq Pushed(q)
    BY <1>1 DEF Pushed
  <2>2. SUFFICES ASSUME NEW k \in DOMAIN Tail(q), NEW x \in Tail(q)[k] PROVE x \in Pushed(q)
    BY <2>1 DEF Pushed
  <2>3. k + 1 \in DOMAIN q /\ q[k + 1] = Tail(q)[k]
    BY <1>1, <2>2
  <2>. QED  BY <2>2, <2>3 DEF Pushed
<1>. QED  BY <1>1, <1>3, <1>4

LEMMA PushedRows ==
  ASSUME NEW q \in Seq(SUBSET Rows)
  PROVE  Pushed(q) \subseteq Rows
BY DEF Pushed

-----------------------------------------------------------------------------
(* Type correctness.                                                       *)

\* What a row set may be, and the ids that Session and Issue give.
LEMMA DueRows == TypeOK => Due \in SUBSET Rows
BY DEF TypeOK, Due, Rows

LEMMA MarkTypes ==
  ASSUME TypeOK, NEW S, NEW s \in {"pending", "processing", "completed"}, Mark(S, s)
  PROVE  status' \in [Rows -> {"pending", "processing", "completed"}]
BY DEF TypeOK, Mark

LEMMA IssueTypes ==
  ASSUME issued \in Nat, sid \in 0..issued, Issue
  PROVE  /\ issued' \in Nat /\ issued' >= issued
         /\ Session \in 1..issued' /\ sid' = Session
         /\ sid # None => issued' = issued
BY DEF Issue, Session, None

LEMMA PushTypes ==
  ASSUME TypeOK, NEW S \in SUBSET Rows, Push(S)
  PROVE  /\ queue' \in Seq(SUBSET Rows)
         /\ forfeited' \subseteq Rows
BY PushedAppend DEF TypeOK, Push, Forfeit

LEMMA WaitingRows == TypeOK => Waiting \subseteq Rows
<1>1. Waiting = prompt \cup Pushed(queue)
  BY DEF Waiting, Pushed
<1>. QED  BY <1>1, PushedRows DEF TypeOK

\* issued is a number, which TypeOK leaves to the bounds it gives others.
Typed == TypeOK /\ issued \in Nat

LEMMA TypeInit == Init => Typed
BY DEF Init, Typed, TypeOK, None, Closed, Rows

LEMMA TypeStep == Typed /\ [Next]_vars => Typed'
<1>. SUFFICES ASSUME Typed, [Next]_vars PROVE Typed'
  OBVIOUS
<1>. USE DEF Typed
<1>1. CASE Arrive
  BY <1>1 DEF Arrive, TypeOK, loop, query, hist
<1>2. CASE Boot
  <2>1. status' \in [Rows -> {"pending", "processing", "completed"}]
    BY <1>2, MarkTypes DEF Boot
  <2>. QED  BY <1>2, <2>1 DEF Boot, TypeOK, query, hist
<1>3. CASE ClearRotated
  BY <1>3 DEF ClearRotated, TypeOK, None, query, hist
<1>4. CASE Poll
  <2>. DEFINE rest == Due \ {r \in Due : kind[r] = "clear"}
  <2>1. rest \in SUBSET Rows
    BY DueRows
  <2>2. status' \in [Rows -> {"pending", "processing", "completed"}]
    BY <1>4 DEF Poll, TypeOK
  <2>3. continuation' \in 0..issued /\ stored' \in 0..issued
    BY <1>4 DEF Poll, TypeOK, RunClear, ClearBoth, None
  <2>4. /\ pc' \in {"idle", "query"} /\ batch' \subseteq Rows
        /\ gen' \in {"none", "spawn", "init", "submit", "turn", "boundary"} \cup Closed
        /\ queue' \in Seq(SUBSET Rows) /\ prompt' \subseteq Rows /\ sid' \in 0..issued
    <3>1. CASE rest = {}
      BY <1>4, <3>1 DEF Poll, TypeOK, query
    <3>2. CASE rest # {}
      <4>1. pc' = "query" /\ batch' = rest /\ OpenQuery(rest)
        BY <1>4, <3>2 DEF Poll
      <4>2. <<rest>> \in Seq(SUBSET Rows) /\ <<>> \in Seq(SUBSET Rows)
        BY <2>1, PushedOne
      <4>. QED  BY <2>1, <2>3, <4>1, <4>2 DEF OpenQuery
    <3>. QED  BY <3>1, <3>2
  <2>. QED  BY <1>4, <2>2, <2>3, <2>4 DEF Poll, TypeOK, hist
<1>5. CASE EndForCommand
  <2>1. Pushed(queue) \subseteq Rows
    BY PushedRows DEF TypeOK
  <2>0. queue' \in {<<>>, queue} /\ forfeited' \in {forfeited, forfeited \cup (Pushed(queue) \ taken)}
    BY <1>5 DEF EndForCommand, End, Forfeit, Pushed
  <2>2. queue' \in Seq(SUBSET Rows) /\ forfeited' \subseteq Rows
    <3>1. queue' \in Seq(SUBSET Rows)
      BY <2>0, PushedNone DEF TypeOK
    <3>2. forfeited \subseteq Rows
      BY DEF TypeOK
    <3>. QED  BY <2>0, <2>1, <3>1, <3>2
  <2>. QED  BY <1>5, <2>2 DEF EndForCommand, TypeOK, tables
<1>6. CASE FollowClaim
  <2>1. status' \in [Rows -> {"pending", "processing", "completed"}]
    BY <1>6, MarkTypes DEF FollowClaim
  <2>. QED  BY <1>6, <2>1, DueRows DEF FollowClaim, TypeOK, query, hist
<1>7. CASE FollowPush
  <2>1. status' \in [Rows -> {"pending", "processing", "completed"}]
    BY <1>7, MarkTypes DEF FollowPush
  <2>2. queue' \in Seq(SUBSET Rows) /\ forfeited' \subseteq Rows
    BY <1>7, PushTypes DEF FollowPush, TypeOK
  <2>. QED  BY <1>7, <2>1, <2>2 DEF FollowPush, TypeOK
<1>8. CASE Spawn
  <2>1. issued' \in Nat /\ issued' >= issued /\ Session \in 1..issued' /\ sid' = Session
    BY <1>8, IssueTypes DEF Spawn, TypeOK
  <2>. QED  BY <1>8, <2>1 DEF Spawn, SameButQuery, TypeOK, loop
<1>9. CASE Submit
  BY <1>9 DEF Submit, SameButQuery, TypeOK, loop
<1>10. CASE Take
  <2>1. issued' \in Nat /\ issued' >= issued /\ Session \in 1..issued' /\ sid' = Session
    BY <1>10, IssueTypes DEF Take, TypeOK
  <2>2. Head(queue) \in SUBSET Rows /\ Tail(queue) \in Seq(SUBSET Rows)
    BY <1>10, PushedHead DEF Take, TypeOK
  <2>. QED  BY <1>10, <2>1, <2>2 DEF Take, SameButQuery, TypeOK, loop
<1>11. CASE SdkInit
  BY <1>11 DEF SdkInit, SameButQuery, TypeOK, loop
<1>12. CASE Result
  <2>1. status' \in [Rows -> {"pending", "processing", "completed"}]
    BY <1>12, MarkTypes DEF Result
  <2>2. queue' \in Seq(SUBSET Rows) /\ forfeited' \subseteq Rows
    BY <1>12, PushTypes DEF Result, TypeOK
  <2>. QED  BY <1>12, <2>1, <2>2 DEF Result, TypeOK
<1>13. CASE TurnEnds
  BY <1>13 DEF TurnEnds, SameButQuery, TypeOK, loop
<1>14. CASE Chain
  <2>1. Joined \subseteq Rows
    BY PushedRows DEF Joined, Pushed, TypeOK
  <2>2. /\ queue' \in {<<>>, queue} /\ prompt' \in {prompt, Joined}
        /\ gen' \in {"closed", "spawn"}
    BY <1>14 DEF Chain
  <2>3. queue' \in Seq(SUBSET Rows)
    BY <2>2, PushedNone DEF TypeOK
  <2>4. prompt' \subseteq Rows
    BY <2>1, <2>2 DEF TypeOK
  <2>. QED  BY <1>14, <2>2, <2>3, <2>4 DEF Chain, SameButQuery, TypeOK, Closed, loop
<1>15. CASE Drained
  BY <1>15 DEF Drained, SameButQuery, TypeOK, Closed, loop
<1>16. ASSUME NEW to \in Closed, Breaks(to), status' \in [Rows -> {"pending", "processing", "completed"}]
       PROVE  Typed'
  BY <1>16, WaitingRows DEF Breaks, Forfeit, TypeOK, loop
<1>17. CASE SpawnFails \/ EngineFails \/ SdkThrows \/ SdkRefuses
  <2>1. status' \in [Rows -> {"pending", "processing", "completed"}]
    BY <1>17, MarkTypes DEF SpawnFails, EngineFails, SdkThrows, SdkRefuses, TypeOK
  <2>2. PICK to \in Closed : Breaks(to)
    BY <1>17 DEF SpawnFails, EngineFails, SdkThrows, SdkRefuses, Closed
  <2>. QED  BY <1>16, <2>1, <2>2
<1>18. CASE Finish
  <2>1. status' \in [Rows -> {"pending", "processing", "completed"}]
    BY <1>18, MarkTypes DEF Finish
  <2>2. continuation' \in 0..issued /\ stored' \in 0..issued
    <3>1. CASE gen = "closed"
      BY <1>18, <3>1 DEF Finish, TypeOK
    <3>2. CASE gen = "threw"
      BY <1>18, <3>2 DEF Finish, TypeOK
    <3>3. CASE gen = "refused"
      BY <1>18, <3>3 DEF Finish, ClearBoth, None, TypeOK
    <3>. QED  BY <1>18, <3>1, <3>2, <3>3 DEF Finish, Closed
  <2>. QED  BY <1>18, <2>1, <2>2 DEF Finish, TypeOK, None, hist
<1>19. CASE Crash
  <2>1. forfeited' \subseteq Rows
    BY <1>19, WaitingRows DEF Crash, Forfeit, TypeOK
  <2>. QED  BY <1>19, <2>1 DEF Crash, TypeOK, None, tables
<1>20. CASE UNCHANGED vars
  BY <1>20 DEF vars, tables, loop, query, hist, TypeOK
<1>. QED  BY <1>1, <1>2, <1>3, <1>4, <1>5, <1>6, <1>7, <1>8, <1>9, <1>10, <1>11, <1>12,
             <1>13, <1>14, <1>15, <1>17, <1>18, <1>19, <1>20 DEF Next

\* The tables, the loop and the query hold what they may hold, whatever
\* happens (the shapes that poll-loop.ts and both providers rely on).
THEOREM TypeCorrect == Spec => []TypeOK
<1>1. Spec => []Typed
  BY TypeInit, TypeStep, PTL DEF Spec
<1>2. Typed => TypeOK
  BY DEF Typed
<1>. QED  BY <1>1, <1>2, PTL

-----------------------------------------------------------------------------
(* Follow-ups.                                                             *)

\* Only these write processing_ack.
LEMMA StatusMoves ==
  ASSUME [Next]_vars, status' # status
  PROVE  Boot \/ Poll \/ FollowClaim \/ FollowPush \/ Result \/ EngineFails \/ Finish
<1>1. ~ Arrive /\ ~ ClearRotated /\ ~ EndForCommand /\ ~ Crash /\ ~ UNCHANGED vars
  BY DEF Arrive, ClearRotated, EndForCommand, Crash, vars, tables
<1>2. ~ Spawn /\ ~ Submit /\ ~ Take /\ ~ SdkInit /\ ~ TurnEnds /\ ~ Chain /\ ~ Drained
  BY DEF SameButQuery, Spawn, Submit, Take, SdkInit, TurnEnds, Chain, Drained
<1>3. ~ SpawnFails /\ ~ SdkThrows /\ ~ SdkRefuses
  BY DEF SpawnFails, SdkThrows, SdkRefuses
<1>. QED  BY <1>1, <1>2, <1>3 DEF Next

\* The kinds of the rows and the provider of the container do not change.
LEMMA Rigid == [Next]_vars => kind' = kind /\ provider' = provider
<1>. SUFFICES ASSUME [Next]_vars PROVE kind' = kind /\ provider' = provider
  OBVIOUS
<1>1. CASE Arrive \/ Boot \/ ClearRotated \/ Poll \/ UNCHANGED vars
  BY <1>1 DEF Arrive, Boot, ClearRotated, Poll, vars, tables, loop
<1>2. CASE EndForCommand \/ FollowClaim \/ FollowPush \/ Result
  BY <1>2 DEF EndForCommand, FollowClaim, FollowPush, Result, tables
<1>3. CASE Spawn \/ Submit \/ Take \/ SdkInit \/ TurnEnds \/ Chain \/ Drained
  BY <1>3 DEF SameButQuery, loop, Spawn, Submit, Take, SdkInit, TurnEnds, Chain, Drained
<1>4. CASE SpawnFails \/ EngineFails \/ SdkThrows \/ SdkRefuses
  <2>1. \E to \in Closed : Breaks(to)
    BY <1>4 DEF SpawnFails, EngineFails, SdkThrows, SdkRefuses, Closed
  <2>. QED  BY <2>1 DEF Breaks, loop
<1>5. CASE Finish \/ Crash
  BY <1>5 DEF Finish, Crash, tables
<1>. QED  BY <1>1, <1>2, <1>3, <1>4, <1>5 DEF Next

\* The rows the engine has, will be given, or lost to a named event.
Kept == taken \cup forfeited \cup Waiting

(* Rows that wait do so in a query; after its last event none waits for    *)
(* what is yet to come, so that closing the query loses nothing more; and  *)
(* the batch, which any result completes, is kept like the rows pushed.    *)
HeldInv ==
  /\ gen = "none" <=> pc # "query"
  /\ gen = "none" => Waiting = {}
  /\ Claude \/ gen \in {"init", "turn", "boundary"} => prompt = {}
  /\ pc = "query" => batch \subseteq Kept
  /\ gen \in Closed => Waiting \subseteq taken \cup forfeited

LEMMA WaitingIs == Waiting = prompt \cup Pushed(queue)
BY DEF Waiting, Pushed

LEMMA WaitingIsNext == Waiting' = prompt' \cup Pushed(queue')
BY DEF Waiting, Pushed

LEMMA PushKeeps ==
  ASSUME Typed, NEW S \in SUBSET Rows, Push(S)
  PROVE  /\ Pushed(queue) \subseteq Pushed(queue') /\ forfeited \subseteq forfeited'
         /\ Pushed(queue') \subseteq Pushed(queue) \cup S
         /\ S \subseteq Pushed(queue') \cup taken \cup forfeited'
         /\ gen \in Closed => S \subseteq taken \cup forfeited'
<1>1. queue \in Seq(SUBSET Rows)
  BY DEF Typed, TypeOK
<1>2. Pushed(Append(queue, S)) = Pushed(queue) \cup S
  BY <1>1, PushedAppend
<1>3. CASE queue' = queue /\ Forfeit(S)
  BY <1>3 DEF Forfeit
<1>4. CASE /\ queue' = Append(queue, S)
           /\ IF gen \in Closed THEN Forfeit(S) ELSE UNCHANGED forfeited
  BY <1>2, <1>4 DEF Forfeit
<1>. QED  BY <1>3, <1>4 DEF Push

\* No step but the container's death takes a row away that is kept.
LEMMA KeptGrows ==
  ASSUME Typed, HeldInv, [Next]_vars, ~ Crash
  PROVE  Kept \subseteq Kept'
<1>. USE WaitingIs, WaitingIsNext
<1>0. queue \in Seq(SUBSET Rows)
  BY DEF Typed, TypeOK
<1>1. CASE UNCHANGED <<queue, prompt, taken, forfeited>>
  BY <1>1 DEF Kept, Waiting
<1>2. CASE Poll
  <2>1. Waiting = {} /\ UNCHANGED <<taken, forfeited>>
    BY <1>2 DEF Poll, HeldInv, hist
  <2>. QED  BY <2>1 DEF Kept
<1>3. CASE EndForCommand
  <2>1. /\ UNCHANGED <<prompt, taken>>
        /\ \/ queue' = <<>> /\ forfeited' = forfeited \cup (Pushed(queue) \ taken)
           \/ UNCHANGED <<queue, forfeited>>
    BY <1>3 DEF EndForCommand, End, Forfeit, Pushed
  <2>. QED  BY <2>1 DEF Kept
<1>4. CASE FollowPush
  <2>1. Push(follow) /\ follow \in SUBSET Rows /\ UNCHANGED <<prompt, taken>>
    BY <1>4 DEF FollowPush, Typed, TypeOK
  <2>. QED  BY <2>1, PushKeeps DEF Kept
<1>5. CASE Result
  <2>1. UNCHANGED <<prompt, taken>> /\ (UNCHANGED <<queue, forfeited>> \/ Push({}))
    BY <1>5 DEF Result
  <2>. QED  BY <2>1, PushKeeps DEF Kept
<1>6. CASE Submit
  BY <1>6 DEF Submit, Kept
<1>7. CASE Take
  BY <1>0, <1>7, PushedHead DEF Take, Kept
<1>8. CASE Chain
  <2>1. /\ UNCHANGED <<taken, forfeited>>
        /\ \/ UNCHANGED <<queue, prompt>>
           \/ prompt' = Pushed(queue) /\ prompt = {}
    BY <1>8 DEF Chain, Joined, Pushed, HeldInv
  <2>. QED  BY <2>1 DEF Kept
<1>9. ASSUME NEW to \in Closed, Breaks(to)
      PROVE  Kept \subseteq Kept'
  BY <1>9 DEF Breaks, Forfeit, Kept
<1>10. CASE Finish
  <2>1. Waiting \subseteq taken \cup forfeited /\ UNCHANGED <<taken, forfeited>>
    BY <1>10 DEF Finish, HeldInv, hist
  <2>. QED  BY <2>1 DEF Kept
<1>11. CASE SpawnFails \/ EngineFails \/ SdkThrows \/ SdkRefuses
  BY <1>9, <1>11 DEF SpawnFails, EngineFails, SdkThrows, SdkRefuses, Closed
<1>12. \/ UNCHANGED <<queue, prompt, taken, forfeited>>
       \/ Poll \/ EndForCommand \/ FollowPush \/ Result \/ Submit \/ Take \/ Chain \/ Finish
       \/ SpawnFails \/ EngineFails \/ SdkThrows \/ SdkRefuses
  BY DEF Next, Arrive, Boot, ClearRotated, FollowClaim, Spawn, SdkInit, TurnEnds, Drained,
         vars, query, hist
<1>. QED  BY <1>1, <1>2, <1>3, <1>4, <1>5, <1>6, <1>7, <1>8, <1>10, <1>11, <1>12

LEMMA HeldInit == Init => HeldInv /\ FollowUpsTaken
<1>1. Init => Waiting = {}
  BY WaitingIs, PushedNone DEF Init
<1>. QED  BY <1>1 DEF Init, HeldInv, FollowUpsTaken, Claude, Closed

LEMMA HeldStep == Typed /\ HeldInv /\ [Next]_vars => HeldInv'
<1>. SUFFICES ASSUME Typed, HeldInv, [Next]_vars PROVE HeldInv'
  OBVIOUS
<1>. USE WaitingIs, WaitingIsNext
<1>1. provider' = provider
  BY Rigid
<1>2. ~ Crash => Kept \subseteq Kept'
  BY KeptGrows
<1>. USE DEF Claude, Amplifier
\* Nothing of the query changes.
<1>3. CASE UNCHANGED <<gen, queue, prompt, batch, taken, forfeited>> /\ (pc' = "query" <=> pc = "query")
  <2>1. Waiting' = Waiting /\ Kept' = Kept
    BY <1>3 DEF Waiting, Kept
  <2>. QED  BY <1>1, <1>3, <2>1 DEF HeldInv
<1>4. CASE Poll
  <2>. DEFINE rest == Due \ {r \in Due : kind[r] = "clear"}
  <2>1. CASE rest = {}
    <3>1. UNCHANGED <<gen, queue, prompt, batch, pc, taken, forfeited>>
      BY <1>4, <2>1 DEF Poll, query, hist
    <3>. QED  BY <1>3, <3>1
  <2>2. CASE rest # {}
    <3>1. /\ pc' = "query" /\ batch' = rest /\ gen' = "spawn"
          /\ IF Claude THEN queue' = <<rest>> /\ prompt' = {} ELSE queue' = <<>> /\ prompt' = rest
      BY <1>4, <2>2 DEF Poll, OpenQuery
    <3>2. rest \in SUBSET Rows
      BY DueRows DEF Typed
    <3>3. Waiting' = rest
      BY <3>1, <3>2, PushedNone, PushedOne
    <3>. QED  BY <1>1, <3>1, <3>3 DEF HeldInv, Kept, Closed
  <2>. QED  BY <2>1, <2>2
<1>5. CASE EndForCommand
  <2>1. /\ UNCHANGED <<gen, pc, batch, prompt, taken>> /\ ~ Crash /\ pc = "query"
        /\ \/ queue' = <<>> /\ forfeited' = forfeited \cup (Pushed(queue) \ taken)
           \/ UNCHANGED <<queue, forfeited>>
    BY <1>5 DEF EndForCommand, End, Forfeit, Pushed, Crash
  <2>2. Waiting' \subseteq Waiting /\ forfeited \subseteq forfeited'
    BY <2>1, PushedNone
  <2>. QED  BY <1>1, <1>2, <2>1, <2>2 DEF HeldInv, Closed
<1>6. ASSUME NEW S \in SUBSET Rows, Push(S), pc = "query", ~ Crash,
             UNCHANGED <<gen, pc, batch, prompt, taken>>
      PROVE  HeldInv'
  <2>1. gen \in Closed => Waiting' \subseteq taken' \cup forfeited'
    <3>1. gen \in Closed => Waiting \subseteq taken \cup forfeited
      BY DEF HeldInv
    <3>. QED  BY <1>6, <3>1, PushKeeps
  <2>. QED  BY <1>1, <1>2, <1>6, <2>1 DEF HeldInv
<1>7. CASE FollowPush
  <2>1. Push(follow) /\ follow \in SUBSET Rows /\ pc = "query" /\ UNCHANGED <<gen, pc, batch, prompt, taken>>
    BY <1>7 DEF FollowPush, Typed, TypeOK
  <2>2. ~ Crash
    BY <1>7, <2>1 DEF Crash
  <2>. QED  BY <1>6, <2>1, <2>2
<1>8. CASE Result
  <2>1. pc = "query" /\ UNCHANGED <<gen, pc, batch, prompt, taken>>
    BY <1>8 DEF Result, HeldInv
  <2>2. ~ Crash
    BY <2>1 DEF Crash
  <2>3. CASE Push({})
    BY <1>6, <2>1, <2>2, <2>3
  <2>4. CASE UNCHANGED <<queue, dropped, forfeited, nudged>>
    BY <1>3, <2>1, <2>4
  <2>. QED  BY <1>8, <2>3, <2>4 DEF Result
\* The query goes on: the rows that wait move on, and it is not over.
<1>9. ASSUME UNCHANGED <<pc, batch>>, ~ Crash, pc = "query", gen' \notin Closed, gen' # "none",
             Claude \/ gen' \in {"init", "turn", "boundary"} => prompt' = {}
      PROVE  HeldInv'
  BY <1>1, <1>2, <1>9 DEF HeldInv
<1>10. CASE Spawn \/ Submit \/ Take \/ SdkInit \/ TurnEnds
  <2>1. pc = "query" /\ UNCHANGED <<pc, batch>>
    BY <1>10 DEF Spawn, Submit, Take, SdkInit, TurnEnds, SameButQuery, loop, HeldInv
  <2>2. ~ Crash
    BY <2>1 DEF Crash
  <2>3. /\ gen' \notin Closed /\ gen' # "none"
        /\ Claude \/ gen' \in {"init", "turn", "boundary"} => prompt' = {}
    BY <1>10 DEF Spawn, Submit, Take, SdkInit, TurnEnds, Closed, HeldInv
  <2>. QED  BY <1>9, <2>1, <2>2, <2>3
<1>11. CASE Chain
  <2>1. pc = "query" /\ UNCHANGED <<pc, batch>> /\ prompt = {} /\ ~ Claude
    BY <1>11 DEF Chain, SameButQuery, loop, HeldInv
  <2>2. ~ Crash
    BY <2>1 DEF Crash
  <2>3. CASE queue = <<>>
    <3>1. gen' = "closed" /\ Waiting' = {}
      BY <1>11, <2>1, <2>3, PushedNone DEF Chain
    <3>. QED  BY <1>1, <1>2, <2>1, <2>2, <3>1 DEF HeldInv
  <2>4. CASE queue # <<>>
    <3>1. gen' = "spawn"
      BY <1>11, <2>4 DEF Chain
    <3>. QED  BY <1>1, <1>9, <2>1, <2>2, <3>1 DEF Closed
  <2>. QED  BY <2>3, <2>4
<1>12. CASE Drained
  <2>1. pc = "query" /\ UNCHANGED <<pc, batch>> /\ prompt' = {} /\ gen' = "closed" /\ queue' = <<>>
    BY <1>12 DEF Drained, SameButQuery, loop, HeldInv
  <2>2. ~ Crash
    BY <2>1 DEF Crash
  <2>3. Waiting' = {}
    BY <2>1, PushedNone
  <2>. QED  BY <1>1, <1>2, <2>1, <2>2, <2>3 DEF HeldInv
<1>13. ASSUME NEW to \in Closed, Breaks(to), gen # "none"
       PROVE  HeldInv'
  <2>1. pc = "query" /\ gen' = to /\ UNCHANGED <<pc, batch, queue, prompt, taken>>
        /\ forfeited' = forfeited \cup (Waiting \ taken)
    BY <1>13 DEF Breaks, Forfeit, loop, HeldInv
  <2>2. ~ Crash
    BY <2>1 DEF Crash
  <2>3. Waiting' = Waiting
    BY <2>1
  <2>4. Claude => prompt' = {}
    BY <2>1 DEF HeldInv
  <2>. QED  BY <1>1, <1>2, <1>13, <2>1, <2>2, <2>3, <2>4 DEF HeldInv, Closed
<1>14. CASE SpawnFails \/ EngineFails \/ SdkThrows \/ SdkRefuses
  BY <1>13, <1>14 DEF SpawnFails, EngineFails, SdkThrows, SdkRefuses, Closed
<1>15. CASE Finish \/ Crash
  <2>1. pc' # "query" /\ gen' = "none" /\ queue' = <<>> /\ prompt' = {}
    BY <1>15 DEF Finish, Crash
  <2>. QED  BY <2>1, PushedNone DEF HeldInv, Closed
<1>16. CASE Arrive \/ Boot \/ ClearRotated \/ FollowClaim \/ UNCHANGED vars
  BY <1>3, <1>16 DEF Arrive, Boot, ClearRotated, FollowClaim, vars, loop, query, hist
<1>. QED  BY <1>4, <1>5, <1>7, <1>8, <1>10, <1>11, <1>12, <1>14, <1>15, <1>16 DEF Next

LEMMA FollowUpsStep ==
  Typed /\ HeldInv /\ FollowUpsTaken /\ [Next]_vars => FollowUpsTaken'
<1>. SUFFICES ASSUME Typed, HeldInv, FollowUpsTaken, [Next]_vars,
                     NEW r \in Rows, status'[r] = "completed", kind'[r] # "clear"
              PROVE  r \in Kept'
  BY DEF FollowUpsTaken, Kept
<1>1. kind' = kind
  BY Rigid
<1>2. ~ Crash => Kept \subseteq Kept'
  BY KeptGrows
<1>3. CASE Crash
  <2>1. status[r] = "completed" /\ taken' = taken
        /\ forfeited' = forfeited \cup ({x \in Waiting : status[x] = "completed"} \ taken)
    BY <1>3 DEF Crash, tables, Forfeit
  <2>2. r \in taken \cup Waiting \cup forfeited
    BY <1>1, <2>1 DEF FollowUpsTaken
  <2>. QED  BY <2>1, <2>2 DEF Kept
<1>4. CASE status[r] = "completed" /\ ~ Crash
  <2>1. r \in Kept
    BY <1>1, <1>4 DEF FollowUpsTaken, Kept
  <2>. QED  BY <1>2, <1>4, <2>1
<1>5. CASE status[r] # "completed" /\ ~ Crash
  <2>1. \/ Poll /\ r \in Due /\ kind[r] = "clear"
        \/ FollowPush /\ r \in follow
        \/ r \in batch /\ (Result \/ EngineFails \/ Finish)
    <3>1. status'[r] # status[r] /\ r \in Rows
      BY <1>5
    <3>2. ASSUME NEW S, NEW s, Mark(S, s)
          PROVE  r \in S /\ s = "completed"
      BY <1>5, <3>1, <3>2 DEF Mark
    <3>3. CASE Poll
      BY <1>5, <3>1, <3>3 DEF Poll
    <3>4. ~ Boot /\ ~ FollowClaim
      BY <3>2 DEF Boot, FollowClaim
    <3>5. CASE FollowPush
      BY <3>2, <3>5 DEF FollowPush
    <3>6. CASE Result
      BY <3>2, <3>6 DEF Result
    <3>7. CASE EngineFails
      BY <3>2, <3>7 DEF EngineFails
    <3>8. CASE Finish
      BY <3>2, <3>8 DEF Finish
    <3>. QED  BY <1>5, <3>1, <3>3, <3>4, <3>5, <3>6, <3>7, <3>8, StatusMoves
  <2>2. CASE FollowPush /\ r \in follow
    <3>1. Push(follow) /\ follow \in SUBSET Rows /\ taken' = taken
      BY <2>2 DEF FollowPush, Typed, TypeOK
    <3>. QED  BY <2>2, <3>1, PushKeeps, WaitingIsNext DEF Kept
  <2>3. CASE r \in batch /\ (Result \/ EngineFails \/ Finish)
    <3>1. pc = "query"
      BY <2>3 DEF Result, EngineFails, Finish, HeldInv
    <3>. QED  BY <1>2, <1>5, <2>3, <3>1 DEF HeldInv
  <2>. QED  BY <1>1, <2>1, <2>2, <2>3
<1>. QED  BY <1>3, <1>4, <1>5

\* What is completed because it was pushed is the engine's, waits for a turn of
\* the open query, or was kept from it by a named event (poll-loop.ts:371-382
\* with both providers' queues), for any number of rows and any cap.
THEOREM FollowUpsReachTheEngine == Spec => []FollowUpsTaken
<1>1. Spec => [](Typed /\ HeldInv /\ FollowUpsTaken)
  BY TypeInit, TypeStep, HeldInit, HeldStep, FollowUpsStep, PTL DEF Spec
<1>. QED  BY <1>1, PTL

-----------------------------------------------------------------------------
(* Continuations.                                                          *)

(* While a query is open, the session it runs in is what is stored.  With  *)
(* the buffered provider that holds throughout, since its init is the same *)
(* step as the choice of the session; with Claude between init and the     *)
(* query's end, and before that the loop either began without a            *)
(* continuation or with the stored one, which the query then keeps.        *)
ResumeInv ==
  /\ gen = "none" <=> pc # "query"
  /\ pc = "query" /\ Amplifier => stored = sid /\ (sid = None => continuation = None)
  /\ Amplifier => gen \notin {"threw", "refused"}
  /\ pc = "query" /\ Claude =>
       /\ continuation = None \/ (continuation = stored /\ sid = continuation)
       /\ gen \in {"turn", "boundary", "closed"} => stored = sid /\ sid # None
       /\ gen = "init" => sid # None
  /\ ResumesWhatIsStored

LEMMA ResumeInit == Init => ResumeInv
BY DEF Init, ResumeInv, ResumesWhatIsStored

LEMMA ResumeStep == Typed /\ ResumeInv /\ [Next]_vars => ResumeInv'
<1>. SUFFICES ASSUME Typed, ResumeInv, [Next]_vars PROVE ResumeInv'
  OBVIOUS
<1>1. provider' = provider /\ provider \in {"claude", "amplifier-agent"}
  BY Rigid DEF Typed, TypeOK
<1>2. issued \in Nat /\ sid \in 0..issued
  BY DEF Typed, TypeOK
<1>. USE <1>1 DEF ResumeInv, ResumesWhatIsStored, Claude, Amplifier
<1>3. CASE UNCHANGED <<gen, sid, stored, continuation, pc>>
  BY <1>3
<1>4. CASE Boot
  BY <1>4 DEF Boot, query
<1>5. CASE ClearRotated
  BY <1>5 DEF ClearRotated, query
<1>6. CASE Poll
  <2>. DEFINE clears == {r \in Due : kind[r] = "clear"}
              rest == Due \ clears
  <2>1. IF clears # {} THEN continuation' = None /\ stored' = None
                       ELSE UNCHANGED <<continuation, stored>>
    BY <1>6 DEF Poll, RunClear, ClearBoth
  <2>2. continuation' = stored' \/ (Claude /\ continuation' = None)
    BY <1>6, <2>1 DEF Poll
  <2>3. CASE rest = {}
    <3>1. UNCHANGED <<pc, gen, sid>>
      BY <1>6, <2>3 DEF Poll, query
    <3>. QED  BY <1>6, <2>2, <3>1 DEF Poll
  <2>4. CASE rest # {}
    <3>1. pc' = "query" /\ gen' = "spawn" /\ sid' = continuation'
      BY <1>6, <2>4 DEF Poll, OpenQuery
    <3>. QED  BY <2>2, <3>1
  <2>. QED  BY <2>3, <2>4
<1>7. CASE Spawn
  <2>1. pc = "query" /\ UNCHANGED <<pc, continuation>> /\ gen' = "submit" /\ stored' = Session
    BY <1>7 DEF Spawn, SameButQuery, loop
  <2>2. sid' = Session /\ Session # None
    BY <1>2, <1>7, IssueTypes DEF Spawn, None
  <2>. QED  BY <1>7, <2>1, <2>2 DEF Spawn
<1>8. CASE Take
  <2>1. pc = "query" /\ UNCHANGED <<pc, continuation, stored>> /\ gen' = "init"
    BY <1>8 DEF Take, SameButQuery, loop
  <2>2. sid' = Session /\ Session # None
    BY <1>2, <1>8, IssueTypes DEF Take, None
  <2>3. sid # None => sid' = sid
    BY <2>2 DEF Session
  <2>. QED  BY <1>8, <2>1, <2>2, <2>3 DEF Take
<1>9. CASE Submit \/ TurnEnds \/ Chain \/ Drained
  <2>1. pc = "query" /\ UNCHANGED <<pc, continuation, stored, sid>>
    BY <1>9 DEF Submit, TurnEnds, Chain, Drained, SameButQuery, loop
  <2>2. /\ gen' \in {"turn", "boundary", "closed", "spawn"}
        /\ Claude => gen \in {"turn", "boundary"}
    BY <1>9 DEF Submit, TurnEnds, Chain, Drained
  <2>. QED  BY <2>1, <2>2
<1>10. CASE SdkInit
  <2>1. pc = "query" /\ UNCHANGED <<pc, continuation, sid>> /\ gen' = "turn" /\ stored' = sid
    BY <1>10 DEF SdkInit, SameButQuery, loop
  <2>. QED  BY <1>10, <2>1 DEF SdkInit
<1>11. CASE SpawnFails \/ EngineFails \/ SdkThrows \/ SdkRefuses
  <2>1. UNCHANGED <<pc, continuation, stored, sid>> /\ gen # "none" /\ gen' # "none"
        /\ IF Claude THEN gen' \in {"threw", "refused"} ELSE gen' = "closed"
    BY <1>11 DEF SpawnFails, EngineFails, SdkThrows, SdkRefuses, Breaks, loop
  <2>. QED  BY <2>1
<1>12. CASE Finish
  <2>1. pc = "query" /\ pc' = "idle" /\ gen' = "none"
    BY <1>12 DEF Finish
  <2>2. CASE gen = "closed"
    <3>1. continuation' = (IF sid = None THEN continuation ELSE sid) /\ stored' = stored
      BY <1>12, <2>2 DEF Finish
    <3>. QED  BY <2>1, <2>2, <3>1
  <2>3. CASE gen = "threw"
    <3>1. UNCHANGED <<continuation, stored>>
      BY <1>12, <2>3 DEF Finish
    <3>. QED  BY <2>1, <2>3, <3>1
  <2>4. CASE gen = "refused"
    <3>1. continuation' = None /\ stored' = None
      BY <1>12, <2>4 DEF Finish, ClearBoth
    <3>. QED  BY <2>1, <2>4, <3>1
  <2>. QED  BY <1>12, <2>2, <2>3, <2>4 DEF Finish, Closed
<1>13. CASE Crash
  BY <1>13 DEF Crash
<1>14. CASE Arrive \/ EndForCommand \/ FollowClaim \/ FollowPush \/ Result \/ UNCHANGED vars
  BY <1>3, <1>14 DEF Arrive, EndForCommand, FollowClaim, FollowPush, Result, vars, tables,
                     loop, query
<1>. QED  BY <1>4, <1>5, <1>6, <1>7, <1>8, <1>9, <1>10, <1>11, <1>12, <1>13, <1>14 DEF Next

\* Whenever the loop may open a query its continuation is the stored one, but
\* for the session that a throwing Claude query has stored and the loop does
\* not know of (poll-loop.ts:221-237, :434).
THEOREM LoopResumesStored == Spec => []ResumesWhatIsStored
<1>1. Spec => [](Typed /\ ResumeInv)
  BY TypeInit, TypeStep, ResumeInit, ResumeStep, PTL DEF Spec
<1>2. ResumeInv => ResumesWhatIsStored
  BY DEF ResumeInv
<1>. QED  BY <1>1, <1>2, PTL
=============================================================================
