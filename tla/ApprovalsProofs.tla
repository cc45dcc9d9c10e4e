--------------------------- MODULE ApprovalsProofs ---------------------------
(***************************************************************************)
(* Proofs about Approvals, for any requests of any kinds, any number of    *)
(* cards, clicks and restarts.  The order: types; the life of a credential *)
(* request; the verdict on an action; the answers to a question.           *)
(***************************************************************************)
EXTENDS Approvals, FiniteSetTheorems, TLAPS

\* What a click may do once it is dispatched.
Respond(r, v) ==
  \/ Resolve(r, v) \/ DropOrphan(r) \/ Reject(r, v)
  \/ \E built \in BOOLEAN : Apply(r, v, built)
  \/ StartCommand(r, v) \/ RouteAnswer(r, v) \/ Unclaimed(r)

LEMMA NextCases ==
  ASSUME Next
  PROVE  \/ \E landed \in SUBSET InFlight : Crash(landed)
         \/ \E r \in Requests, b \in BOOLEAN :
              Ask(r, b) \/ FindDm(r, b) \/ Expired(r, b) \/ SweepOne(r, b) \/ CommandDone(r, b)
         \/ \E r \in Requests, ok, landed \in BOOLEAN : Sent(r, ok, landed)
         \/ \E r \in Requests, ok, landed \in BOOLEAN : QuestionSent(r, ok, landed)
         \/ \E r \in Requests : Timeout(r) \/ SendQuestion(r) \/ PollAnswer(r) \/ GiveUpAsking(r)
         \/ \E r \in Requests, card \in Cards, v \in Values : Click(r, card, v)
         \/ \E r \in Requests, card \in Cards, v \in Values, edited \in BOOLEAN :
              Dispatch(r, card, v, edited)
         \/ \E r \in Requests, card \in Cards, edited \in BOOLEAN : CrashInBuild(r, card, edited)
BY DEF Next

-----------------------------------------------------------------------------
(* Types.                                                                  *)

Stages == {"idle", "dm", "due", "sending", "open", "closed"}
Rows == {"none", "pending", "expired"}
Answers == {"none", "approve", "deny", "lost"}
Tools == {"idle", "polling", "answered", "over"}
Notices == {"refused", "undelivered", "rejected", "applied", "failed"}

LEMMA TypeInit == Init => TypeOK
<1>. SUFFICES ASSUME Init PROVE TypeOK
  OBVIOUS
<1>1. 0 \in 0..MaxSends /\ 0 \in 0..MaxClicks
  BY ApprovalsAssumption
<1>2. <<>> \in Seq(Values)
  OBVIOUS
<1>. QED  BY <1>1, <1>2 DEF Init, TypeOK

\* Telling, landing and editing stay within their types.
LEMMA ToldTyped ==
  ASSUME TypeOK, NEW r \in Requests, NEW what \in Notices, Tell(r, what)
  PROVE  told' \in [Requests -> SUBSET Notices]
BY DEF TypeOK, Tell, Notices

LEMMA ShownTyped ==
  ASSUME TypeOK, NEW r \in Requests, NEW card \in Cards, NEW b \in BOOLEAN,
         Land(r, card, b) \/ Edit(r, card, b)
  PROVE  shown' \subseteq Requests \X Cards
BY DEF TypeOK, Land, Edit

LEMMA RestartTyped ==
  ASSUME TypeOK, Restart
  PROVE  /\ resolvers' \subseteq Requests /\ expiring' \subseteq Requests
         /\ sweep' \subseteq Requests
         /\ clicks' \in [Requests \X Cards \X Values -> Nat]
         /\ running' \in [Requests -> Nat]
         /\ answer' \in [Requests -> Answers]
         /\ stage' \in [Requests -> Stages]
<1>1. clicks' \in [Requests \X Cards \X Values -> Nat]
  BY DEF TypeOK, Restart
<1>2. answer' \in [Requests -> Answers] /\ stage' \in [Requests -> Stages]
  BY DEF TypeOK, Restart, Answers, Stages
<1>. QED  BY <1>1, <1>2 DEF TypeOK, Restart, StaleRows, Of

LEMMA RespondTyped ==
  ASSUME TypeOK, NEW r \in Requests, NEW v \in Values, Respond(r, v)
  PROVE  /\ stage' \in [Requests -> Stages]
         /\ row' \in [Requests -> Rows]
         /\ resolvers' \subseteq Requests
         /\ answer' \in [Requests -> Answers]
         /\ running' \in [Requests -> Nat]
         /\ responses' \in [Requests -> Seq(Values)]
         /\ told' \in [Requests -> SUBSET Notices]
         /\ applied' \in [Requests -> Nat]
         /\ excused' \subseteq Requests
<1>. USE DEF TypeOK, Stages, Rows, Answers, Notices
<1>1. CASE Resolve(r, v)
  BY <1>1 DEF Resolve
<1>2. CASE DropOrphan(r) \/ Unclaimed(r)
  BY <1>2 DEF DropOrphan, Unclaimed
<1>3. CASE Reject(r, v)
  BY <1>3 DEF Reject, Tell
<1>4. CASE \E built \in BOOLEAN : Apply(r, v, built)
  BY <1>4 DEF Apply, Tell
<1>5. CASE StartCommand(r, v)
  BY <1>5 DEF StartCommand
<1>6. CASE RouteAnswer(r, v)
  <2>1. Append(responses[r], v) \in Seq(Values)
    OBVIOUS
  <2>. QED  BY <1>6, <2>1 DEF RouteAnswer
<1>. QED  BY <1>1, <1>2, <1>3, <1>4, <1>5, <1>6 DEF Respond

\* A question asks for no approver, and its card that is being sent has a number.
QuestionStage(r) ==
  kind[r] = "question" => stage[r] # "dm" /\ (stage[r] = "sending" => sends[r] \in Cards)

Typed == TypeOK /\ \A r \in Requests : QuestionStage(r)

LEMMA TypedInit == Init => Typed
BY TypeInit DEF Typed, QuestionStage, Init

\* The cards that a crash catches are cards.
LEMMA InFlightTyped == Typed => InFlight \subseteq Requests \X Cards
<1>1. 1 \in Cards
  BY ApprovalsAssumption DEF Cards
<1>. QED  BY <1>1 DEF Typed, QuestionStage, InFlight

LEMMA TypeStep == Typed /\ [Next]_vars => TypeOK'
<1>. SUFFICES ASSUME Typed, Next PROVE TypeOK'
  BY DEF Typed, TypeOK, vars, store, memory, question, histories
<1>. USE DEF store, memory, question, histories
<1>0. TypeOK /\ 1 \in Cards
  BY ApprovalsAssumption DEF Typed, Cards
<1>1. ASSUME NEW landed \in SUBSET InFlight, Crash(landed) PROVE TypeOK'
  <2>1. shown' \subseteq Requests \X Cards
    BY <1>0, <1>1, InFlightTyped DEF TypeOK, Crash
  <2>2. excused' \subseteq Requests
    BY <1>0, <1>1 DEF TypeOK, Crash
  <2>. QED  BY <1>0, <1>1, <2>1, <2>2, RestartTyped DEF TypeOK, Crash, Answers, Stages
<1>2. ASSUME NEW r \in Requests, NEW b \in BOOLEAN, Ask(r, b) PROVE TypeOK'
  <2>1. told' \in [Requests -> SUBSET Notices]
    BY <1>0, <1>2, ToldTyped DEF TypeOK, Ask, Notices
  <2>2. stage' \in [Requests -> Stages] /\ tool' \in [Requests -> Tools]
    BY <1>0, <1>2 DEF TypeOK, Ask, Stages, Tools
  <2>. QED  BY <1>0, <1>2, <2>1, <2>2 DEF TypeOK, Ask, Stages, Tools, Notices
<1>3. ASSUME NEW r \in Requests, NEW b \in BOOLEAN, FindDm(r, b) PROVE TypeOK'
  <2>1. told' \in [Requests -> SUBSET Notices]
    BY <1>0, <1>3, ToldTyped DEF TypeOK, FindDm, Notices
  <2>2. stage' \in [Requests -> Stages] /\ row' \in [Requests -> Rows]
        /\ answer' \in [Requests -> Answers]
    BY <1>0, <1>3 DEF TypeOK, FindDm, Stages, Rows, Answers
  <2>. QED  BY <1>0, <1>3, <2>1, <2>2 DEF TypeOK, FindDm, Stages, Rows, Answers, Notices
<1>4. ASSUME NEW r \in Requests, NEW b \in BOOLEAN, Expired(r, b) \/ SweepOne(r, b) PROVE TypeOK'
  <2>1. shown' \subseteq Requests \X Cards
    BY <1>0, <1>4, ShownTyped DEF Expired, SweepOne
  <2>. QED  BY <1>0, <1>4, <2>1 DEF TypeOK, Expired, SweepOne
<1>5. ASSUME NEW r \in Requests, NEW b \in BOOLEAN, CommandDone(r, b) PROVE TypeOK'
  <2>1. told' \in [Requests -> SUBSET Notices]
    BY <1>0, <1>5, ToldTyped DEF TypeOK, CommandDone, Notices
  <2>2. running' \in [Requests -> Nat] /\ applied' \in [Requests -> Nat]
    BY <1>0, <1>5 DEF TypeOK, CommandDone
  <2>. QED  BY <1>0, <1>5, <2>1, <2>2 DEF TypeOK, CommandDone, Notices
<1>6. ASSUME NEW r \in Requests, NEW ok \in BOOLEAN, NEW landed \in BOOLEAN, Sent(r, ok, landed)
      PROVE  TypeOK'
  <2>1. told' \in [Requests -> SUBSET Notices]
    BY <1>0, <1>6, ToldTyped DEF TypeOK, Sent, Notices
  <2>2. shown' \subseteq Requests \X Cards
    BY <1>0, <1>6, ShownTyped DEF Sent
  <2>3. stage' \in [Requests -> Stages] /\ row' \in [Requests -> Rows]
        /\ answer' \in [Requests -> Answers] /\ resolvers' \subseteq Requests
    <3>1. CASE kind[r] = "credential" /\ ok
      <4>1. /\ row' = [row EXCEPT ![r] = "pending"] /\ resolvers' = resolvers \cup {r}
            /\ stage' = [stage EXCEPT ![r] = "open"] /\ answer' = answer
        BY <1>6, <3>1 DEF Sent
      <4>. QED  BY <1>0, <4>1 DEF TypeOK, Stages, Rows, Answers
    <3>2. CASE kind[r] = "credential" /\ ~ok
      BY <1>0, <1>6, <3>2 DEF TypeOK, Sent, Stages, Rows, Answers
    <3>3. CASE kind[r] # "credential"
      BY <1>0, <1>6, <3>3 DEF TypeOK, Sent, Stages, Rows, Answers
    <3>. QED  BY <3>1, <3>2, <3>3
  <2>. QED  BY <1>0, <1>6, <2>1, <2>2, <2>3 DEF TypeOK, Sent, Stages, Rows, Answers, Notices
<1>7. ASSUME NEW r \in Requests, NEW ok \in BOOLEAN, NEW landed \in BOOLEAN, QuestionSent(r, ok, landed)
      PROVE  TypeOK'
  <2>1. shown' \subseteq Requests \X Cards
    BY <1>0, <1>7, ShownTyped DEF Typed, QuestionStage, QuestionSent
  <2>. QED  BY <1>0, <1>7, <2>1 DEF TypeOK, QuestionSent
<1>8. ASSUME NEW r \in Requests, Timeout(r) \/ GiveUpAsking(r) PROVE TypeOK'
  BY <1>0, <1>8 DEF TypeOK, Timeout, GiveUpAsking
<1>9. ASSUME NEW r \in Requests, SendQuestion(r) PROVE TypeOK'
  <2>1. sends[r] + 1 \in 0..MaxSends
    BY <1>0, <1>9, ApprovalsAssumption DEF TypeOK, SendQuestion
  <2>. QED  BY <1>0, <1>9, <2>1 DEF TypeOK, SendQuestion
<1>10. ASSUME NEW r \in Requests, PollAnswer(r) PROVE TypeOK'
  <2>1. Head(responses[r]) \in Values
    BY <1>0, <1>10 DEF TypeOK, PollAnswer
  <2>. QED  BY <1>0, <1>10, <2>1 DEF TypeOK, PollAnswer
<1>11. ASSUME NEW r \in Requests, NEW card \in Cards, NEW v \in Values, Click(r, card, v)
       PROVE  TypeOK'
  <2>1. clicks' \in [Requests \X Cards \X Values -> Nat]
    BY <1>0, <1>11 DEF TypeOK, Click
  <2>2. clicked' \in [Requests -> 0..MaxClicks]
    BY <1>0, <1>11, ApprovalsAssumption DEF TypeOK, Click
  <2>. QED  BY <1>0, <1>11, <2>1, <2>2 DEF TypeOK, Click
<1>12. ASSUME NEW r \in Requests, NEW card \in Cards, NEW v \in Values, NEW edited \in BOOLEAN,
              Dispatch(r, card, v, edited)
       PROVE  TypeOK'
  <2>1. clicks' \in [Requests \X Cards \X Values -> Nat]
    BY <1>0, <1>12 DEF TypeOK, Dispatch, Take
  <2>2. shown' \subseteq Requests \X Cards
    BY <1>0, <1>12, ShownTyped DEF Dispatch
  <2>3. Respond(r, v)
    BY <1>12 DEF Dispatch, Respond
  <2>. QED  BY <1>0, <1>12, <2>1, <2>2, <2>3, RespondTyped
            DEF TypeOK, Dispatch, Stages, Rows, Answers, Notices
<1>13. ASSUME NEW r \in Requests, NEW card \in Cards, NEW edited \in BOOLEAN,
              CrashInBuild(r, card, edited)
       PROVE  TypeOK'
  <2>1. shown' \subseteq Requests \X Cards
    BY <1>0, <1>13, ShownTyped DEF CrashInBuild
  <2>2. applied' \in [Requests -> Nat] /\ excused' \subseteq Requests
    BY <1>0, <1>13 DEF TypeOK, CrashInBuild
  <2>. QED  BY <1>0, <1>13, <2>1, <2>2, RestartTyped DEF TypeOK, CrashInBuild, Answers, Stages
<1>. QED  BY <1>1, <1>2, <1>3, <1>4, <1>5, <1>6, <1>7, <1>8, <1>9, <1>10, <1>11, <1>12, <1>13,
             NextCases

LEMMA TypedStep == Typed /\ [Next]_vars => Typed'
<1>. SUFFICES ASSUME Typed, [Next]_vars, NEW q \in Requests
              PROVE  QuestionStage(q)'
  BY TypeStep DEF Typed
<1>0. TypeOK /\ QuestionStage(q)
  BY DEF Typed
<1>. USE DEF store, memory, question, histories
<1>s. ASSUME kind' = kind, sends'[q] = sends[q], stage'[q] = stage[q]
      PROVE  QuestionStage(q)'
  BY <1>0, <1>s DEF QuestionStage
<1>n. ASSUME kind'[q] # "question" \/ stage'[q] \notin {"dm", "sending"}
      PROVE  QuestionStage(q)'
  BY <1>n DEF QuestionStage
<1>1. CASE UNCHANGED vars
  BY <1>s, <1>1 DEF vars
<1>2. ASSUME NEW landed, Crash(landed) PROVE QuestionStage(q)'
  BY <1>n, <1>2, <1>0 DEF TypeOK, Crash, Restart, QuestionStage
<1>3. ASSUME NEW r \in Requests, NEW b,
             Expired(r, b) \/ SweepOne(r, b) \/ CommandDone(r, b) \/ Timeout(r) \/ PollAnswer(r)
             \/ GiveUpAsking(r)
      PROVE  QuestionStage(q)'
  <2>1. CASE Timeout(r)
    BY <1>0, <1>s, <1>n, <2>1 DEF TypeOK, Timeout
  <2>. QED  BY <1>s, <1>3, <2>1 DEF Expired, SweepOne, CommandDone, PollAnswer, GiveUpAsking
<1>4. ASSUME NEW r \in Requests, NEW b, Ask(r, b) PROVE QuestionStage(q)'
  <2>1. CASE q = r
    BY <1>0, <1>4, <1>n, <2>1 DEF TypeOK, Ask
  <2>2. CASE q # r
    BY <1>0, <1>4, <1>s, <2>2 DEF TypeOK, Ask
  <2>. QED  BY <2>1, <2>2
<1>5. ASSUME NEW r \in Requests, NEW b, FindDm(r, b) PROVE QuestionStage(q)'
  <2>1. kind' = kind /\ sends' = sends /\ stage[r] = "dm"
        /\ stage' = [stage EXCEPT ![r] = IF b THEN "sending" ELSE "closed"]
    BY <1>5 DEF FindDm
  <2>2. CASE q = r
    BY <1>0, <2>1, <2>2, <1>n DEF QuestionStage
  <2>. QED  BY <1>0, <1>s, <2>1, <2>2 DEF TypeOK
<1>6. ASSUME NEW r \in Requests, NEW ok, NEW landed, Sent(r, ok, landed) \/ QuestionSent(r, ok, landed)
      PROVE  QuestionStage(q)'
  <2>1. kind' = kind /\ sends' = sends
        /\ \E st \in {"open", "closed", "due"} : stage' = [stage EXCEPT ![r] = st]
    BY <1>6 DEF Sent, QuestionSent
  <2>2. CASE q = r
    BY <1>0, <1>n, <2>1, <2>2 DEF TypeOK
  <2>. QED  BY <1>0, <1>s, <2>1, <2>2 DEF TypeOK
<1>7. ASSUME NEW r \in Requests, SendQuestion(r) PROVE QuestionStage(q)'
  <2>1. CASE q = r
    BY <1>0, <1>7, <2>1, ApprovalsAssumption DEF TypeOK, SendQuestion, Cards, QuestionStage
  <2>2. CASE q # r
    BY <1>0, <1>7, <1>s, <2>2 DEF TypeOK, SendQuestion
  <2>. QED  BY <2>1, <2>2
<1>8. ASSUME NEW r \in Requests, NEW card, NEW v, Click(r, card, v) PROVE QuestionStage(q)'
  BY <1>8, <1>s DEF Click
<1>9. ASSUME NEW r \in Requests, NEW card, NEW v, NEW edited, Dispatch(r, card, v, edited)
      PROVE  QuestionStage(q)'
  <2>1. Respond(r, v) /\ UNCHANGED <<kind, sends>>
    BY <1>9 DEF Dispatch, Respond
  <2>2. stage' = stage \/ stage' = [stage EXCEPT ![r] = "closed"]
    BY <2>1 DEF Respond, Resolve, DropOrphan, Reject, Apply, StartCommand, RouteAnswer, Unclaimed
  <2>. QED  BY <1>0, <1>s, <1>n, <2>1, <2>2 DEF TypeOK
<1>10. ASSUME NEW r \in Requests, NEW card, NEW edited, CrashInBuild(r, card, edited)
       PROVE  QuestionStage(q)'
  BY <1>n, <1>10, <1>0 DEF TypeOK, CrashInBuild, Restart, QuestionStage
<1>. QED  BY <1>1, <1>2, <1>3, <1>4, <1>5, <1>6, <1>7, <1>8, <1>9, <1>10, NextCases

\* Every reachable state of the approvals is well typed; in particular no
\* question's card is sent, and no card clicked, more often than the bounds allow.
THEOREM TypeCorrect == Spec => []TypeOK
<1>1. Spec => []Typed
  BY TypedInit, TypedStep, PTL DEF Spec
<1>2. Typed => TypeOK
  BY DEF Typed
<1>. QED  BY <1>1, <1>2, PTL

-----------------------------------------------------------------------------
(* The life of one request.                                                *)

\* A credential request has its row when it is open, and whatever drops a row
\* or answers the gateway has closed the request before.
CredentialInv(q) ==
  /\ q \in resolvers \cup expiring \cup sweep => kind[q] = "credential"
  /\ q \in resolvers => stage[q] = "open" /\ row[q] = "pending"
  /\ q \in expiring \cup sweep => stage[q] = "closed"
  /\ kind[q] = "credential" =>
       /\ row[q] # "none" => stage[q] \in {"open", "closed"}
       /\ answer[q] # "none" => stage[q] = "closed"

\* An action has its row until its verdict, and one handler at a time unless it
\* is excused.
Undecided(q) == Verdicts(q) = {} /\ applied[q] = 0
Rejected(q) == Verdicts(q) = {"rejected"} /\ applied[q] = 0
Carried(q) == Verdicts(q) \in {{"applied"}, {"failed"}} /\ applied[q] = 1

ActionInv(q) ==
  /\ running[q] > 0 => kind[q] = "cli"
  /\ q \in Actions => /\ stage[q] \in {"idle", "dm"} => row[q] = "none" /\ running[q] = 0 /\ Undecided(q)
                      /\ q \notin excused =>
                           /\ Undecided(q) \/ Rejected(q) \/ Carried(q)
                           /\ row[q] # "none" => Undecided(q)
                           /\ running[q] \in {0, 1}
                           /\ running[q] = 1 => row[q] # "none"

\* Every response was paid for by a send of the card.
QuestionInv(q) ==
  kind[q] = "question" =>
    /\ Len(responses[q]) + (IF row[q] = "none" THEN 0 ELSE 1) <= sends[q]
    /\ tool[q] = "answered" => responses[q] # <<>> /\ got[q] = responses[q][1]

RequestInv(q) == CredentialInv(q) /\ ActionInv(q) /\ QuestionInv(q)

LEMMA RequestInit == Init => \A q \in Requests : RequestInv(q)
<1>. SUFFICES ASSUME Init, NEW q \in Requests PROVE RequestInv(q)
  OBVIOUS
<1>1. CredentialInv(q)
  BY DEF Init, CredentialInv
<1>2. ActionInv(q)
  BY DEF Init, ActionInv, Undecided, Verdicts
<1>3. QuestionInv(q)
  BY DEF Init, QuestionInv
<1>. QED  BY <1>1, <1>2, <1>3 DEF RequestInv

\* What the invariant says of a request, but for its verdict and its answers.
Same(q) ==
  /\ kind'[q] = kind[q] /\ stage'[q] = stage[q] /\ row'[q] = row[q] /\ answer'[q] = answer[q]
  /\ q \in resolvers' <=> q \in resolvers
  /\ q \in expiring' => q \in expiring
  /\ q \in sweep' => q \in sweep
  /\ running'[q] = running[q] /\ told'[q] = told[q] /\ applied'[q] = applied[q]
  /\ q \in excused => q \in excused'
  /\ tool'[q] = tool[q] /\ sends'[q] = sends[q] /\ responses'[q] = responses[q] /\ got'[q] = got[q]

\* The requests a step is not about keep their invariant.
LEMMA Others ==
  ASSUME NEW q \in Requests, RequestInv(q), Same(q)
  PROVE  RequestInv(q)'
<1>1. CredentialInv(q)'
  BY DEF RequestInv, Same, CredentialInv
<1>2. /\ Verdicts(q)' = Verdicts(q) /\ (Undecided(q)' <=> Undecided(q))
      /\ (Rejected(q)' <=> Rejected(q)) /\ (Carried(q)' <=> Carried(q))
  BY DEF Same, Verdicts, Undecided, Rejected, Carried
<1>3. ActionInv(q)'
  <2>1. kind'[q] \in {"self", "cli"} <=> kind[q] \in {"self", "cli"}
    BY DEF Same
  <2>2. (q \in Actions)' <=> q \in Actions
    BY <2>1 DEF Actions, Of
  <2>. QED  BY <1>2, <2>2 DEF RequestInv, Same, ActionInv
<1>4. QuestionInv(q)'
  BY DEF RequestInv, Same, QuestionInv
<1>. QED  BY <1>1, <1>3, <1>4 DEF RequestInv

\* Steps of a request's own flow and of the gateway's timers.
LEMMA FlowStep ==
  ASSUME Typed, NEW r \in Requests, RequestInv(r), NEW b \in BOOLEAN,
         Ask(r, b) \/ FindDm(r, b) \/ Expired(r, b) \/ SweepOne(r, b) \/ Timeout(r)
  PROVE  RequestInv(r)' /\ \A q \in Requests \ {r} : Same(q)
<1>. USE DEF store, memory, question, histories
<1>0. TypeOK /\ QuestionStage(r)
  BY DEF Typed
<1>1. CASE Ask(r, b)
  <2>1. \A q \in Requests \ {r} : Same(q)
    BY <1>0, <1>1 DEF TypeOK, Ask, Tell, Same
  <2>2. /\ kind' = kind /\ row' = row /\ answer' = answer /\ resolvers' = resolvers
        /\ expiring' = expiring /\ sweep' = sweep /\ running' = running /\ applied' = applied
        /\ excused' = excused /\ sends' = sends /\ responses' = responses /\ got' = got
    BY <1>1 DEF Ask
  <2>3. stage[r] = "idle" /\ stage'[r] \in {"due", "dm", "closed"} /\ tool'[r] \in {tool[r], "polling"}
        /\ (stage'[r] = "dm" => kind[r] # "question")
    BY <1>0, <1>1 DEF TypeOK, Ask
  <2>4. Verdicts(r)' = Verdicts(r)
    BY <1>0, <1>1 DEF TypeOK, Ask, Tell, Verdicts
  <2>5. CredentialInv(r)'
    BY <2>2, <2>3 DEF RequestInv, CredentialInv
  <2>6. ActionInv(r)'
    BY <2>2, <2>3, <2>4 DEF RequestInv, ActionInv, Undecided, Rejected, Carried, Actions, Of
  <2>7. QuestionInv(r)'
    BY <2>2, <2>3 DEF RequestInv, QuestionInv
  <2>. QED  BY <2>1, <2>5, <2>6, <2>7 DEF RequestInv
<1>2. CASE FindDm(r, b)
  <2>1. \A q \in Requests \ {r} : Same(q)
    BY <1>0, <1>2 DEF TypeOK, FindDm, Tell, Same
  <2>2. /\ kind' = kind /\ resolvers' = resolvers
        /\ expiring' = expiring /\ sweep' = sweep /\ running' = running /\ applied' = applied
        /\ excused' = excused /\ question' = question /\ stage[r] = "dm"
    BY <1>2 DEF FindDm
  <2>3. stage'[r] = (IF b THEN "sending" ELSE "closed")
    BY <1>0, <1>2 DEF TypeOK, FindDm
  <2>4. Verdicts(r)' = Verdicts(r)
    BY <1>0, <1>2 DEF TypeOK, FindDm, Tell, Verdicts
  <2>5. CredentialInv(r)'
    <3>1. kind[r] = "credential" => row'[r] = row[r] /\ (answer'[r] # answer[r] => ~b)
      BY <1>0, <1>2 DEF TypeOK, FindDm
    <3>. QED  BY <2>2, <2>3, <3>1 DEF RequestInv, CredentialInv
  <2>6. ActionInv(r)'
    BY <2>2, <2>3, <2>4 DEF RequestInv, ActionInv, Undecided, Rejected, Carried, Actions, Of
  <2>7. QuestionInv(r)'
    BY <1>0, <2>2 DEF QuestionStage, QuestionInv
  <2>. QED  BY <2>1, <2>5, <2>6, <2>7 DEF RequestInv
<1>3. CASE Expired(r, b) \/ SweepOne(r, b) \/ Timeout(r)
  <2>1. \A q \in Requests \ {r} : Same(q)
    BY <1>0, <1>3 DEF TypeOK, Expired, SweepOne, Timeout, Same
  <2>2. kind[r] = "credential" /\ kind' = kind /\ stage'[r] = "closed" /\ running' = running
    BY <1>0, <1>3 DEF TypeOK, Expired, SweepOne, Timeout, RequestInv, CredentialInv
  <2>3. r \notin resolvers'
    BY <1>3 DEF RequestInv, CredentialInv, Expired, SweepOne, Timeout
  <2>4. CredentialInv(r)'
    BY <2>2, <2>3 DEF CredentialInv
  <2>5. ActionInv(r)' /\ QuestionInv(r)'
    BY <2>2 DEF RequestInv, ActionInv, QuestionInv, Actions, Of
  <2>. QED  BY <2>1, <2>4, <2>5 DEF RequestInv
<1>. QED  BY <1>1, <1>2, <1>3

\* Cards that are sent, and the agent's wait for an answer.
LEMMA CardStep ==
  ASSUME Typed, NEW r \in Requests, RequestInv(r), NEW ok \in BOOLEAN, NEW landed \in BOOLEAN,
         \/ Sent(r, ok, landed) \/ QuestionSent(r, ok, landed) \/ SendQuestion(r)
         \/ PollAnswer(r) \/ GiveUpAsking(r)
  PROVE  RequestInv(r)' /\ \A q \in Requests \ {r} : Same(q)
<1>. USE DEF store, memory, question, histories
<1>0. TypeOK
  BY DEF Typed
<1>1. CASE Sent(r, ok, landed)
  <2>1. \A q \in Requests \ {r} : Same(q)
    <3>1. /\ \E x : stage' = [stage EXCEPT ![r] = x]
          /\ \E x : row' = [row EXCEPT ![r] = x]
          /\ \E x : answer' = [answer EXCEPT ![r] = x]
          /\ \E x : told' = [told EXCEPT ![r] = x]
          /\ resolvers' \in {resolvers, resolvers \cup {r}}
      BY <1>0, <1>1 DEF TypeOK, Sent, Tell
    <3>. QED  BY <1>0, <1>1, <3>1 DEF TypeOK, Sent, Same
  <2>2. /\ kind' = kind /\ kind[r] # "question" /\ expiring' = expiring /\ sweep' = sweep
        /\ running' = running /\ applied' = applied /\ excused' = excused /\ stage[r] = "sending"
    BY <1>1 DEF Sent
  <2>3. Verdicts(r)' = Verdicts(r)
    BY <1>0, <1>1 DEF TypeOK, Sent, Tell, Verdicts
  <2>4. CredentialInv(r)'
    <3>1. CASE kind[r] = "credential" /\ ok
      <4>1. /\ row' = [row EXCEPT ![r] = "pending"] /\ resolvers' = resolvers \cup {r}
            /\ stage' = [stage EXCEPT ![r] = "open"] /\ answer' = answer
        BY <1>1, <3>1 DEF Sent
      <4>. QED  BY <1>0, <2>2, <3>1, <4>1 DEF TypeOK, RequestInv, CredentialInv
    <3>2. CASE ~(kind[r] = "credential" /\ ok)
      <4>1. row' = row /\ resolvers' = resolvers /\ stage' = [stage EXCEPT ![r] = "closed"]
        BY <1>1, <3>2 DEF Sent
      <4>. QED  BY <1>0, <2>2, <4>1 DEF TypeOK, RequestInv, CredentialInv
    <3>. QED  BY <3>1, <3>2
  <2>5. ActionInv(r)'
    <3>1. kind[r] # "credential" => row' = row /\ stage'[r] = "closed"
      BY <1>0, <1>1 DEF TypeOK, Sent
    <3>. QED  BY <2>2, <2>3, <3>1
              DEF RequestInv, ActionInv, Undecided, Rejected, Carried, Actions, Of
  <2>6. QuestionInv(r)'
    BY <2>2 DEF QuestionInv
  <2>. QED  BY <2>1, <2>4, <2>5, <2>6 DEF RequestInv
<1>2. CASE QuestionSent(r, ok, landed) \/ SendQuestion(r) \/ PollAnswer(r) \/ GiveUpAsking(r)
  <2>0. kind[r] = "question" \/ (tool[r] = "polling" /\ stage' = stage /\ row' = row)
    BY <1>2 DEF QuestionSent, SendQuestion, PollAnswer, GiveUpAsking
  <2>1. \A q \in Requests \ {r} : Same(q)
    BY <1>0, <1>2 DEF TypeOK, QuestionSent, SendQuestion, PollAnswer, GiveUpAsking, Same
  <2>2. /\ kind' = kind /\ UNCHANGED <<resolvers, expiring, sweep, answer, running>>
        /\ UNCHANGED <<told, applied, excused>>
    BY <1>2 DEF QuestionSent, SendQuestion, PollAnswer, GiveUpAsking
  <2>3. CredentialInv(r)'
    BY <2>0, <2>2 DEF RequestInv, CredentialInv
  <2>4. ActionInv(r)'
    BY <2>0, <2>2 DEF RequestInv, ActionInv, Undecided, Rejected, Carried, Verdicts, Actions, Of
  <2>5. QuestionInv(r)'
    <3>1. CASE QuestionSent(r, ok, landed)
      BY <3>1 DEF QuestionSent, RequestInv, QuestionInv
    <3>2. CASE SendQuestion(r)
      BY <1>0, <3>2 DEF TypeOK, SendQuestion, RequestInv, QuestionInv
    <3>3. CASE PollAnswer(r)
      <4>1. tool'[r] = "answered" /\ got'[r] = responses[r][1] /\ responses[r] # <<>>
        BY <1>0, <3>3 DEF TypeOK, PollAnswer
      <4>. QED  BY <3>3, <4>1 DEF PollAnswer, RequestInv, QuestionInv
    <3>4. CASE GiveUpAsking(r)
      BY <1>0, <3>4 DEF TypeOK, GiveUpAsking, RequestInv, QuestionInv
    <3>. QED  BY <1>2, <3>1, <3>2, <3>3, <3>4
  <2>. QED  BY <2>1, <2>3, <2>4, <2>5 DEF RequestInv
<1>. QED  BY <1>1, <1>2

\* What a click does to its own request, and to no other.
LEMMA RespondStep ==
  ASSUME Typed, NEW r \in Requests, RequestInv(r), NEW v \in Values, Respond(r, v),
         UNCHANGED <<kind, sweep, expiring, tool, sends, got>>
  PROVE  RequestInv(r)' /\ \A q \in Requests \ {r} : Same(q)
<1>0. TypeOK
  BY DEF Typed
<1>1. \A q \in Requests \ {r} : Same(q)
  <2>1. CASE Resolve(r, v) \/ DropOrphan(r) \/ Unclaimed(r) \/ StartCommand(r, v) \/ RouteAnswer(r, v)
    BY <1>0, <2>1 DEF TypeOK, Resolve, DropOrphan, Unclaimed, StartCommand, RouteAnswer, Same
  <2>2. CASE Reject(r, v) \/ \E built \in BOOLEAN : Apply(r, v, built)
    BY <1>0, <2>2 DEF TypeOK, Reject, Apply, Tell, Same
  <2>. QED  BY <2>1, <2>2 DEF Respond
<1>2. CASE Resolve(r, v)
  <2>1. kind[r] = "credential" /\ r \notin expiring \cup sweep
    BY <1>2 DEF Resolve, RequestInv, CredentialInv
  <2>2. stage'[r] = "closed" /\ row'[r] = "none" /\ r \notin resolvers' /\ running' = running
    BY <1>0, <1>2 DEF TypeOK, Resolve
  <2>3. CredentialInv(r)'
    BY <2>1, <2>2 DEF CredentialInv
  <2>4. ActionInv(r)' /\ QuestionInv(r)'
    BY <2>1, <2>2 DEF RequestInv, ActionInv, QuestionInv, Actions, Of
  <2>. QED  BY <1>1, <2>3, <2>4 DEF RequestInv
<1>3. CASE DropOrphan(r)
  <2>1. kind[r] = "credential" /\ r \notin resolvers
    BY <1>3 DEF DropOrphan
  <2>2. row'[r] = "none" /\ UNCHANGED <<stage, resolvers, answer, running>>
    BY <1>0, <1>3 DEF TypeOK, DropOrphan
  <2>3. CredentialInv(r)'
    BY <2>1, <2>2 DEF RequestInv, CredentialInv
  <2>4. ActionInv(r)' /\ QuestionInv(r)'
    BY <2>1, <2>2 DEF RequestInv, ActionInv, QuestionInv, Actions, Of
  <2>. QED  BY <1>1, <2>3, <2>4 DEF RequestInv
<1>4. CASE Reject(r, v)
  <2>1. /\ row'[r] = "none" /\ UNCHANGED <<stage, resolvers, answer, running, applied>>
        /\ kind[r] \in {"self", "cli"} /\ row[r] # "none"
    BY <1>0, <1>4 DEF TypeOK, Reject, Actions, Of
  <2>2. Undecided(r) => Rejected(r)'
    BY <1>0, <1>4 DEF TypeOK, Reject, Tell, Undecided, Rejected, Verdicts
  <2>3. /\ r \in excused => r \in excused'
        /\ running[r] > 0 => r \in excused'
    BY <1>4 DEF Reject
  <2>4. running[r] \in Nat
    BY <1>0 DEF TypeOK
  <2>5. CredentialInv(r)' /\ QuestionInv(r)'
    BY <2>1 DEF RequestInv, CredentialInv, QuestionInv
  <2>6. ActionInv(r)'
    BY <2>1, <2>2, <2>3, <2>4 DEF RequestInv, ActionInv, Actions, Of
  <2>. QED  BY <1>1, <2>5, <2>6 DEF RequestInv
<1>5. ASSUME NEW built \in BOOLEAN, Apply(r, v, built)
      PROVE  RequestInv(r)'
  <2>1. /\ row'[r] = "none" /\ UNCHANGED <<stage, resolvers, answer, running, excused>>
        /\ kind[r] = "self" /\ row[r] # "none" /\ applied'[r] = applied[r] + 1
    BY <1>0, <1>5 DEF TypeOK, Apply
  <2>2. Verdicts(r) = {} => Verdicts(r)' \in {{"applied"}, {"failed"}}
    BY <1>0, <1>5 DEF TypeOK, Apply, Tell, Verdicts
  <2>3. Undecided(r) => Carried(r)'
    BY <2>1, <2>2 DEF Undecided, Carried
  <2>4. CredentialInv(r)' /\ QuestionInv(r)'
    BY <2>1 DEF RequestInv, CredentialInv, QuestionInv
  <2>5. ActionInv(r)'
    <3>1. running[r] \in Nat /\ r \in Actions
      BY <1>0, <2>1 DEF TypeOK, Actions, Of
    <3>. QED  BY <2>1, <2>3, <3>1 DEF RequestInv, ActionInv
  <2>. QED  BY <2>4, <2>5 DEF RequestInv
<1>6. CASE StartCommand(r, v)
  <2>1. /\ UNCHANGED <<stage, row, resolvers, answer, told, applied>>
        /\ kind[r] = "cli" /\ row[r] # "none" /\ running'[r] = running[r] + 1
    BY <1>0, <1>6 DEF TypeOK, StartCommand
  <2>2. /\ r \in excused => r \in excused'
        /\ running[r] > 0 => r \in excused'
    BY <1>6 DEF StartCommand
  <2>3. running[r] \in Nat
    BY <1>0 DEF TypeOK
  <2>4. CredentialInv(r)' /\ QuestionInv(r)'
    BY <2>1 DEF RequestInv, CredentialInv, QuestionInv
  <2>5. /\ (Undecided(r)' <=> Undecided(r)) /\ (Rejected(r)' <=> Rejected(r))
        /\ (Carried(r)' <=> Carried(r))
    BY <2>1 DEF Verdicts, Undecided, Rejected, Carried
  <2>6. ActionInv(r)'
    BY <2>1, <2>2, <2>3, <2>5 DEF RequestInv, ActionInv, Actions, Of
  <2>. QED  BY <1>1, <2>4, <2>6 DEF RequestInv
<1>7. CASE RouteAnswer(r, v)
  <2>1. /\ row'[r] = "none" /\ UNCHANGED <<stage, resolvers, answer, running, told, applied, excused>>
        /\ kind[r] = "question" /\ row[r] # "none"
        /\ responses'[r] = Append(responses[r], v) /\ responses[r] \in Seq(Values)
    BY <1>0, <1>7 DEF TypeOK, RouteAnswer
  <2>2. CredentialInv(r)' /\ ActionInv(r)'
    BY <2>1 DEF RequestInv, CredentialInv, ActionInv, Actions, Of
  <2>3. /\ Len(responses'[r]) = Len(responses[r]) + 1 /\ responses'[r] # <<>>
        /\ responses[r] # <<>> => responses'[r][1] = responses[r][1]
    BY <2>1
  <2>4. QuestionInv(r)'
    BY <2>1, <2>3 DEF RequestInv, QuestionInv
  <2>. QED  BY <1>1, <2>2, <2>4 DEF RequestInv
<1>8. CASE Unclaimed(r)
  BY <1>1, <1>8 DEF Unclaimed, RequestInv, CredentialInv, ActionInv, QuestionInv, Undecided,
                    Rejected, Carried, Verdicts, Actions, Of
<1>. QED  BY <1>1, <1>2, <1>3, <1>4, <1>5, <1>6, <1>7, <1>8 DEF Respond

\* A command's handler ends: its row is still there, so it is the first.
LEMMA CommandStep ==
  ASSUME Typed, NEW r \in Requests, RequestInv(r), NEW ok \in BOOLEAN, CommandDone(r, ok)
  PROVE  RequestInv(r)' /\ \A q \in Requests \ {r} : Same(q)
<1>. USE DEF question
<1>0. TypeOK
  BY DEF Typed
<1>1. \A q \in Requests \ {r} : Same(q)
  BY <1>0 DEF TypeOK, CommandDone, Tell, Same
<1>2. /\ row'[r] = "none" /\ applied'[r] = applied[r] + 1 /\ running'[r] = running[r] - 1
      /\ UNCHANGED <<kind, stage, sweep, answer, resolvers, expiring, question, excused>>
      /\ running[r] > 0 /\ running[r] \in Nat
  BY <1>0 DEF TypeOK, CommandDone
<1>3. kind[r] = "cli"
  BY <1>2 DEF RequestInv, ActionInv
<1>4. CredentialInv(r)' /\ QuestionInv(r)'
  BY <1>2, <1>3 DEF RequestInv, CredentialInv, QuestionInv
<1>5. Undecided(r) => Carried(r)'
  <2>1. Verdicts(r) = {} => Verdicts(r)' \in {{"applied"}, {"failed"}}
    BY <1>0 DEF TypeOK, CommandDone, Tell, Verdicts
  <2>. QED  BY <1>2, <2>1 DEF Undecided, Carried
<1>6. ActionInv(r)'
  <2>1. r \in Actions /\ (r \in Actions)'
    BY <1>2, <1>3 DEF Actions, Of
  <2>2. CASE stage[r] \in {"idle", "dm"}
    BY <1>2, <1>3, <2>1, <2>2 DEF RequestInv, ActionInv
  <2>3. CASE stage[r] \notin {"idle", "dm"}
    BY <1>2, <1>3, <1>5, <2>1, <2>3 DEF RequestInv, ActionInv
  <2>. QED  BY <2>2, <2>3
<1>. QED  BY <1>1, <1>4, <1>6 DEF RequestInv

\* A restart closes what only memory knew, and its sweep takes closed rows.
LEMMA RestartStep ==
  ASSUME Typed, NEW q \in Requests, RequestInv(q), Restart,
         UNCHANGED <<kind, row, question, told>>,
         q \in excused \/ running[q] > 0 => q \in excused',
         applied'[q] = applied[q] \/ (q \in excused' /\ row[q] # "none")
  PROVE  RequestInv(q)'
<1>. USE DEF question
<1>0. TypeOK
  BY DEF Typed
<1>1. /\ q \notin resolvers' /\ q \notin expiring' /\ running'[q] = 0
      /\ q \in sweep' <=> (kind[q] = "credential" /\ row[q] # "none")
      /\ stage'[q] \in {stage[q], "closed", "due"}
      /\ kind[q] # "question" => stage'[q] \in {stage[q], "closed"}
      /\ kind[q] # "question" /\ stage[q] \in {"open", "closed"} => stage'[q] = "closed"
  <2>1. stage'[q] = IF stage[q] \in {"idle", "due", "closed"} THEN stage[q]
                    ELSE IF kind[q] = "question" /\ sends[q] < MaxSends THEN "due" ELSE "closed"
    BY DEF Restart
  <2>2. q \notin resolvers' /\ q \notin expiring' /\ running'[q] = 0
    BY DEF Restart
  <2>3. q \in sweep' <=> (kind[q] = "credential" /\ row[q] # "none")
    BY DEF Restart, StaleRows, Of
  <2>. QED  BY <2>1, <2>2, <2>3
<1>2. kind[q] = "credential" /\ answer'[q] # "none" => stage'[q] = "closed"
  <2>1. CASE kind[q] = "credential" /\ stage[q] \in {"dm", "sending", "open"}
    BY <1>0, <2>1 DEF TypeOK, Restart
  <2>2. CASE ~(kind[q] = "credential" /\ stage[q] \in {"dm", "sending", "open"})
    <3>1. answer'[q] = answer[q]
      BY <2>2 DEF Restart
    <3>. QED  BY <1>1, <3>1 DEF RequestInv, CredentialInv
  <2>. QED  BY <2>1, <2>2
<1>3. CredentialInv(q)'
  BY <1>1, <1>2 DEF RequestInv, CredentialInv
<1>4. ActionInv(q)'
  <2>1. /\ (q \in Actions)' <=> q \in Actions
        /\ q \in Actions => kind[q] # "question"
    BY DEF Actions, Of
  <2>2. Verdicts(q)' = Verdicts(q)
    BY DEF Verdicts
  <2>3. CASE q \in excused'
    BY <1>1, <2>1, <2>2, <2>3 DEF RequestInv, ActionInv, Undecided
  <2>4. CASE q \notin excused'
    BY <1>1, <2>1, <2>2, <2>4 DEF RequestInv, ActionInv, Undecided, Rejected, Carried
  <2>. QED  BY <2>3, <2>4
<1>5. QuestionInv(q)'
  BY DEF RequestInv, QuestionInv
<1>. QED  BY <1>3, <1>4, <1>5 DEF RequestInv

LEMMA RequestStep ==
  Typed /\ (\A q \in Requests : RequestInv(q)) /\ [Next]_vars => \A q \in Requests : RequestInv(q)'
<1>. SUFFICES ASSUME Typed, \A q \in Requests : RequestInv(q), [Next]_vars,
                     NEW q \in Requests
              PROVE  RequestInv(q)'
  OBVIOUS
<1>. USE DEF store, memory, question, histories
<1>0. ASSUME NEW r \in Requests, RequestInv(r)' /\ \A p \in Requests \ {r} : Same(p)
      PROVE  RequestInv(q)'
  BY <1>0, Others
<1>1. CASE UNCHANGED vars
  BY <1>1, Others DEF vars, Same
<1>2. ASSUME NEW landed \in SUBSET InFlight, Crash(landed) PROVE RequestInv(q)'
  BY <1>2, RestartStep DEF Crash
<1>3. ASSUME NEW r \in Requests, NEW card \in Cards, NEW edited \in BOOLEAN,
             CrashInBuild(r, card, edited)
      PROVE  RequestInv(q)'
  <2>1. applied'[q] = applied[q] \/ (q \in excused' /\ row[q] # "none")
    BY <1>3 DEF Typed, TypeOK, CrashInBuild
  <2>2. q \in excused \/ running[q] > 0 => q \in excused'
    BY <1>3 DEF CrashInBuild
  <2>. QED  BY <1>3, <2>1, <2>2, RestartStep DEF CrashInBuild
<1>4. ASSUME NEW r \in Requests, NEW b \in BOOLEAN,
             Ask(r, b) \/ FindDm(r, b) \/ Expired(r, b) \/ SweepOne(r, b) \/ CommandDone(r, b)
      PROVE  RequestInv(q)'
  BY <1>0, <1>4, FlowStep, CommandStep
<1>5. ASSUME NEW r \in Requests, Timeout(r) \/ SendQuestion(r) \/ PollAnswer(r) \/ GiveUpAsking(r)
      PROVE  RequestInv(q)'
  BY <1>0, <1>5, FlowStep, CardStep
<1>6. ASSUME NEW r \in Requests, NEW ok \in BOOLEAN, NEW landed \in BOOLEAN,
             Sent(r, ok, landed) \/ QuestionSent(r, ok, landed)
      PROVE  RequestInv(q)'
  BY <1>0, <1>6, CardStep
<1>7. ASSUME NEW r \in Requests, NEW card \in Cards, NEW v \in Values, Click(r, card, v)
      PROVE  RequestInv(q)'
  BY <1>7, Others DEF Click, Same
<1>8. ASSUME NEW r \in Requests, NEW card \in Cards, NEW v \in Values, NEW edited \in BOOLEAN,
             Dispatch(r, card, v, edited)
      PROVE  RequestInv(q)'
  <2>1. Respond(r, v) /\ UNCHANGED <<kind, sweep, expiring, tool, sends, got>>
    BY <1>8 DEF Dispatch, Respond
  <2>. QED  BY <1>0, <2>1, RespondStep
<1>. QED  BY <1>1, <1>2, <1>3, <1>4, <1>5, <1>6, <1>7, <1>8, NextCases

LEMMA RequestsInvariant == Spec => [](Typed /\ \A q \in Requests : RequestInv(q))
<1>1. Init => Typed /\ \A q \in Requests : RequestInv(q)
  BY TypedInit, RequestInit
<1>2. (Typed /\ \A q \in Requests : RequestInv(q)) /\ [Next]_vars
        => (Typed /\ \A q \in Requests : RequestInv(q))'
  BY TypedStep, RequestStep
<1>. QED  BY <1>1, <1>2, PTL DEF Spec

\* Whatever is clicked, expires or is swept, a credential request that waits for
\* its click has its row and no answer yet (onecli-approvals.ts:68, :204, :247).
THEOREM WaitersKeepTheirRow == Spec => []ResolverHasRow
<1>1. (\A q \in Requests : RequestInv(q)) /\ Typed => ResolverHasRow
  BY DEF RequestInv, CredentialInv, ResolverHasRow, Typed, TypeOK
<1>. QED  BY <1>1, RequestsInvariant, PTL

\* An agent hears one verdict on what it asked for, and it is what was done,
\* with the exceptions of the property (response-handler.ts:95).
THEOREM VerdictsAreKept == Spec => []OneVerdict
<1>1. ASSUME NEW S, S = {} \/ \E x : S = {x} PROVE Cardinality(S) <= 1
  <2>1. CASE S = {}
    BY <2>1, FS_EmptySet
  <2>2. ASSUME NEW x, S = {x} PROVE Cardinality(S) <= 1
    <3>1. Cardinality({x}) = 1
      BY FS_Singleton
    <3>. QED  BY <2>2, <3>1
  <2>. QED  BY <1>1, <2>1, <2>2
<1>2. ASSUME NEW r \in Requests, r \in Actions \ excused, RequestInv(r)
      PROVE  /\ Cardinality(Verdicts(r)) <= 1
             /\ applied[r] = IF Verdicts(r) \subseteq {"rejected"} THEN 0 ELSE 1
  <2>1. Undecided(r) \/ Rejected(r) \/ Carried(r)
    BY <1>2 DEF RequestInv, ActionInv
  <2>2. Verdicts(r) = {} \/ \E x : Verdicts(r) = {x}
    BY <2>1 DEF Undecided, Rejected, Carried
  <2>3. applied[r] = IF Verdicts(r) \subseteq {"rejected"} THEN 0 ELSE 1
    BY <2>1 DEF Undecided, Rejected, Carried
  <2>. QED  BY <1>1, <2>2, <2>3
<1>3. (\A q \in Requests : RequestInv(q)) => OneVerdict
  BY <1>2 DEF OneVerdict, Actions, Of
<1>. QED  BY <1>3, RequestsInvariant, PTL

\* No more answers to a question than deliveries of its card, and the tool
\* returns the first (delivery.ts:325, interactive.ts:112).
THEOREM AnswersArePaidFor == Spec => []OneResponsePerSend
<1>1. (\A q \in Requests : RequestInv(q)) => OneResponsePerSend
  BY DEF RequestInv, QuestionInv, OneResponsePerSend, Of
<1>. QED  BY <1>1, RequestsInvariant, PTL
=============================================================================
