------------------------------ MODULE Approvals ------------------------------
(***************************************************************************)
(* Cards with buttons and what waits for the click: credential requests of *)
(* the OneCLI gateway (onecli-approvals.ts), self-modifications and ncl    *)
(* commands that an admin has to approve (primitive.ts, response-handler.ts,*)
(* self-mod, cli/dispatch.ts), and questions an agent asks the user        *)
(* (interactive).  All answers come in through one dispatcher.             *)
(*                                                                         *)
(* Everything up to an await is one step.  An install runs its image build *)
(* with execSync and so holds the event loop; an ncl command may await.    *)
(* Images and packages, wakes and restarts are left to other modules.      *)
(***************************************************************************)
EXTENDS Integers, Sequences, FiniteSets

CONSTANTS
  Requests,   \* one card each: approval ids and question ids
  MaxSends,   \* bound: deliveries of one question card
  MaxClicks   \* bound: clicks on the cards of one request

Kinds == {"credential", "self", "cli", "question"}
Values == {"approve", "reject"}
Cards == 1..MaxSends

ASSUME ApprovalsAssumption == MaxSends \in Nat \ {0} /\ MaxClicks \in Nat

VARIABLES
  kind,       \* [Requests -> Kinds], fixed
  stage,      \* where the request's own flow is
  row,        \* pending_approvals or pending_questions row
  resolvers,  \* the in-memory map `pending`, with its expiry timers
  expiring,   \* expired requests that await the edit of their card
  sweep,      \* rows of an earlier process that the start-up sweep has yet to drop
  answer,     \* what the gateway was told
  shown,      \* <<request, card>> on a screen with its buttons
  clicks,     \* clicks on their way: [Requests \X Cards \X Values -> Nat]
  running,    \* activations of an ncl approval handler that await
  tool,       \* the agent's ask_user_question call
  sends,      \* deliveries of the question card that were begun
  responses,  \* question_response rows in inbound.db, oldest first
  got,        \* what ask_user_question returned
  \* histories
  clicked,    \* clicks so far
  told,       \* what the agent was told about its request
  applied,    \* times the approved action was carried out
  excused     \* the host went down, or was clicked again, inside the handler

store == <<row, sweep, answer>>
memory == <<resolvers, expiring, clicks, running>>
question == <<tool, sends, responses, got>>
histories == <<clicked, told, applied, excused>>
vars == <<kind, stage, store, memory, shown, question, histories>>

Of(k) == {r \in Requests : kind[r] = k}
Actions == Of("self") \cup Of("cli")

Tell(r, what) == told' = [told EXCEPT ![r] = @ \cup {what}]
Land(r, card, landed) == shown' = IF landed THEN shown \cup {<<r, card>>} ELSE shown
Edit(r, card, edited) == shown' = IF edited THEN shown \ {<<r, card>>} ELSE shown

-----------------------------------------------------------------------------
\* Requests

\* ACTION Ask. A request comes in.  The host checks what a self-modification
\* names again; a question is written to outbound.db and polled for.
Ask(r, valid) ==
  /\ stage[r] = "idle"
  /\ \/ /\ kind[r] = "question" /\ valid
        /\ stage' = [stage EXCEPT ![r] = "due"]
        /\ tool' = [tool EXCEPT ![r] = "polling"]
        /\ UNCHANGED told
     \/ /\ kind[r] # "question" /\ valid
        /\ stage' = [stage EXCEPT ![r] = "dm"]
        /\ UNCHANGED <<tool, told>>
     \/ /\ kind[r] = "self" /\ ~valid
        /\ stage' = [stage EXCEPT ![r] = "closed"]
        /\ Tell(r, "refused")
        /\ UNCHANGED tool
  /\ UNCHANGED <<kind, store, memory, shown, sends, responses, got, clicked, applied, excused>>

\* ACTION FindDm. The approver's DM was looked up.  An action gets its row
\* before the card is sent, a credential request after it.
FindDm(r, found) ==
  /\ stage[r] = "dm"
  /\ stage' = [stage EXCEPT ![r] = IF found THEN "sending" ELSE "closed"]
  /\ IF kind[r] = "credential"
     THEN /\ answer' = IF found THEN answer ELSE [answer EXCEPT ![r] = "deny"]
          /\ UNCHANGED <<row, told>>
     ELSE /\ row' = IF found THEN [row EXCEPT ![r] = "pending"] ELSE row
          /\ IF found THEN UNCHANGED told ELSE Tell(r, "undelivered")
          /\ UNCHANGED answer
  /\ UNCHANGED <<kind, sweep, memory, shown, question, clicked, applied, excused>>

\* ACTION Sent. The card's delivery settles; it may have landed although the
\* call failed, and a channel without an adapter swallows it without an error.
Sent(r, ok, landed) ==
  /\ stage[r] = "sending" /\ kind[r] # "question"
  /\ Land(r, 1, landed)
  /\ IF kind[r] = "credential" /\ ok
     THEN /\ row' = [row EXCEPT ![r] = "pending"]
          /\ resolvers' = resolvers \cup {r}
          /\ stage' = [stage EXCEPT ![r] = "open"]
          /\ UNCHANGED answer
     ELSE /\ stage' = [stage EXCEPT ![r] = "closed"]
          /\ answer' = IF kind[r] = "credential" THEN [answer EXCEPT ![r] = "deny"] ELSE answer
          /\ UNCHANGED <<row, resolvers>>
  /\ IF kind[r] # "credential" /\ ~ok THEN Tell(r, "undelivered") ELSE UNCHANGED told
  /\ UNCHANGED <<kind, sweep, expiring, clicks, running, question, clicked, applied, excused>>

\* ACTION Timeout. The expiry timer, a second before the gateway's own.
Timeout(r) ==
  /\ r \in resolvers
  /\ resolvers' = resolvers \ {r}
  /\ row' = [row EXCEPT ![r] = "expired"]
  /\ expiring' = expiring \cup {r}
  /\ answer' = [answer EXCEPT ![r] = "deny"]
  /\ stage' = [stage EXCEPT ![r] = "closed"]
  /\ UNCHANGED <<kind, sweep, clicks, running, shown, question, histories>>

\* ACTION Expired. expireApproval after its await.
Expired(r, edited) ==
  /\ r \in expiring
  /\ expiring' = expiring \ {r}
  /\ row' = [row EXCEPT ![r] = "none"]
  /\ Edit(r, 1, edited)
  /\ UNCHANGED <<kind, stage, sweep, answer, resolvers, clicks, running, question, histories>>

\* ACTION SweepOne. One turn of sweepStaleApprovals.
SweepOne(r, edited) ==
  /\ r \in sweep
  /\ sweep' = sweep \ {r}
  /\ row' = [row EXCEPT ![r] = "none"]
  /\ Edit(r, 1, edited)
  /\ UNCHANGED <<kind, stage, answer, memory, question, histories>>

-----------------------------------------------------------------------------
\* Question cards

\* ACTION SendQuestion. A delivery attempt makes the row if there is none,
\* whether or not an earlier card of the question has been answered.
SendQuestion(r) ==
  /\ kind[r] = "question" /\ stage[r] = "due" /\ sends[r] < MaxSends
  /\ stage' = [stage EXCEPT ![r] = "sending"]
  /\ sends' = [sends EXCEPT ![r] = @ + 1]
  /\ row' = [row EXCEPT ![r] = "pending"]
  /\ UNCHANGED <<kind, sweep, answer, memory, shown, tool, responses, got, histories>>

\* ACTION QuestionSent. A failed attempt is due again.
QuestionSent(r, ok, landed) ==
  /\ kind[r] = "question" /\ stage[r] = "sending"
  /\ Land(r, sends[r], landed)
  /\ stage' = [stage EXCEPT ![r] = IF ok \/ sends[r] = MaxSends THEN "closed" ELSE "due"]
  /\ UNCHANGED <<kind, store, memory, question, histories>>

\* ACTION PollAnswer. The tool finds the oldest response that is not acknowledged.
PollAnswer(r) ==
  /\ tool[r] = "polling" /\ responses[r] # <<>>
  /\ tool' = [tool EXCEPT ![r] = "answered"]
  /\ got' = [got EXCEPT ![r] = Head(responses[r])]
  /\ UNCHANGED <<kind, stage, store, memory, shown, sends, responses, histories>>

\* ACTION GiveUpAsking. The deadline passed, or the container is gone.
GiveUpAsking(r) ==
  /\ tool[r] = "polling"
  /\ tool' = [tool EXCEPT ![r] = "over"]
  /\ UNCHANGED <<kind, stage, store, memory, shown, sends, responses, got, histories>>

-----------------------------------------------------------------------------
\* Clicks

\* ACTION Click. The platform reports a click; the buttons stay until the
\* bridge has edited the card.
Click(r, card, v) ==
  /\ <<r, card>> \in shown /\ clicked[r] < MaxClicks
  /\ clicks' = [clicks EXCEPT ![<<r, card, v>>] = @ + 1]
  /\ clicked' = [clicked EXCEPT ![r] = @ + 1]
  /\ UNCHANGED <<kind, stage, store, resolvers, expiring, running, shown, question,
                 told, applied, excused>>

\* resolveOneCLIApproval: the resolver decides, the row goes with it.
Resolve(r, v) ==
  /\ r \in resolvers
  /\ resolvers' = resolvers \ {r}
  /\ row' = [row EXCEPT ![r] = "none"]
  /\ answer' = [answer EXCEPT ![r] = IF v = "approve" THEN "approve" ELSE "deny"]
  /\ stage' = [stage EXCEPT ![r] = "closed"]
  /\ UNCHANGED <<running, responses, told, applied, excused>>

\* MUTANT of DropOrphan: the row is looked up before the resolver.
DropOrphanFirst(r) ==
  /\ kind[r] = "credential" /\ row[r] # "none"
  /\ row' = [row EXCEPT ![r] = "none"]
  /\ UNCHANGED <<stage, resolvers, answer, running, responses, told, applied, excused>>

\* A credential row whose resolver is gone.
DropOrphan(r) ==
  /\ kind[r] = "credential" /\ r \notin resolvers /\ row[r] # "none"
  /\ row' = [row EXCEPT ![r] = "none"]
  /\ UNCHANGED <<stage, resolvers, answer, running, responses, told, applied, excused>>

\* MUTANT of Reject: the row is left to the wake that follows.
RejectKeepsRow(r, v) ==
  /\ r \in Actions /\ row[r] # "none" /\ v = "reject"
  /\ Tell(r, "rejected")
  /\ excused' = IF running[r] > 0 THEN excused \cup {r} ELSE excused
  /\ UNCHANGED <<stage, row, resolvers, answer, running, responses, applied>>

\* handleRegisteredApproval
Reject(r, v) ==
  /\ r \in Actions /\ row[r] # "none" /\ v = "reject"
  /\ Tell(r, "rejected")
  /\ row' = [row EXCEPT ![r] = "none"]
  /\ excused' = IF running[r] > 0 THEN excused \cup {r} ELSE excused
  /\ UNCHANGED <<stage, resolvers, answer, running, responses, applied>>

\* applyInstallPackages and applyAddMcpServer: the configuration is changed,
\* and a build that fails only changes what the agent is told.
Apply(r, v, built) ==
  /\ kind[r] = "self" /\ row[r] # "none" /\ v = "approve"
  /\ applied' = [applied EXCEPT ![r] = @ + 1]
  /\ Tell(r, IF built THEN "applied" ELSE "failed")
  /\ row' = [row EXCEPT ![r] = "none"]
  /\ UNCHANGED <<stage, resolvers, answer, running, responses, excused>>

\* The handler of cli_command dispatches the stored frame and awaits it.
StartCommand(r, v) ==
  /\ kind[r] = "cli" /\ row[r] # "none" /\ v = "approve"
  /\ running' = [running EXCEPT ![r] = @ + 1]
  /\ excused' = IF running[r] > 0 THEN excused \cup {r} ELSE excused
  /\ UNCHANGED <<stage, row, resolvers, answer, responses, told, applied>>

\* MUTANT of RouteAnswer: the pending question is left in place.
RouteAnswerKeepsRow(r, v) ==
  /\ kind[r] = "question" /\ row[r] # "none"
  /\ responses' = [responses EXCEPT ![r] = Append(@, v)]
  /\ UNCHANGED <<stage, row, resolvers, answer, running, told, applied, excused>>

\* handleInteractiveResponse
RouteAnswer(r, v) ==
  /\ kind[r] = "question" /\ row[r] # "none"
  /\ responses' = [responses EXCEPT ![r] = Append(@, v)]
  /\ row' = [row EXCEPT ![r] = "none"]
  /\ UNCHANGED <<stage, resolvers, answer, running, told, applied, excused>>

Unclaimed(r) ==
  /\ row[r] = "none" /\ r \notin resolvers
  /\ UNCHANGED <<stage, row, resolvers, answer, running, responses, told, applied, excused>>

Take(r, card, v) ==
  /\ clicks[<<r, card, v>>] > 0
  /\ clicks' = [clicks EXCEPT ![<<r, card, v>>] = @ - 1]

\* ACTION Dispatch. The bridge has tried to take the buttons off the card; the
\* response handlers are asked in turn, resolvers in memory first.
Dispatch(r, card, v, edited) ==
  /\ Take(r, card, v)
  /\ Edit(r, card, edited)
  /\ \/ Resolve(r, v)
     \/ DropOrphan(r)
     \/ Reject(r, v)
     \/ \E built \in BOOLEAN : Apply(r, v, built)
     \/ StartCommand(r, v)
     \/ RouteAnswer(r, v)
     \/ Unclaimed(r)
  /\ UNCHANGED <<kind, sweep, expiring, tool, sends, got, clicked>>

\* ACTION CommandDone. The dispatch has settled; only now the row goes.
CommandDone(r, ok) ==
  /\ running[r] > 0
  /\ running' = [running EXCEPT ![r] = @ - 1]
  /\ applied' = [applied EXCEPT ![r] = @ + 1]
  /\ Tell(r, IF ok THEN "applied" ELSE "failed")
  /\ row' = [row EXCEPT ![r] = "none"]
  /\ UNCHANGED <<kind, stage, sweep, answer, resolvers, expiring, clicks, shown, question,
                 clicked, excused>>

-----------------------------------------------------------------------------
\* Restarts

\* MUTANT of StaleRows: only rows that are still open are swept.
StaleOpenRows(rows) == {r \in Of("credential") : rows[r] = "pending"}

\* What the next process's sweep reads, before its first await.
StaleRows(rows) == {r \in Of("credential") : rows[r] # "none"}

\* The process and everything in its memory is gone; a question that was being
\* delivered is due again, a credential request is the gateway's to end.
Restart ==
  /\ resolvers' = {} /\ expiring' = {}
  /\ clicks' = [c \in DOMAIN clicks |-> 0]
  /\ running' = [r \in Requests |-> 0]
  /\ sweep' = StaleRows(row)
  /\ answer' = [r \in Requests |->
       IF kind[r] = "credential" /\ stage[r] \in {"dm", "sending", "open"} THEN "lost" ELSE answer[r]]
  /\ stage' = [r \in Requests |->
       IF stage[r] \in {"idle", "due", "closed"} THEN stage[r]
       ELSE IF kind[r] = "question" /\ sends[r] < MaxSends THEN "due" ELSE "closed"]

\* The cards that are being sent.
InFlight ==
  {<<r, IF kind[r] = "question" THEN sends[r] ELSE 1>> : r \in {x \in Requests : stage[x] = "sending"}}

\* ACTION Crash. At any await; of the cards that were being sent some have landed.
Crash(landed) ==
  /\ Restart
  /\ shown' = shown \cup landed
  /\ excused' = excused \cup {x \in Requests : running[x] > 0}
  /\ UNCHANGED <<kind, row, question, clicked, told, applied>>

\* ACTION CrashInBuild. In an install that has changed the configuration and
\* builds its image; the row stays, the card has lost its buttons or not.
CrashInBuild(r, card, edited) ==
  /\ kind[r] = "self" /\ row[r] # "none" /\ clicks[<<r, card, "approve">>] > 0
  /\ Restart
  /\ Edit(r, card, edited)
  /\ applied' = [applied EXCEPT ![r] = @ + 1]
  /\ excused' = excused \cup {r} \cup {x \in Requests : running[x] > 0}
  /\ UNCHANGED <<kind, row, question, clicked, told>>

-----------------------------------------------------------------------------
Init ==
  /\ kind \in [Requests -> Kinds]
  /\ stage = [r \in Requests |-> "idle"]
  /\ row = [r \in Requests |-> "none"]
  /\ resolvers = {} /\ expiring = {} /\ sweep = {} /\ shown = {}
  /\ answer = [r \in Requests |-> "none"]
  /\ clicks = [c \in Requests \X Cards \X Values |-> 0]
  /\ running = [r \in Requests |-> 0]
  /\ tool = [r \in Requests |-> "idle"]
  /\ sends = [r \in Requests |-> 0]
  /\ responses = [r \in Requests |-> <<>>]
  /\ got = [r \in Requests |-> "none"]
  /\ clicked = [r \in Requests |-> 0]
  /\ told = [r \in Requests |-> {}]
  /\ applied = [r \in Requests |-> 0]
  /\ excused = {}

Next ==
  \/ \E landed \in SUBSET InFlight : Crash(landed)
  \/ \E r \in Requests :
      \/ \E b \in BOOLEAN : Ask(r, b) \/ FindDm(r, b) \/ Expired(r, b) \/ SweepOne(r, b) \/ CommandDone(r, b)
      \/ \E ok, landed \in BOOLEAN : Sent(r, ok, landed) \/ QuestionSent(r, ok, landed)
      \/ Timeout(r) \/ SendQuestion(r) \/ PollAnswer(r) \/ GiveUpAsking(r)
      \/ \E card \in Cards, v \in Values :
           Click(r, card, v) \/ \E edited \in BOOLEAN : Dispatch(r, card, v, edited)
      \/ \E card \in Cards, edited \in BOOLEAN : CrashInBuild(r, card, edited)

\* Promises settle and timers fire; nobody has to click.
Fairness ==
  \A r \in Requests :
    /\ WF_vars(\E found \in BOOLEAN : FindDm(r, found))
    /\ WF_vars(\E ok, landed \in BOOLEAN : Sent(r, ok, landed))
    /\ WF_vars(Timeout(r))
    /\ WF_vars(\E edited \in BOOLEAN : Expired(r, edited))
    /\ WF_vars(\E edited \in BOOLEAN : SweepOne(r, edited))

Spec == Init /\ [][Next]_vars
FairSpec == Spec /\ Fairness

-----------------------------------------------------------------------------
\* Properties

TypeOK ==
  /\ kind \in [Requests -> Kinds]
  /\ stage \in [Requests -> {"idle", "dm", "due", "sending", "open", "closed"}]
  /\ row \in [Requests -> {"none", "pending", "expired"}]
  /\ resolvers \subseteq Requests /\ expiring \subseteq Requests /\ sweep \subseteq Requests
  /\ answer \in [Requests -> {"none", "approve", "deny", "lost"}]
  /\ shown \subseteq Requests \X Cards
  /\ clicks \in [Requests \X Cards \X Values -> Nat]
  /\ running \in [Requests -> Nat]
  /\ tool \in [Requests -> {"idle", "polling", "answered", "over"}]
  /\ sends \in [Requests -> 0..MaxSends]
  /\ responses \in [Requests -> Seq(Values)]
  /\ got \in [Requests -> Values \cup {"none"}]
  /\ clicked \in [Requests -> 0..MaxClicks]
  /\ told \in [Requests -> SUBSET {"refused", "undelivered", "rejected", "applied", "failed"}]
  /\ applied \in [Requests -> Nat]
  /\ excused \subseteq Requests

\* A credential request that is waiting has its row and is unanswered: neither
\* the sweep of an earlier process's rows, nor a click that came before the
\* resolver did, nor an expiry takes the row of a live request
\* (onecli-approvals.ts:68, :204, :247).
ResolverHasRow ==
  \A r \in resolvers :
    row[r] = "pending" /\ answer[r] = "none" /\ r \notin sweep \cup expiring

\* The agent is given one verdict on a request: told of a rejection, nothing was
\* carried out, before or after; told of an application, it was carried out once.
\* Excepted are a host that dies inside the handler and a second click inside
\* an ncl command (response-handler.ts:95).
Verdicts(r) == told[r] \cap {"rejected", "applied", "failed"}

OneVerdict ==
  \A r \in Actions \ excused :
    /\ Cardinality(Verdicts(r)) <= 1
    /\ applied[r] = IF Verdicts(r) \subseteq {"rejected"} THEN 0 ELSE 1

\* A question is answered at most once for each time its card was sent, however
\* often the buttons are clicked and whether or not the card can be edited: so
\* an answer that nobody reads needs a second delivery (delivery.ts:325) or an
\* agent that stopped asking (interactive.ts:112).
OneResponsePerSend ==
  \A r \in Of("question") :
    /\ Len(responses[r]) + (IF row[r] = "none" THEN 0 ELSE 1) <= sends[r]
    /\ tool[r] = "answered" => got[r] = responses[r][1]

\* The gateway gets an answer to every request unless the host restarts, and the
\* row goes in the end, also when the host restarts while the expired card is
\* being edited or the sweep runs (onecli-approvals.ts:217, :247).
CredentialSettles ==
  \A r \in Requests :
    kind[r] = "credential" /\ stage[r] = "dm" ~> answer[r] # "none" /\ row[r] = "none"
==============================================================================
