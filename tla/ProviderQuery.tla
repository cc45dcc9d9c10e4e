---------------------------- MODULE ProviderQuery ----------------------------
(***************************************************************************)
(* One query of the agent, between the poll loop that opened it            *)
(* (poll-loop.ts) and the engine that answers (providers/claude.ts,        *)
(* providers/amplifier-agent.ts), and the continuation both keep so that   *)
(* the next query goes on with the conversation.                           *)
(*                                                                         *)
(* AgentRunner follows the claims of rows; here a row that was pushed is   *)
(* followed into the provider's queue, into a turn of the engine, or into  *)
(* nothing.  Pre-task scripts and accumulated rows are left out.           *)
(*                                                                         *)
(* The two providers differ where it matters:                              *)
(*   claude           one SDK process per query reads the queue; end()     *)
(*                    lets it drain; errors are thrown at the poll loop    *)
(*   amplifier-agent  one engine process per turn; what is pushed waits in *)
(*                    a buffer for the turn's end and becomes the next     *)
(*                    prompt; end() empties the buffer; errors are events  *)
(***************************************************************************)
EXTENDS Naturals, Sequences

CONSTANTS
    NRows,        \* rows of messages_in, numbered in the order of arrival
    Kinds,        \* of "chat", "clear" and "slash" (any other runner command)
    BufferCap,    \* AMPLIFIER_AGENT_BUFFER_CAP
    MaxCrashes    \* bound on deaths of the container

ASSUME ProviderAssumption ==
    /\ NRows \in Nat \ {0} /\ BufferCap \in Nat \ {0} /\ MaxCrashes \in Nat
    /\ Kinds \subseteq {"chat", "clear", "slash"}

Rows == 1..NRows
None == 0           \* no session; sessions are numbered as they are issued

VARIABLES
    \* the session's databases and the engine's disk
    kind, arrived,
    status,         \* what processing_ack says of the row
    stored,         \* session_state: the continuation of this provider
    transcripts,    \* sessions the engine can resume
    issued,         \* session ids given out
    \* the poll loop
    provider,
    pc,             \* "down", "rotate", "idle" or "query"
    continuation,   \* the loop's own copy
    batch,          \* the rows the query was opened with
    ended,          \* endedForCommand
    follow,         \* rows claimed by the follow-up poll, whose scripts run
    nudged,         \* unwrappedNudged
    \* the query
    gen,            \* where its events come from
    queue,          \* prompts pushed and not begun: sets of rows, {} the nudge
    prompt,         \* the prompt that is begun
    sid,            \* the query's session
    aborted,        \* end() was called
    dropped,        \* overflowDropped
    \* history
    taken,          \* rows the engine was given
    forfeited,      \* rows a named event kept from it
    errored,        \* rows of a query that failed before any result
    crashes

tables == <<kind, arrived, status, stored, transcripts, issued>>
loop   == <<provider, pc, continuation, batch, ended, follow, nudged>>
query  == <<gen, queue, prompt, sid, aborted, dropped>>
hist   == <<taken, forfeited, errored, crashes>>
vars   == <<tables, loop, query, hist>>

Closed == {"closed", "threw", "refused"}

TypeOK ==
    /\ kind \in [Rows -> Kinds] /\ arrived \in 0..NRows
    /\ status \in [Rows -> {"pending", "processing", "completed"}]
    /\ provider \in {"claude", "amplifier-agent"}
    /\ pc \in {"down", "rotate", "idle", "query"}
    /\ gen \in {"none", "spawn", "init", "submit", "turn", "boundary"} \cup Closed
    /\ queue \in Seq(SUBSET Rows)
    /\ stored \in 0..issued /\ continuation \in 0..issued /\ sid \in 0..issued
    /\ batch \cup follow \cup prompt \cup taken \cup forfeited \cup errored \subseteq Rows

Init ==
    /\ kind \in [Rows -> Kinds] /\ arrived = 0
    /\ status = [r \in Rows |-> "pending"]
    /\ stored = None /\ transcripts = {} /\ issued = 0
    /\ provider \in {"claude", "amplifier-agent"}
    /\ pc = "down" /\ continuation = None
    /\ batch = {} /\ ended = FALSE /\ follow = {} /\ nudged = FALSE
    /\ gen = "none" /\ queue = <<>> /\ prompt = {} /\ sid = None
    /\ aborted = FALSE /\ dropped = 0
    /\ taken = {} /\ forfeited = {} /\ errored = {} /\ crashes = 0

Claude    == provider = "claude"
Amplifier == provider = "amplifier-agent"

Due        == {r \in 1..arrived : status[r] = "pending"}
Waiting    == prompt \cup (UNION {queue[k] : k \in DOMAIN queue})
Mark(S, s) == status' = [r \in Rows |-> IF r \in S THEN s ELSE status[r]]

\* The completed rows among S that the engine has not seen are lost.
Forfeit(S) == forfeited' = forfeited \cup (S \ taken)

-----------------------------------------------------------------------------
(* The poll loop *)

Arrive ==
    /\ arrived < NRows
    /\ arrived' = arrived + 1
    /\ UNCHANGED <<kind, status, stored, transcripts, issued, loop, query, hist>>

\* maybeRotateContinuation: a transcript that has grown too large is moved
\* aside; the continuation is cleared after.
Rotates == Claude /\ stored \in transcripts

\* runPollLoop up to its first poll.
Boot ==
    /\ pc = "down"
    /\ Mark({r \in Rows : status[r] = "processing"}, "pending")
    /\ continuation' = stored
    /\ \/ pc' = "idle" /\ UNCHANGED transcripts
       \/ Rotates /\ pc' = "rotate" /\ transcripts' = transcripts \ {stored}
    /\ UNCHANGED <<kind, arrived, stored, issued, provider, batch, ended, follow, nudged,
                   query, hist>>

ClearRotated ==
    /\ pc = "rotate"
    /\ continuation' = None /\ stored' = None
    /\ pc' = "idle"
    /\ UNCHANGED <<kind, arrived, status, transcripts, issued, provider, batch, ended,
                   follow, nudged, query, hist>>

\* clearContinuation and the loop's own copy.
ClearBoth == continuation' = None /\ stored' = None

\* Mutant: only the loop's own copy is cleared.
ClearOwn == continuation' = None /\ UNCHANGED stored

\* /clear.
RunClear == ClearBoth

\* provider.query: the Claude stream is given the prompt, the other keeps it.
OpenQuery(S) ==
    /\ gen' = "spawn" /\ sid' = continuation'
    /\ queue' = (IF Claude THEN <<S>> ELSE <<>>)
    /\ prompt' = (IF Claude THEN {} ELSE S)
    /\ aborted' = FALSE /\ dropped' = 0

\* A poll of the outer loop: commands first, then a query for the rest.
Poll ==
    /\ pc = "idle" /\ Due # {}
    /\ LET clears == {r \in Due : kind[r] = "clear"}
           rest   == Due \ clears
       IN  /\ status' = [r \in Rows |-> CASE r \in clears -> "completed"
                                          [] r \in rest   -> "processing"
                                          [] OTHER        -> status[r]]
           /\ IF clears # {} THEN RunClear ELSE UNCHANGED <<continuation, stored>>
           /\ IF rest = {}
              THEN UNCHANGED <<pc, batch, query>>
              ELSE pc' = "query" /\ batch' = rest /\ OpenQuery(rest)
    /\ ended' = FALSE /\ nudged' = FALSE
    /\ UNCHANGED <<kind, arrived, transcripts, issued, provider, follow, hist>>

\* Mutant: the follow-up poll leaves a command to the outer loop, and the
\* query open.
LeaveOpen == UNCHANGED <<queue, aborted, forfeited>>

\* end(): the stream drains, or the buffer is emptied.
End ==
    /\ aborted' = TRUE
    /\ IF Amplifier
       THEN /\ queue' = <<>>
            /\ Forfeit(UNION {queue[k] : k \in DOMAIN queue})
       ELSE UNCHANGED <<queue, forfeited>>

\* The follow-up poll finds a command: the stream is ended for it.
EndForCommand ==
    /\ pc = "query" /\ ~ended /\ follow = {}
    /\ \E r \in Due : kind[r] # "chat"
    /\ ended' = TRUE
    /\ End
    /\ UNCHANGED <<tables, provider, pc, continuation, batch, follow, nudged,
                   gen, prompt, sid, dropped, taken, errored, crashes>>

\* It finds rows, claims them and awaits their scripts.
FollowClaim ==
    /\ pc = "query" /\ ~ended /\ follow = {}
    /\ Due # {} /\ \A r \in Due : kind[r] = "chat"
    /\ follow' = Due /\ Mark(Due, "processing")
    /\ UNCHANGED <<kind, arrived, stored, transcripts, issued, provider, pc, continuation,
                   batch, ended, nudged, query, hist>>

\* push(): ignored after end(), counted beyond the cap, else queued.
Push(S) ==
    IF Amplifier /\ aborted
    THEN UNCHANGED <<queue, dropped>> /\ Forfeit(S)
    ELSE IF Amplifier /\ Len(queue) >= BufferCap
    THEN dropped' = dropped + 1 /\ UNCHANGED queue /\ Forfeit(S)
    ELSE /\ queue' = Append(queue, S) /\ UNCHANGED dropped
         /\ IF gen \in Closed THEN Forfeit(S) ELSE UNCHANGED forfeited

\* The rows are pushed and completed; the query has not ended for the loop,
\* which learns of the end of its events a moment later.
FollowPush ==
    /\ pc = "query" /\ follow # {}
    /\ Push(follow)
    /\ Mark(follow, "completed")
    /\ follow' = {} /\ nudged' = FALSE
    /\ UNCHANGED <<kind, arrived, stored, transcripts, issued, provider, pc, continuation,
                   batch, ended, gen, prompt, sid, aborted, taken, errored, crashes>>

-----------------------------------------------------------------------------
(* The query's events *)

SameButQuery == UNCHANGED <<kind, arrived, status, loop, crashes>>

\* A fresh session id, unless the query has one.
Session == IF sid = None THEN issued + 1 ELSE sid

Issue == sid' = Session /\ issued' = (IF Session > issued THEN Session ELSE issued)

\* amplifier-agent: the engine is spawned; init, which the loop stores.
Spawn ==
    /\ Amplifier /\ gen = "spawn"
    /\ Issue /\ stored' = Session
    /\ gen' = "submit"
    /\ SameButQuery
    /\ UNCHANGED <<transcripts, queue, prompt, aborted, dropped, taken, forfeited, errored>>

\* The engine resumes what it was told to resume, or begins it.
Resumable == sid = continuation => sid \in transcripts

Submit ==
    /\ Amplifier /\ gen = "submit" /\ Resumable
    /\ taken' = taken \cup prompt /\ transcripts' = transcripts \cup {sid}
    /\ prompt' = {}
    /\ gen' = "turn"
    /\ SameButQuery
    /\ UNCHANGED <<stored, issued, queue, sid, aborted, dropped, forfeited, errored>>

\* claude: the SDK reads a prompt from the stream.
Take ==
    /\ Claude /\ gen \in {"spawn", "boundary"} /\ queue # <<>>
    /\ gen = "spawn" => continuation = None \/ continuation \in transcripts
    /\ Issue
    /\ taken' = taken \cup Head(queue) /\ transcripts' = transcripts \cup {Session}
    /\ queue' = Tail(queue)
    /\ gen' = "init"
    /\ SameButQuery
    /\ UNCHANGED <<stored, prompt, aborted, dropped, forfeited, errored>>

\* Its init message reaches the loop.
SdkInit ==
    /\ gen = "init"
    /\ stored' = sid /\ gen' = "turn"
    /\ SameButQuery
    /\ UNCHANGED <<transcripts, issued, queue, prompt, sid, aborted, dropped,
                   taken, forfeited, errored>>

\* A result completes the batch; text without an addressee is answered with
\* a nudge, once between two pushes of rows.
Result ==
    /\ gen = "turn"
    /\ Mark(batch, "completed")
    /\ \/ UNCHANGED <<queue, dropped, forfeited, nudged>>
       \/ ~nudged /\ nudged' = TRUE /\ Push({})
    /\ UNCHANGED <<kind, arrived, stored, transcripts, issued, provider, pc, continuation,
                   batch, ended, follow, gen, prompt, sid, aborted, taken, errored, crashes>>

\* The turn's last event, or the first one after end().
TurnEnds ==
    /\ gen = "turn" /\ (Amplifier \/ \A r \in batch : status[r] = "completed")
    /\ gen' = "boundary"
    /\ SameButQuery
    /\ UNCHANGED <<stored, transcripts, issued, queue, prompt, sid, aborted, dropped,
                   taken, forfeited, errored>>

\* Mutant: the next turn is given the first of the buffered prompts.
FirstOnly == queue[1]

\* The buffered prompts are joined into one.
Joined == UNION {queue[k] : k \in DOMAIN queue}

\* amplifier-agent: overflow is told, what is buffered is the next prompt.
Chain ==
    /\ Amplifier /\ gen = "boundary"
    /\ dropped' = 0
    /\ IF queue = <<>> THEN gen' = "closed" /\ UNCHANGED <<queue, prompt>>
       ELSE gen' = "spawn" /\ prompt' = Joined /\ queue' = <<>>
    /\ SameButQuery
    /\ UNCHANGED <<stored, transcripts, issued, sid, aborted, taken, forfeited, errored>>

\* claude: the stream has ended and is drained.
Drained ==
    /\ Claude /\ gen = "boundary" /\ aborted /\ queue = <<>>
    /\ gen' = "closed"
    /\ SameButQuery
    /\ UNCHANGED <<stored, transcripts, issued, queue, prompt, sid, aborted, dropped,
                   taken, forfeited, errored>>

\* What an error leaves of the query: nothing that still waits is begun.
Breaks(to) ==
    /\ gen' = to
    /\ Forfeit(Waiting)
    /\ errored' = errored \cup {r \in batch : status[r] # "completed"}
    /\ UNCHANGED <<kind, arrived, stored, transcripts, issued, loop, queue, prompt, sid,
                   aborted, dropped, taken, crashes>>

\* amplifier-agent: an error event, and the end of the events.  One while the
\* prompt is submitted is followed by an empty result.
SpawnFails  == Amplifier /\ gen = "spawn" /\ Breaks("closed") /\ UNCHANGED status
EngineFails == /\ Amplifier /\ gen \in {"submit", "turn"}
               /\ Breaks("closed") /\ Mark(batch, "completed")

\* claude: the SDK throws; one message tells of a session it cannot find.
SdkThrows  == Claude /\ gen \in {"spawn", "turn"} /\ Breaks("threw") /\ UNCHANGED status
SdkRefuses == /\ Claude /\ gen = "spawn"
              /\ continuation # None /\ continuation \notin transcripts
              /\ Breaks("refused") /\ UNCHANGED status

\* processQuery returned or threw: the batch is completed in any case.
Finish ==
    /\ pc = "query" /\ gen \in Closed
    /\ Mark(batch, "completed")
    /\ CASE gen = "closed"  -> /\ continuation' = (IF sid = None THEN continuation ELSE sid)
                               /\ UNCHANGED stored
         [] gen = "threw"   -> UNCHANGED <<continuation, stored>>
         [] gen = "refused" -> ClearBoth
    /\ pc' = "idle" /\ batch' = {} /\ follow' = {} /\ ended' = FALSE
    /\ gen' = "none" /\ queue' = <<>> /\ prompt' = {} /\ sid' = None
    /\ aborted' = FALSE /\ dropped' = 0
    /\ UNCHANGED <<kind, arrived, transcripts, issued, provider, nudged, hist>>

\* The container dies: memory is gone, databases and transcripts stay.
Crash ==
    /\ pc # "down" /\ crashes < MaxCrashes
    /\ crashes' = crashes + 1
    /\ Forfeit({r \in Waiting : status[r] = "completed"})
    /\ pc' = "down" /\ continuation' = None
    /\ batch' = {} /\ ended' = FALSE /\ follow' = {} /\ nudged' = FALSE
    /\ gen' = "none" /\ queue' = <<>> /\ prompt' = {} /\ sid' = None
    /\ aborted' = FALSE /\ dropped' = 0
    /\ UNCHANGED <<tables, provider, taken, errored>>

Next ==
    \/ Arrive \/ Boot \/ ClearRotated \/ Poll
    \/ EndForCommand \/ FollowClaim \/ FollowPush
    \/ Spawn \/ Submit \/ Take \/ SdkInit \/ Result \/ TurnEnds \/ Chain \/ Drained
    \/ SpawnFails \/ EngineFails \/ SdkThrows \/ SdkRefuses
    \/ Finish \/ Crash

Spec == Init /\ [][Next]_vars

(* The loop and its timer run, scripts have a timeout, and the engine ends *)
(* its turns or fails: a turn that hangs is the host sweep's to end.       *)
Fairness ==
    /\ WF_vars(Boot) /\ WF_vars(ClearRotated) /\ WF_vars(Poll)
    /\ WF_vars(EndForCommand) /\ WF_vars(FollowPush)
    /\ WF_vars(Spawn) /\ WF_vars(Submit \/ EngineFails) /\ WF_vars(Take) /\ WF_vars(SdkInit)
    /\ WF_vars(Result) /\ WF_vars(TurnEnds) /\ WF_vars(Chain) /\ WF_vars(Drained)
    /\ WF_vars(SdkRefuses) /\ WF_vars(Finish)

FairSpec == Spec /\ Fairness

-----------------------------------------------------------------------------
(* Properties *)

(***************************************************************************)
(* A row that is completed because it was pushed reaches the engine, or    *)
(* waits for its turn, however pushes, turn ends, nudges and the end of    *)
(* the query interleave.  The exceptions are named: end() of the buffered  *)
(* provider, its cap, a push behind the last event, an error and a crash.  *)
(***************************************************************************)
FollowUpsTaken ==
    \A r \in Rows : status[r] = "completed" /\ kind[r] # "clear" =>
        r \in taken \cup Waiting \cup forfeited

(***************************************************************************)
(* The loop's continuation and the stored one agree whenever a query may   *)
(* be opened, so that a container that dies resumes what its successor     *)
(* would have been told, and /clear, rotation and a refused session hold   *)
(* across restarts.  Only a throwing provider's first session may be       *)
(* stored and not known to the loop (poll-loop.ts:426-434, :221-237).      *)
(***************************************************************************)
ResumesWhatIsStored ==
    pc = "idle" => continuation = stored \/ (Claude /\ continuation = None)

(***************************************************************************)
(* A command that arrives while a query is open ends the stream, and the   *)
(* outer loop carries it out in the end (poll-loop.ts:334-339), although   *)
(* the query may drain, fail, or have a follow-up poll in flight.          *)
(***************************************************************************)
CommandGetsThrough ==
    \A r \in Rows : kind[r] # "chat" /\ r <= arrived ~> status[r] = "completed"

(***************************************************************************)
(* "Agent-runner does NOT set `failed` - it leaves the message as          *)
(* `processing`" (docs/agent-runner-details.md:446): a row whose query     *)
(* failed before any result is not completed.                              *)
(***************************************************************************)
ErrorLeavesClaim == \A r \in errored : status[r] # "completed"
=============================================================================
