-------------------------------- MODULE Setup --------------------------------
(***************************************************************************)
(* setup:auto, the driver that takes a fresh checkout to a running service *)
(* (setup/auto.ts with setup/lib/runner.ts and setup/logs.ts).             *)
(*                                                                         *)
(* The driver is a chain of processes.  Each runs the steps from the first *)
(* one, passing over those named in NANOCLAW_SKIP; when a step fails and   *)
(* the operator applied a fix, the process starts another with the steps   *)
(* it completed added to the list, and lives only to pass on its exit      *)
(* code.  Entering the docker group after the sandbox was built starts     *)
(* another in the same way.  What the steps do to the machine stays.       *)
(*                                                                         *)
(* fail() asks the operator before it exits.  A caller that does not await *)
(* it goes on while the question is open, so an open question is a process *)
(* of its own beside the driver.                                           *)
(***************************************************************************)
EXTENDS SetupFlows, Naturals, FiniteSets

CONSTANTS
    Channels,   \* the channels the operator may choose, of those setup knows
    MaxRuns     \* bound on the processes of one chain, the sg one apart

ASSUME SetupAssumption ==
    /\ Channels \subseteq {"telegram", "discord", "whatsapp", "signal",
                           "slack", "imessage", "teams", "other"}
    /\ MaxRuns \in Nat \ {0}

Steps == {"environment", "container", "onecli", "auth", "mounts", "service",
          "cli-agent", "timezone", "channel", "verify"}

Stages == Steps \cup {"reexec", "first-chat", "terminal", "where", "flow",
                      "failed", "incomplete", "complete", "exit"}

NoFlow == [ch |-> "none", rest |-> <<>>]

VARIABLES
    \* this process
    pc,         \* where the driver is
    skip,       \* NANOCLAW_SKIP, as the process was started
    done,       \* completedInRun: steps completed in this process
    offers,     \* steps whose fail() still waits for the operator
    flow,       \* the channel branch being followed and what is left of it
    sg,         \* NANOCLAW_REEXEC_SG
    \* the machine
    docker,     \* "ok", or "denied" until the docker group is entered
    built,      \* image, vault address, access rules, service definition
    auth,       \* the credential: "none", "stored", or "declined" by the operator
    tz,         \* TZ in .env: "none", "detected" or "given"
    manager,    \* what runs the service: "launchd", "systemd" or a "script"
    service,    \* "stopped" or "running"
    items,      \* what channel branches left: code, keys, linked accounts
    serving,    \* the items that were there when the service last started
    groups,     \* agent groups that are wired
    wired,      \* channels with a wired chat
    \* the chain
    runs,       \* processes so far
    finished,   \* how often each step was carried out
    touched     \* the branch changed the machine since the channel was chosen

machine == <<docker, built, auth, tz, manager, service, items, serving, groups, wired>>
process == <<pc, skip, done, offers, flow, sg>>
chain == <<runs, finished, touched>>
setupVars == <<process, machine, chain>>

SetupTypeOK ==
    /\ pc \in Stages
    /\ skip \subseteq Steps /\ done \subseteq Steps
    /\ sg \in BOOLEAN
    /\ docker \in {"ok", "denied"}
    /\ built \subseteq {"container", "onecli", "mounts", "service"}
    /\ auth \in {"none", "stored", "declined"}
    /\ tz \in {"none", "detected", "given"}
    /\ manager \in {"launchd", "systemd", "script"}
    /\ service \in {"stopped", "running"}
    /\ serving \subseteq items
    /\ groups \subseteq {"ping", "terminal", "dm"}
    /\ wired \subseteq Channels
    /\ runs \in 1..(MaxRuns + 1)

SetupInit ==
    /\ pc = "environment" /\ skip = {} /\ done = {} /\ offers = {}
    /\ flow = NoFlow /\ sg = FALSE
    /\ docker \in {"ok", "denied"} /\ manager \in {"launchd", "systemd", "script"}
    /\ built = {} /\ auth = "none" /\ tz = "none"
    /\ service = "stopped" /\ items = {} /\ serving = {} /\ groups = {} /\ wired = {}
    /\ runs = 1
    /\ finished = [s \in Steps |-> 0]
    /\ touched = FALSE

-----------------------------------------------------------------------------
(* The driver's own moves *)

Next1 == [environment |-> "container", container |-> "reexec", reexec |-> "onecli",
          onecli |-> "auth", auth |-> "mounts", mounts |-> "service",
          service |-> "cli-agent"]

\* After these steps nothing but the next step follows.
After(s) == CASE s = "cli-agent" -> "timezone"
              [] s = "timezone"  -> "channel"
              [] s = "channel"   -> "verify"
              [] s = "verify"    -> "complete"
              [] OTHER           -> Next1[s]

At(s) == pc = s /\ s \notin skip

\* logs.step with status success or skipped: the step counts as completed.
Log(s) == done' = done \cup {s}

CarriedOut(s) == finished' = [finished EXCEPT ![s] = @ + 1]

\* PassOver: the process was told to skip the step.  The group check passes
\* over the terminal agent when any agent is wired already.
PassOver(s) ==
    /\ pc = s /\ s \in Steps
    /\ s \in skip \/ (s = "cli-agent" /\ groups # {})
    /\ pc' = IF s = "container" THEN "onecli" ELSE After(s)
    /\ UNCHANGED <<skip, done, offers, flow, sg, machine, chain>>

\* Mutant: any status counts as completed.
FailLogged(name) ==
    /\ pc' = "failed"
    /\ offers' = offers \cup {name}
    /\ done' = done \cup {name}
    /\ UNCHANGED <<skip, flow, sg>>

\* fail(name), awaited: the driver is where the question is.
Fail(name) ==
    /\ pc' = "failed"
    /\ offers' = offers \cup {name}
    /\ UNCHANGED <<skip, done, flow, sg>>

\* A step that ended badly: logged as failed, nothing else.
StepFails(s) ==
    /\ At(s) /\ s \in {"environment", "container", "onecli", "auth", "mounts", "service"}
    /\ s = "auth" => auth # "stored"
    /\ Fail(s)
    /\ UNCHANGED <<machine, chain>>

\* The environment step only looks.
Environment ==
    /\ At("environment")
    /\ pc' = After("environment") /\ Log("environment") /\ CarriedOut("environment")
    /\ UNCHANGED <<skip, offers, flow, sg, machine, runs, touched>>

\* A step that leaves one thing on the machine.
Builds(s) ==
    /\ At(s)
    /\ built' = built \cup {s}
    /\ pc' = After(s) /\ Log(s) /\ CarriedOut(s)
    /\ UNCHANGED <<skip, offers, flow, sg, docker, auth, tz, manager, service, items,
                   serving, groups, wired, runs, touched>>

\* The image is built, under sg when the socket is denied to this shell.
Container == Builds("container")

\* A remote vault, the one that is there, or a new one: its address is
\* written to .env whatever the health check says.
OneCli == Builds("onecli")

\* The access rules that are there are kept, else an empty list is written.
Mounts == Builds("mounts")

\* Mutant: the list holds what this process completed only.
DoneOnly == done

\* The list another process gets: what this one was told and what it did.
SkipList == skip \cup done

\* spawnSync of setup:auto: a new process with the list, and this one gone.
Rerun(list, underSg) ==
    /\ touched' = FALSE
    /\ runs' = runs + 1
    /\ pc' = "environment" /\ skip' = list /\ done' = {} /\ offers' = {}
    /\ flow' = NoFlow /\ sg' = underSg

\* maybeReexecUnderSg: enter the docker group by starting over under sg.
Reexec ==
    /\ pc = "reexec" /\ docker = "denied" /\ ~sg
    /\ Rerun(SkipList, TRUE)
    /\ docker' = "ok"
    /\ UNCHANGED <<built, auth, tz, manager, service, items, serving, groups, wired, finished>>

StayInGroup ==
    /\ pc = "reexec" /\ (docker = "ok" \/ sg)
    /\ pc' = After("reexec")
    /\ UNCHANGED <<skip, done, offers, flow, sg, machine, chain>>

-----------------------------------------------------------------------------
(* Claude account *)

SameButAuth == UNCHANGED <<skip, offers, flow, sg, docker, built, tz, manager, service,
                           items, serving, groups, wired, runs, touched>>

\* The vault holds a secret already: logged as skipped.
AuthPresent ==
    /\ At("auth") /\ auth = "stored"
    /\ pc' = After("auth") /\ Log("auth")
    /\ SameButAuth /\ UNCHANGED <<auth, finished>>

\* runSubscriptionAuth logs "interactive", which does not count as completed.
SubscriptionAuth ==
    /\ At("auth") /\ auth # "stored"
    /\ auth' = "stored"
    /\ pc' = After("auth") /\ CarriedOut("auth") /\ UNCHANGED done
    /\ SameButAuth

\* A pasted token or a custom endpoint.
PasteAuth ==
    /\ At("auth") /\ auth # "stored"
    /\ auth' = "stored"
    /\ pc' = After("auth") /\ Log("auth") /\ CarriedOut("auth")
    /\ SameButAuth

\* The operator connects later.
DeclineAuth ==
    /\ At("auth") /\ auth # "stored"
    /\ auth' = "declined"
    /\ pc' = After("auth") /\ Log("auth") /\ CarriedOut("auth")
    /\ SameButAuth

-----------------------------------------------------------------------------
(* The service *)

\* A start, or a stop and start: it comes up with what is installed, or not.
Comes(up, present) ==
    /\ service' = IF up THEN "running" ELSE "stopped"
    /\ serving' = IF up THEN present ELSE serving

Managed == manager \in {"launchd", "systemd"}

\* A restart asked of launchd or systemd; where neither runs, nothing happens.
Restarted(present) ==
    IF Managed THEN \E up \in BOOLEAN : Comes(up, present)
    ELSE UNCHANGED <<service, serving>>

\* Each of the three writes its definition and reports success, also when
\* the load or the restart failed; the script is not run.
SetupLaunchd == manager = "launchd" /\ \E loaded \in BOOLEAN : Comes(loaded, items)
SetupSystemd == manager = "systemd" /\ \E active \in BOOLEAN : Comes(active, items)
SetupNohupFallback == manager = "script" /\ UNCHANGED <<service, serving>>

Service ==
    /\ At("service")
    /\ built' = built \cup {"service"}
    /\ SetupLaunchd \/ SetupSystemd \/ SetupNohupFallback
    /\ pc' = After("service") /\ Log("service") /\ CarriedOut("service")
    /\ UNCHANGED <<skip, offers, flow, sg, docker, auth, tz, manager, items,
                   groups, wired, runs, touched>>

\* The operator runs the script.
StartByHand ==
    /\ manager = "script" /\ "service" \in built /\ service = "stopped"
    /\ pc \notin {"exit", "complete", "incomplete"}
    /\ Comes(TRUE, items)
    /\ UNCHANGED <<process, docker, built, auth, tz, manager, items, groups, wired, chain>>

-----------------------------------------------------------------------------
(* The first agent and the terminal chat *)

SameButGroups == UNCHANGED <<skip, flow, sg, docker, built, auth, tz, manager, service,
                             items, serving, wired, runs, touched>>

\* init-cli-agent wires an agent to the terminal; it may stop before that.
InitCliAgent(agent) == groups' = groups \cup {agent}

\* The scratch agent of the ping.
CliAgent ==
    /\ At("cli-agent") /\ groups = {}
    /\ \/ /\ InitCliAgent("ping")
          /\ pc' = "first-chat" /\ Log("cli-agent") /\ CarriedOut("cli-agent")
          /\ UNCHANGED offers
       \/ /\ InitCliAgent("ping") \/ UNCHANGED groups
          /\ pc' = "failed" /\ offers' = offers \cup {"cli-agent"}
          /\ UNCHANGED <<done, finished>>
    /\ SameButGroups

DeleteCliAgent == groups' = groups \ {"ping"}

\* The ping is answered only through the service's socket.
PingCliAgent(answered) == answered => service = "running"

\* An answer lets the scratch agent be deleted, which may fail and is only
\* noted; without an answer it stays.
FirstChat ==
    /\ pc = "first-chat"
    /\ \/ /\ PingCliAgent(TRUE)
          /\ DeleteCliAgent \/ UNCHANGED groups
          /\ pc' \in {"terminal", "timezone"}
       \/ /\ PingCliAgent(FALSE)
          /\ pc' = "timezone"
          /\ UNCHANGED groups
    /\ SameButGroups /\ UNCHANGED <<done, offers, finished>>

\* The operator wants to chat first: an agent for the terminal.
TerminalAgent ==
    /\ pc = "terminal"
    /\ \/ /\ InitCliAgent("terminal")
          /\ pc' = "timezone"
          /\ UNCHANGED offers
       \/ /\ InitCliAgent("terminal") \/ UNCHANGED groups
          /\ pc' = "failed" /\ offers' = offers \cup {"create-terminal-agent"}
    /\ SameButGroups /\ UNCHANGED <<done, finished>>

-----------------------------------------------------------------------------
(* Timezone: the step runs twice, to detect and to store an answer *)

SameButZone == UNCHANGED <<skip, flow, sg, docker, built, auth, manager, service, items,
                           serving, groups, wired, runs, touched>>

\* The step's own choice: the answer, what .env has, what the system shows.
StoreZone(answer) ==
    tz' = IF answer THEN "given" ELSE IF tz = "none" THEN "detected" ELSE tz

\* The zone is found and stored, or the system has none to show.
DetectZone ==
    /\ At("timezone")
    /\ \/ /\ StoreZone(FALSE)
          /\ Log("timezone") /\ CarriedOut("timezone")
       \/ tz = "none" /\ UNCHANGED <<tz, done, finished>>
    /\ pc' = "where"
    /\ SameButZone /\ UNCHANGED offers

\* The operator confirms what was found, or leaves it.
KeepZone ==
    /\ pc = "where"
    /\ pc' = "channel"
    /\ SameButZone /\ UNCHANGED <<tz, done, offers, finished>>

\* The operator names another zone, which a second run of the step stores.
AnswerZone ==
    /\ pc = "where"
    /\ \/ /\ StoreZone(TRUE) /\ pc' = "channel"
          /\ Log("timezone") /\ CarriedOut("timezone")
          /\ UNCHANGED offers
       \/ /\ pc' = "failed" /\ offers' = offers \cup {"timezone"}
          /\ UNCHANGED <<tz, done, finished>>
    /\ SameButZone

ZoneFails ==
    /\ At("timezone")
    /\ Fail("timezone")
    /\ UNCHANGED <<machine, chain>>

-----------------------------------------------------------------------------
(* The channel *)

SameButFlow == UNCHANGED <<skip, sg, done, docker, built, auth, tz, manager, groups,
                           wired, runs, finished>>

\* askChannelChoice; the branch is picked.
ChooseChannel ==
    /\ At("channel")
    /\ \E ch \in Channels : \E script \in Scripts(ch, items) :
           flow' = [ch |-> ch, rest |-> script]
    /\ pc' = "flow" /\ touched' = FALSE
    /\ SameButFlow /\ UNCHANGED <<offers, items, service, serving>>

\* "Skip for now".
NoChannel ==
    /\ At("channel")
    /\ pc' = "verify" /\ touched' = FALSE
    /\ SameButFlow /\ UNCHANGED <<offers, flow, items, service, serving>>

Now(ops) == pc = "flow" /\ flow.rest # <<>> /\ Head(flow.rest).op \in ops

Proceed == flow' = [flow EXCEPT !.rest = Tail(@)]

SameButProceed == SameButFlow /\ UNCHANGED pc

\* An answer, or a part of the branch that is left out.
Answer ==
    /\ pc = "flow" /\ flow.rest # <<>>
    /\ Head(flow.rest).op \in {"ask", "gate"} \/ Head(flow.rest).may
    /\ Proceed
    /\ SameButProceed /\ UNCHANGED <<offers, items, service, serving, touched>>

\* "Back to channel selection": the branch returns, the driver asks again.
Back ==
    /\ Now({"gate"})
    /\ pc' = "channel" /\ flow' = NoFlow
    /\ SameButFlow /\ UNCHANGED <<offers, items, service, serving, touched>>

\* A child ends well, or the branch's own lines run.
StepDone ==
    /\ Now({"run", "own"})
    /\ LET s == Head(flow.rest)
       IN  /\ items' = items \cup s.puts
           /\ IF s.restarts THEN Restarted(items')
              ELSE UNCHANGED <<service, serving>>
           /\ touched' = (touched \/ s.puts # {})
    /\ Proceed
    /\ SameButProceed /\ UNCHANGED offers

\* What follows a failure of the step at hand.
AfterFailure(s) ==
    /\ offers' = offers \cup {s.name}
    /\ CASE s.onFail = "stop"  -> pc' = "failed" /\ UNCHANGED flow
         [] s.onFail = "go on" -> Proceed /\ UNCHANGED pc
         [] s.onFail = "throw" -> pc' = "exit" /\ UNCHANGED flow

StepBroke ==
    /\ Now({"run"})
    /\ AfterFailure(Head(flow.rest))
    /\ SameButFlow /\ UNCHANGED <<items, service, serving, touched>>

\* init-first-agent writes user, group, role, chat and wiring, each unless
\* it is there, before it sends the welcome through the service's socket.
WireIfMissing == groups' = groups \cup {"dm"} /\ wired' = wired \cup {flow.ch}

Wire ==
    /\ Now({"wire"})
    /\ \/ /\ service = "running"
          /\ WireIfMissing
          /\ Proceed /\ UNCHANGED <<pc, offers>>
       \/ /\ WireIfMissing \/ UNCHANGED <<groups, wired>>
          /\ AfterFailure(Head(flow.rest))
    /\ touched' = (touched \/ wired' # wired)
    /\ UNCHANGED <<skip, sg, done, docker, built, auth, tz, manager, service, items,
                   serving, runs, finished>>

FlowEnds ==
    /\ pc = "flow" /\ flow.rest = <<>>
    /\ pc' = "verify" /\ flow' = NoFlow
    /\ SameButFlow /\ UNCHANGED <<offers, items, service, serving, touched>>

-----------------------------------------------------------------------------
(* The end *)

\* determineVerifyStatus: the vault's address counts as credentials.
Healthy == service = "running" /\ "onecli" \in built /\ groups # {}

\* A failed check is soft: it is explained, and the driver ends.
Verify ==
    /\ At("verify")
    /\ pc' = IF Healthy THEN "complete" ELSE "incomplete"
    /\ IF Healthy THEN Log("verify") ELSE UNCHANGED done
    /\ UNCHANGED <<skip, offers, flow, sg, machine, chain>>

\* offerClaudeOnFailure: no Claude, no wish for help, no command or no fix
\* all end the process, also one that went on meanwhile.
GiveUp ==
    /\ offers # {} /\ pc # "exit"
    /\ pc' = "exit"
    /\ UNCHANGED <<skip, done, offers, flow, sg, machine, chain>>

\* Claude was run, whether or not it fixed anything, and the operator retries.
Retry ==
    /\ offers # {} /\ pc # "exit" /\ runs < MaxRuns
    /\ Rerun(SkipList, sg)
    /\ UNCHANGED <<machine, finished>>

\* ensureAnswer: Ctrl-C at a prompt ends the process with code 0.
Cancel ==
    /\ pc \in {"auth", "terminal", "where", "channel", "failed"} \/ Now({"ask", "gate"})
    /\ pc' = "exit"
    /\ UNCHANGED <<skip, done, offers, flow, sg, machine, chain>>

Over == pc \in {"exit", "complete", "incomplete"} /\ UNCHANGED setupVars

SetupNext ==
    \/ \E s \in Steps : PassOver(s) \/ StepFails(s)
    \/ Environment \/ Container \/ OneCli \/ Mounts \/ Reexec \/ StayInGroup
    \/ AuthPresent \/ SubscriptionAuth \/ PasteAuth \/ DeclineAuth
    \/ Service \/ StartByHand
    \/ CliAgent \/ FirstChat \/ TerminalAgent
    \/ DetectZone \/ KeepZone \/ AnswerZone \/ ZoneFails
    \/ ChooseChannel \/ NoChannel \/ Answer \/ Back \/ StepDone \/ StepBroke
    \/ Wire \/ FlowEnds
    \/ Verify \/ GiveUp \/ Retry \/ Cancel \/ Over

SetupSpec == SetupInit /\ [][SetupNext]_setupVars

-----------------------------------------------------------------------------
(* Properties *)

(***************************************************************************)
(* However often a chain retries and re-enters under sg, what it carried   *)
(* out it does not carry out again: no second image build, vault install,  *)
(* sign-in, service definition or scratch agent.  fail() and               *)
(* maybeReexecUnderSg rebuild the list from what the process was told and  *)
(* what it completed (runner.ts:383-391, auto.ts:1494-1500).               *)
(***************************************************************************)
NoRepeat ==
    \A s \in {"environment", "container", "onecli", "auth", "mounts", "service",
              "cli-agent"} : finished[s] <= 1

(***************************************************************************)
(* What a process is told to skip has its effect on the machine: a step    *)
(* that failed, and whose fix may have done anything, is never on the list *)
(* of the process that retries it (logs.ts:35-38, :95-97).                 *)
(***************************************************************************)
SkippedIsDone ==
    /\ (skip \cup done) \cap {"container", "onecli", "mounts", "service"} \subseteq built
    /\ "auth" \in skip \cup done => auth # "none"
    /\ "timezone" \in skip \cup done => tz # "none"

\* The channels whose branch awaits its failures and wires a chat.
AwaitedChannels == {"telegram", "discord", "signal", "slack", "imessage"}

(***************************************************************************)
(* A running service serves the chats setup wired: it was started after    *)
(* everything the branch left for the channel was in place, although code, *)
(* keys and links come from different steps, some of which restart the     *)
(* service and some not, and although a chain may come back to a channel.  *)
(* Where neither launchd nor systemd runs, setup restarts nothing.         *)
(***************************************************************************)
WiredIsServed ==
    service = "running" /\ Managed =>
        \A ch \in wired \cap AwaitedChannels :
            /\ <<ch, "adapter">> \in serving
            /\ \A i \in items : i[1] = ch => i \in serving

(***************************************************************************)
(* Back is only offered while the branch has left nothing behind: no code, *)
(* keys, links, groups or wirings since the channel was chosen             *)
(* (lib/back-nav.ts:10-13).                                                *)
(***************************************************************************)
BackLeavesNothing ==
    [][pc = "flow" /\ pc' = "channel" => ~touched]_setupVars
=============================================================================
