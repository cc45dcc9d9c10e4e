----------------------------- MODULE SetupFlows -----------------------------
(***************************************************************************)
(* The channel branches of setup:auto (setup/channels/) as scripts: a      *)
(* sequence of the steps the branch takes, one operator per function of    *)
(* the source.  A script keeps what the driver's guarantees turn on: where *)
(* the operator may go back, which step changes the installation, which    *)
(* can fail, and what the branch does with a failure.  What the operator   *)
(* reads and types is not told apart.                                      *)
(*                                                                         *)
(* What a branch leaves on the machine is a set of items <<channel, part>>:*)
(* the adapter's code, a key in .env, a linked account.                    *)
(***************************************************************************)
EXTENDS Sequences

(***************************************************************************)
(* A step: op is the kind of step, name the entry it makes in the log, puts*)
(* the items it leaves, restarts whether it restarts the service, onFail   *)
(* what follows a failure:                                                 *)
(*   "stop"   await fail(...): nothing follows                             *)
(*   "go on"  fail(...) without await: the branch continues beside it      *)
(*   "throw"  fail(...) without await, and the next line needs its result  *)
(***************************************************************************)
Step(op, name, puts, restarts, onFail) ==
    [op |-> op, name |-> name, puts |-> puts, restarts |-> restarts,
     onFail |-> onFail, may |-> FALSE]

Prompt == Step("ask", "", {}, FALSE, "stop")

\* A prompt with "Back to channel selection" among its answers.
BackPrompt == Step("gate", "", {}, FALSE, "stop")

\* A prompt, or a step, that some answers and machines leave out.
Perhaps(script) == [k \in DOMAIN script |-> [script[k] EXCEPT !.may = TRUE]]

\* A child or a request that leaves nothing on the machine.
Request(name) == Step("run", name, {}, FALSE, "stop")

\* A child process that changes the installation.
Child(name, puts, restarts, onFail) == Step("run", name, puts, restarts, onFail)

\* Lines of the branch itself that cannot fail.
Own(puts, restarts) == Step("own", "", puts, restarts, "stop")

\* scripts/init-first-agent.ts: the last step of every branch that wires.
InitFirstAgent(ch, onFail) == <<Step("wire", "init-first-agent", {}, FALSE, onFail)>>

\* The operator's role and the assistant's name, before the wiring.
AskOperatorRole == <<Prompt>>
ResolveAgentName == Perhaps(<<Prompt>>)

-----------------------------------------------------------------------------
(* Telegram *)

CollectTelegramToken == Perhaps(<<BackPrompt>>) \o Perhaps(<<BackPrompt, Prompt>>)
ValidateTelegramToken == <<Request("telegram-validate")>>
AddTelegram == <<Child("telegram-install",
                       {<<"telegram", "adapter">>, <<"telegram", "key">>}, TRUE, "stop")>>
\* Five codes are handed out before the pairing is given up.
PairTelegram == Request("pair-telegram")
RunPairTelegram == <<PairTelegram>>

RunTelegramChannel ==
    CollectTelegramToken \o ValidateTelegramToken \o Perhaps(<<Prompt>>)
      \o AddTelegram \o RunPairTelegram
      \o AskOperatorRole \o ResolveAgentName \o InitFirstAgent("telegram", "stop")

-----------------------------------------------------------------------------
(* Discord *)

AskHasBotToken == <<BackPrompt>>
WalkThroughBotCreation == Perhaps(<<Prompt>>)
CollectDiscordToken == Perhaps(<<Prompt>>) \o Perhaps(<<Prompt>>)
ValidateDiscordToken == <<Request("discord-validate")>>
FetchApplicationInfo == <<Request("discord-app-info")>>
ResolveOwnerUserId == Perhaps(<<Prompt>>) \o Perhaps(<<Prompt>>)
AskHasDiscordServer == <<Prompt>>
WalkThroughServerCreation == Perhaps(<<Prompt>>)
PromptInviteBot == <<Prompt>>
AddDiscord == <<Child("discord-install",
                      {<<"discord", "adapter">>, <<"discord", "key">>}, TRUE, "stop")>>
OpenDiscordDm == <<Request("discord-open-dm")>>

RunDiscordChannel ==
    AskHasBotToken \o WalkThroughBotCreation \o CollectDiscordToken
      \o ValidateDiscordToken \o FetchApplicationInfo \o ResolveOwnerUserId
      \o AskHasDiscordServer \o WalkThroughServerCreation \o PromptInviteBot
      \o AddDiscord \o OpenDiscordDm
      \o AskOperatorRole \o ResolveAgentName \o InitFirstAgent("discord", "stop")

-----------------------------------------------------------------------------
(* WhatsApp: the adapter does nothing without linked credentials, so it is  *)
(* the branch that restarts the service, and no failure is awaited.        *)

AskAuthMethod == <<BackPrompt>>
AskPhoneNumber == Perhaps(<<Prompt>>)
AddWhatsApp == <<Child("whatsapp-install", {<<"whatsapp", "adapter">>}, FALSE, "go on")>>
\* Linked credentials of an earlier run are kept; a code expires.
WhatsAppAuth == Child("whatsapp-auth", {<<"whatsapp", "account">>}, FALSE, "go on")
RunWhatsAppAuth == <<WhatsAppAuth>>
RestartForWhatsApp == <<Own({}, TRUE)>>
AskChatPhone == <<Prompt>>
WriteAssistantHasOwnNumber == Perhaps(<<Own({<<"whatsapp", "own number">>}, FALSE)>>)

RunWhatsAppChannel ==
    AskAuthMethod \o AskPhoneNumber \o AddWhatsApp \o RunWhatsAppAuth
      \o RestartForWhatsApp \o AskChatPhone \o WriteAssistantHasOwnNumber
      \o AskOperatorRole \o ResolveAgentName \o InitFirstAgent("whatsapp", "go on")

-----------------------------------------------------------------------------
(* Signal *)

\* Only where signal-cli is missing.
EnsureSignalCli == Perhaps(<<Request("install-signal-cli")>>)
AddSignal == <<Child("signal-install", {<<"signal", "adapter">>}, FALSE, "stop")>>
SignalAuth == Child("signal-auth", {<<"signal", "account">>}, FALSE, "stop")
RunSignalAuth == <<SignalAuth>>
WriteSignalAccount == <<Own({<<"signal", "key">>}, FALSE)>>
\* Mutant: the install script is taken to restart the service.
NoRestart == <<>>

RestartForSignal == <<Own({}, TRUE)>>

\* Mutant: the adapter is installed while the operator reads the introduction.
SignalInstallFirst ==
    AddSignal \o <<BackPrompt>> \o EnsureSignalCli \o RunSignalAuth
      \o WriteSignalAccount \o RestartForSignal
      \o AskOperatorRole \o ResolveAgentName \o InitFirstAgent("signal", "stop")

RunSignalChannel ==
    <<BackPrompt>> \o EnsureSignalCli \o AddSignal \o RunSignalAuth
      \o WriteSignalAccount \o RestartForSignal
      \o AskOperatorRole \o ResolveAgentName \o InitFirstAgent("signal", "stop")

-----------------------------------------------------------------------------
(* Slack *)

WalkThroughAppCreation == <<BackPrompt>>
CollectBotToken == <<Prompt>>
CollectSigningSecret == <<Prompt>>
ValidateSlackToken == <<Request("slack-validate")>>
AddSlack == <<Child("slack-install",
                    {<<"slack", "adapter">>, <<"slack", "key">>}, TRUE, "stop")>>
CollectSlackUserId == <<Prompt>>
OpenSlackDm == <<Request("slack-open-dm")>>

RunSlackChannel ==
    WalkThroughAppCreation \o CollectBotToken \o CollectSigningSecret
      \o ValidateSlackToken \o AddSlack \o CollectSlackUserId \o OpenSlackDm
      \o AskOperatorRole \o ResolveAgentName \o InitFirstAgent("slack", "stop")

-----------------------------------------------------------------------------
(* iMessage: local mode is refused away from a Mac, before any prompt.      *)

AskMode == <<BackPrompt>> \o Perhaps(<<Request("imessage")>>)
WalkThroughFullDiskAccess == <<Prompt>>
CollectRemoteCreds == <<Prompt, Prompt>>
AskOperatorHandle == <<Prompt>>
AddIMessage == <<Child("imessage-install",
                       {<<"imessage", "adapter">>, <<"imessage", "key">>}, TRUE, "stop")>>

RunIMessageChannel(credentials) ==
    AskMode \o credentials \o AskOperatorHandle \o AddIMessage
      \o AskOperatorRole \o ResolveAgentName \o InitFirstAgent("imessage", "stop")

-----------------------------------------------------------------------------
(* Teams: a walk through the Azure portal, every stage of which ends in the *)
(* same gate; it ends without wiring.                                      *)

StepGate == <<BackPrompt>>
ConfirmPrereqs == StepGate
StepPublicUrl == <<Prompt>>
AskAppType == <<Prompt>>
AskUuid == <<Prompt>>
StepAppRegistration == <<Prompt>> \o AskAppType \o AskUuid \o Perhaps(AskUuid) \o StepGate
StepClientSecret == <<Prompt, Prompt>> \o StepGate
StepAzureBot == <<Prompt>> \o StepGate
StepEnableTeamsChannel == StepGate
BuildTeamsAppPackage == Child("teams-manifest", {}, FALSE, "throw")
StepGenerateManifest == <<BuildTeamsAppPackage>>
StepSideload == StepGate
AddTeams == Child("teams-install",
                  {<<"teams", "adapter">>, <<"teams", "key">>}, TRUE, "go on")
InstallAdapter == <<AddTeams>>
FinishWithHandoff == <<Prompt>>

\* hasKeys: the branch found Teams credentials in .env and asks first.
RunTeamsChannel(hasKeys, reuse) ==
    (IF hasKeys THEN <<BackPrompt>> ELSE <<>>)
      \o (IF reuse THEN <<>>
          ELSE ConfirmPrereqs \o StepPublicUrl \o StepAppRegistration
                 \o StepClientSecret \o StepAzureBot \o StepEnableTeamsChannel
                 \o StepGenerateManifest \o StepSideload)
      \o InstallAdapter \o FinishWithHandoff

-----------------------------------------------------------------------------

\* A channel that setup cannot install: its name is asked for and noted.
AskOtherChannelName == <<BackPrompt, Prompt>>

\* The scripts a branch can turn out to follow, given what is installed.
Scripts(ch, items) ==
    CASE ch = "telegram" -> {RunTelegramChannel}
      [] ch = "discord"  -> {RunDiscordChannel}
      [] ch = "whatsapp" -> {RunWhatsAppChannel}
      [] ch = "signal"   -> {RunSignalChannel}
      [] ch = "slack"    -> {RunSlackChannel}
      [] ch = "imessage" -> {RunIMessageChannel(c) :
                               c \in {WalkThroughFullDiskAccess, CollectRemoteCreds}}
      [] ch = "teams"    -> LET keys == <<"teams", "key">> \in items
                            IN  {RunTeamsChannel(keys, r) : r \in {FALSE, keys}}
      [] ch = "other"    -> {AskOtherChannelName}
=============================================================================
