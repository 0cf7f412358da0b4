----------------------------- MODULE ToolGate -----------------------------
(***************************************************************************)
(* What stands between an MCP client and a Docker daemon: _hosts.py parses *)
(* the host registry, server.py decides which tools exist and guards each  *)
(* call, system.py pools one SDK client per host and protects the server's *)
(* own container, and _cli.py points the docker CLI at the same host, or   *)
(* runs the command on it over SSH when there is no usable local CLI.      *)
(*                                                                         *)
(* A call takes two steps, so what it relies on may change between them:   *)
(* a person or context_use moves the active CLI context, a plugin appears  *)
(* or goes, the plugin probe's cached answer expires, a client is dropped. *)
(***************************************************************************)
EXTENDS Naturals, Sequences, FiniteSets, SequencesExt

CONSTANTS Settings,  \* environments the server may be started in: records of
                     \* hosts (a sequence of entries, << >> if unset),
                     \* dockerHost, readonly, nodestructive, disable, socket,
                     \* boxed (in a container) and override
          Daemons,   \* the daemons there are
          Here,      \* the one on the machine the server runs on
          Ssh,       \* those reached over ssh://
          None

ASSUME SettingsAssumption ==
    \A s \in Settings :
        /\ s.hosts \in Seq(ToSet(s.hosts)) /\ \A i \in DOMAIN s.hosts : s.hosts[i].label # None
        /\ None \notin s.disable
ASSUME DaemonsAssumption == Here \in Daemons \ Ssh /\ Ssh \subseteq Daemons /\ None \notin Daemons

VARIABLES setting,     \* the environment
          phase,       \* "load", "register", "preflight", "serve", "exited"
          registry,    \* the pinned hosts, the default first
          registered,  \* names of the registered tools
          guarded,     \* those wrapped with the host guard
          told,        \* the instructions built at startup
          pool,        \* the SDK client of a label: the daemon it talks to
          selfLabel,   \* the self host, once the own container is identified
          context,     \* the active CLI context's daemon, None for "default"
          cli,         \* what the machine has: "none", "bare" or "full"
          probe,       \* the plugin cache: "unknown", "yes" or "no"
          call,        \* the call under way or just answered, with the
                       \* daemon it reached
          alive        \* the server's own container runs

startup == <<setting, phase, registry, registered, guarded, told, selfLabel>>
machine == <<context, cli, probe>>
vars == <<startup, machine, pool, call, alive>>

----------------------------------------------------------------------------
(* The tools: a representative of each category, domain and backend.       *)

Tool(name, category, domain, via, host) ==
    [name |-> name, category |-> category, domain |-> domain, via |-> via, host |-> host]

Tools == {Tool("container_list",   "READ_ONLY",   "containers", "sdk", TRUE),
          Tool("container_stop",   "MUTATING",    "containers", "sdk", TRUE),
          Tool("container_remove", "DESTRUCTIVE", "containers", "sdk", TRUE),
          Tool("compose_ps",       "READ_ONLY",   "compose",    "cli", TRUE),
          Tool("compose_down",     "DESTRUCTIVE", "compose",    "cli", TRUE),
          Tool("context_use",      "MUTATING",    "context",    "cli", FALSE),
          Tool("system_close",     "MUTATING",    "system",     "sdk", TRUE),
          Tool("system_reconnect", "MUTATING",    "system",     "sdk", TRUE),
          Tool("tool_list",        "READ_ONLY",   None,         "none", FALSE)}

Domains == {t.domain : t \in Tools} \ {None}
ConnectionControl == {"system_close", "system_reconnect"}
AlwaysOn == {"system", "containers"}
EndsContainers == {"container_stop", "container_remove", "compose_down"}

Disabled == setting.disable \ AlwaysOn
Ignored == setting.disable \cap AlwaysOn
Unknown == Disabled \ Domains

ShouldRegister(t) ==
    /\ setting.readonly => t.category = "READ_ONLY"
    /\ setting.nodestructive => t.category # "DESTRUCTIVE"
DomainEnabled(t) == t.domain = None \/ t.domain \notin Disabled

IsWrite(t) == t.category \in {"MUTATING", "DESTRUCTIVE"} /\ t.name \notin ConnectionControl
IsDestructive(t) == t.category = "DESTRUCTIVE" /\ t.name \notin ConnectionControl

----------------------------------------------------------------------------
(* The host registry.                                                      *)

Legacy == setting.hosts = << >>

ResolveLocal == IF setting.socket THEN Here ELSE None
ResolveAuto == IF context # None THEN context ELSE ResolveLocal
Url(endpoint) ==
    CASE endpoint = "auto" -> ResolveAuto
      [] endpoint = "local" -> ResolveLocal
      [] OTHER -> endpoint

MakeHost(entry) ==
    [label |-> entry.label, url |-> Url(entry.endpoint), ro |-> entry.ro, nd |-> entry.nd]
LegacyHost ==
    [label |-> "default", ro |-> FALSE, nd |-> FALSE,
     url |-> IF setting.dockerHost # None THEN setting.dockerHost ELSE ResolveAuto]

\* An unknown scheme or marker stands for every entry _make_host rejects.
Parses == /\ \A i, j \in DOMAIN setting.hosts :
                i # j => setting.hosts[i].label # setting.hosts[j].label
          /\ \A i \in DOMAIN setting.hosts : setting.hosts[i].endpoint # "bad"

ParseRegistry ==
    IF Legacy THEN <<LegacyHost>>
    ELSE [i \in DOMAIN setting.hosts |-> MakeHost(setting.hosts[i])]

Labels == {registry[i].label : i \in DOMAIN registry}
IsMulti == Len(registry) >= 2
Resolve(h) == IF h = None THEN registry[1]
              ELSE CHOOSE entry \in ToSet(registry) : entry.label = h

GuardNeeded == IsMulti \/ Resolve(None).ro \/ Resolve(None).nd

\* _enforce_host_guard: why a call is refused, "ok" if it is not.
\* Mutant: the refusals are looked up for a named host only.
GuardNamed(t, h) ==
    IF h = None THEN (IF IsWrite(t) /\ IsMulti THEN "unnamed" ELSE "ok")
    ELSE IF h \notin Labels THEN "unknown"
    ELSE IF IsWrite(t) /\ Resolve(h).ro THEN "readonly"
    ELSE IF IsDestructive(t) /\ Resolve(h).nd THEN "nondestructive"
    ELSE "ok"
Guard(t, h) ==
    IF h = None /\ IsWrite(t) /\ IsMulti THEN "unnamed"
    ELSE IF h # None /\ h \notin Labels THEN "unknown"
    ELSE IF IsWrite(t) /\ Resolve(h).ro THEN "readonly"
    ELSE IF IsDestructive(t) /\ Resolve(h).nd THEN "nondestructive"
    ELSE "ok"

\* _apply_host_schema: the hosts the advertised schema lets a call name.
Schema(t) ==
    IF ~t.host \/ ~IsMulti THEN {None}
    ELSE IF IsWrite(t) THEN Labels
    ELSE Labels \cup {None}

----------------------------------------------------------------------------
(* Startup: load, the tools' imports, preflight.                           *)

Call(t, h, step, reply) == [tool |-> t, host |-> h, step |-> step, reply |-> reply, reached |-> None]
NoCall == Call(None, None, "none", "none")
AllLabels == {"default"} \cup
             UNION {{s.hosts[i].label : i \in DOMAIN s.hosts} : s \in Settings}

Init ==
    /\ setting \in Settings
    /\ phase = "load"
    /\ registry = << >>
    /\ registered = {} /\ guarded = {}
    /\ told = [domains |-> {}, multi |-> FALSE, warn |-> FALSE]
    /\ pool = [l \in AllLabels |-> None]
    /\ selfLabel = None
    /\ context \in Daemons \cup {None}
    /\ cli \in {"none", "full"}
    /\ probe = "unknown"
    /\ call = NoCall
    /\ alive = TRUE

Load ==
    /\ phase = "load"
    /\ IF Parses THEN registry' = ParseRegistry /\ phase' = "register"
       ELSE UNCHANGED registry /\ phase' = "exited"
    /\ UNCHANGED <<setting, registered, guarded, told, selfLabel, machine, pool, call, alive>>

\* What finalize_instructions advertises, and what tool_list answers.
\* Mutant: a misspelt domain is not warned of.
WarnIgnored == Ignored
Warned == Unknown \cup Ignored
BuildInstructions(names) ==
    [domains |-> {t.domain : t \in {u \in Tools : u.name \in names}} \ {None},
     multi |-> IsMulti, warn |-> Warned # {}]
QueryCatalog ==
    [tools |-> registered,
     domains |-> {t.domain : t \in {u \in Tools : u.name \in registered}} \ {None},
     hidden |-> {t.domain : t \in {u \in Tools : u.name \notin registered}} \ {None},
     warnings |-> Warned]

Register ==
    LET names == {t.name : t \in {u \in Tools : ShouldRegister(u) /\ DomainEnabled(u)}}
    IN /\ phase = "register"
       /\ registered' = names
       /\ guarded' = {t.name : t \in {u \in Tools : u.name \in names /\ u.host /\ GuardNeeded}}
       /\ told' = BuildInstructions(names)
       /\ phase' = "preflight"
       /\ UNCHANGED <<setting, registry, selfLabel, machine, pool, call, alive>>

\* An explicit host keeps its pinned URL; without HOSTS the endpoint is
\* resolved again.
DefaultEndpoint == IF setting.dockerHost # None THEN setting.dockerHost ELSE ResolveAuto
BuildClient(entry) ==
    LET url == IF Legacy THEN DefaultEndpoint ELSE entry.url
    IN IF url = None THEN Here ELSE url
Client(entry) == IF pool[entry.label] # None THEN pool[entry.label] ELSE BuildClient(entry)

SelfHosts == {i \in DOMAIN registry : registry[i].url \in {None, Here}}
SelfHost == registry[CHOOSE i \in SelfHosts : \A j \in SelfHosts : i <= j]

\* The default host answers the ping or not, and the own container is found
\* on the self host or not; if not, the guard stays inert.
StartupPreflight ==
    /\ phase = "preflight"
    /\ phase' = "serve"
    /\ \/ /\ setting.boxed /\ SelfHosts # {}
          /\ selfLabel' = SelfHost.label
          /\ pool' = [pool EXCEPT ![SelfHost.label] = BuildClient(SelfHost),
                                  ![registry[1].label] = BuildClient(registry[1])]
       \/ UNCHANGED <<selfLabel, pool>>
    /\ UNCHANGED <<setting, registry, registered, guarded, told, machine, call, alive>>

----------------------------------------------------------------------------
(* A call.                                                                 *)

Answer(why) == call' = [call EXCEPT !.step = "none", !.reply = why]
Reach(daemon) == call' = [call EXCEPT !.step = "none", !.reply = "done", !.reached = daemon]

Ask(t, h) ==
    /\ phase = "serve" /\ call.step = "none" /\ alive
    /\ t.name \in registered
    /\ ~t.host => h = None
    /\ LET verdict == IF t.name \in guarded THEN Guard(t, h)
                      ELSE IF h # None /\ h \notin Labels THEN "unknown"
                      ELSE "ok"
       IN IF verdict = "ok"
          THEN call' = Call(t, h, "act", "none")
          ELSE call' = Call(t, h, "none", verdict)
    /\ UNCHANGED <<startup, machine, pool, alive>>

Acting(via) == call.step = "act" /\ call.tool.via = via
Target == Resolve(call.host)

\* The own container may be what a call ends: it is on the local daemon.
InReach(daemon) == setting.boxed /\ daemon = Here /\ call.tool.name \in EndsContainers

\* guard_not_self, which the container tools ask: an own container that was
\* identified, named by a call on the self host.
RefusesSelf(entry) == selfLabel # None /\ entry.label = selfLabel /\ ~setting.override

SdkCall ==
    LET daemon == Client(Target)
    IN /\ Acting("sdk") /\ call.tool.name \notin ConnectionControl
       /\ pool' = [pool EXCEPT ![Target.label] = daemon]
       /\ \E own \in IF InReach(daemon) THEN BOOLEAN ELSE {FALSE} :
             IF own /\ RefusesSelf(Target)
             THEN Answer("own container") /\ UNCHANGED alive
             ELSE Reach(daemon) /\ alive' = ~own
       /\ UNCHANGED <<startup, machine>>

SystemClose ==
    /\ Acting("sdk") /\ call.tool.name = "system_close"
    /\ pool' = [l \in AllLabels |->
                  IF call.host = None \/ l = Target.label THEN None ELSE pool[l]]
    /\ Answer("done")
    /\ UNCHANGED <<startup, machine, alive>>

\* The daemon of the rebuilt client answers, or the old client is kept.
SystemReconnect ==
    /\ Acting("sdk") /\ call.tool.name = "system_reconnect"
    /\ \/ pool' = [pool EXCEPT ![Target.label] = BuildClient(Target)] /\ Answer("done")
       \/ UNCHANGED pool /\ Answer("failed")
    /\ UNCHANGED <<startup, machine, alive>>

\* has_plugin: the cached answer while there is one, else what is there now.
HasPlugin == IF probe = "unknown" THEN cli = "full" ELSE probe = "yes"
RemembersPlugin == probe' = IF HasPlugin THEN "yes" ELSE "no"

ShouldRemoteExec(entry) == entry.url \in Ssh /\ (cli = "none" \/ ~HasPlugin)

\* _apply_host_env, and what the docker CLI makes of it: DOCKER_HOST, else
\* its active context, else the platform's default.
\* Mutant: the pinned URL is not put in the environment.
AmbientDaemon(entry) == IF context # None THEN context ELSE Here
CliDaemon(entry) ==
    LET pinned == IF Legacy THEN setting.dockerHost ELSE entry.url
    IN IF pinned # None THEN pinned ELSE IF context # None THEN context ELSE Here

\* The project of a compose_down may be the one the own container belongs to; no
\* tool of the CLI asks guard_not_self.
CliCall ==
    /\ Acting("cli") /\ call.tool.host
    /\ IF Target.url \in Ssh /\ cli = "none" THEN UNCHANGED probe ELSE RemembersPlugin
    /\ \/ /\ ShouldRemoteExec(Target)
          /\ Reach(Target.url) /\ UNCHANGED alive
       \/ /\ ~ShouldRemoteExec(Target) /\ HasPlugin /\ cli = "full"
          /\ Reach(CliDaemon(Target))
          /\ alive' \in IF InReach(CliDaemon(Target)) THEN BOOLEAN ELSE {TRUE}
       \/ /\ ~ShouldRemoteExec(Target) /\ ~(HasPlugin /\ cli = "full")
          /\ Answer("no plugin") /\ UNCHANGED alive
    /\ UNCHANGED <<startup, context, cli, pool>>

ContextUse ==
    /\ Acting("cli") /\ call.tool.name = "context_use"
    /\ IF cli = "none" THEN UNCHANGED context /\ Answer("no plugin")
       ELSE context' \in Daemons \cup {None} /\ Answer("done")
    /\ UNCHANGED <<startup, cli, probe, pool, alive>>

ToolList ==
    /\ Acting("none")
    /\ Answer("done")
    /\ UNCHANGED <<startup, machine, pool, alive>>

\* A person switches contexts, installs or removes the CLI or a plugin; the
\* probe's answer is kept for a limited time.
ContextMoves ==
    /\ context' \in Daemons \cup {None}
    /\ UNCHANGED <<startup, cli, probe, pool, call, alive>>

CliChanges ==
    /\ phase = "serve"
    /\ cli' \in {"none", "bare", "full"} \ {cli}
    /\ UNCHANGED <<startup, context, probe, pool, call, alive>>

ProbeExpires ==
    /\ probe # "unknown" /\ probe' = "unknown"
    /\ UNCHANGED <<startup, context, cli, pool, call, alive>>

Startup == Load \/ Register \/ StartupPreflight
Act == SdkCall \/ SystemClose \/ SystemReconnect \/ CliCall \/ ContextUse \/ ToolList

Next ==
    \/ Startup
    \/ \E t \in Tools, h \in AllLabels \cup {None} : Ask(t, h)
    \/ Act
    \/ ContextMoves \/ CliChanges \/ ProbeExpires

Spec == Init /\ [][Next]_vars

----------------------------------------------------------------------------
(* Properties                                                              *)

Entry(label) == CHOOSE e \in ToSet(setting.hosts) : e.label = label

\* Whatever reaches a daemon is something the operator's settings allow: no
\* write on an (ro) host and no removal on an (nd) one, named or defaulted to,
\* nothing a switch or a disabled domain rules out, and, with several hosts, no
\* write on a host the caller did not name.
OnlyAllowedEffects ==
    call.reached # None =>
        LET t == call.tool
            entry == IF call.host = None THEN setting.hosts[1] ELSE Entry(call.host)
        IN /\ setting.readonly => t.category = "READ_ONLY"
           /\ setting.nodestructive => t.category # "DESTRUCTIVE"
           /\ t.domain \notin setting.disable \ {"system", "containers"}
           /\ ~Legacy =>
                /\ entry.ro => t.category = "READ_ONLY"
                /\ entry.nd => t.category # "DESTRUCTIVE"
                /\ Len(setting.hosts) > 1 /\ t.category # "READ_ONLY" => call.host # None

\* A configured host whose endpoint was resolved is one daemon for the life of
\* the server: the SDK, the local CLI and the remote CLI all reach it, whatever
\* becomes of the CLI context, the pooled client or the plugin.
OneDaemonPerLabel ==
    ~Legacy /\ call.reached # None /\ Target.url # None => call.reached = Target.url

\* The server says what it is: its instructions name the domains that have a
\* tool to call, a domain asked to be dropped is gone, or reported, and a call that
\* keeps to the advertised schema is never refused for the host it names or omits.
SurfaceIsTrue ==
    /\ phase = "serve" =>
          /\ told.domains = QueryCatalog.domains
          /\ \A t \in Tools : t.name \notin registered /\ t.domain # None =>
                t.domain \in QueryCatalog.hidden
          /\ \A d \in setting.disable :
                \/ d \in Domains \ told.domains
                \/ d \in QueryCatalog.warnings /\ told.warn
    /\ call.reply \in {"unnamed", "unknown"} => call.host \notin Schema(call.tool)
============================================================================
