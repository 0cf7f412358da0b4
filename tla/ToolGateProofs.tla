--------------------------- MODULE ToolGateProofs ---------------------------
(***************************************************************************)
(* What ToolGate lets reach a daemon is allowed by the settings and is the *)
(* daemon its label was configured for, and the server is what it says it  *)
(* is: proved for any settings, labels and daemons.                        *)
(***************************************************************************)
EXTENDS ToolGate, WellFoundedInduction, TLAPS

\* The pinned registry is the configured one, entry by entry.
RegistryIsPinned ==
  phase \notin {"load", "exited"} =>
    /\ Parses
    /\ registry \in Seq(ToSet(registry))
    /\ Legacy => Len(registry) = 1
    /\ ~Legacy =>
         /\ Len(registry) = Len(setting.hosts)
         /\ \A i \in DOMAIN registry :
              /\ registry[i].label = setting.hosts[i].label
              /\ registry[i].ro = setting.hosts[i].ro
              /\ registry[i].nd = setting.hosts[i].nd

\* The tools there are, and the guarded ones, are those the settings leave.
ToolsAreThoseLeft ==
  /\ phase \in {"load", "register", "exited"} => registered = {}
  /\ phase \in {"preflight", "serve"} => \A t \in Tools : t.name \in registered =>
       /\ ShouldRegister(t) /\ DomainEnabled(t)
       /\ t.host /\ GuardNeeded => t.name \in guarded

\* What the settings say of a tool, and, if it reaches a host, of that host.
PermittedAnywhere(t) ==
  /\ setting.readonly => t.category = "READ_ONLY"
  /\ setting.nodestructive => t.category # "DESTRUCTIVE"
  /\ t.domain \notin setting.disable \ {"system", "containers"}
PermittedOn(t, h) ==
  LET entry == IF h = None THEN setting.hosts[1] ELSE Entry(h)
  IN /\ entry.ro => t.category = "READ_ONLY"
     /\ entry.nd => t.category # "DESTRUCTIVE"
     /\ Len(setting.hosts) > 1 /\ t.category # "READ_ONLY" => h # None
ReachesHost(t) == t.host /\ t.name \notin ConnectionControl

\* A call in its second step, or one that reached a daemon, passed the guard.
CallPassedGuard ==
  /\ call = [tool |-> call.tool, host |-> call.host, step |-> call.step,
             reply |-> call.reply, reached |-> call.reached]
  /\ call.step = "act" \/ call.reached # None =>
       /\ phase = "serve"
       /\ call.tool \in Tools
       /\ call.host # None => call.host \in Labels
       /\ PermittedAnywhere(call.tool)
       /\ ReachesHost(call.tool) /\ ~Legacy => PermittedOn(call.tool, call.host)
  /\ call.reached # None => ReachesHost(call.tool)

GuardInv ==
  /\ setting \in Settings
  /\ RegistryIsPinned
  /\ ToolsAreThoseLeft
  /\ CallPassedGuard

\* A pooled client talks to the daemon its label's entry was resolved to.
Pinned(entry) == IF entry.url = None THEN Here ELSE entry.url
PoolIsPinned ==
  /\ pool = [l \in AllLabels |-> pool[l]]
  /\ phase = "load" => \A l \in AllLabels : pool[l] = None
  /\ ~Legacy /\ phase \notin {"load", "exited"} =>
       \A i \in DOMAIN registry : pool[registry[i].label] \in {None, Pinned(registry[i])}

DaemonInv == PoolIsPinned /\ OneDaemonPerLabel

\* The instructions were built from the tools that are registered, and only those
\* of them with a host are guarded; nothing is refused before the server serves.
SurfaceInv ==
  /\ phase \in {"preflight", "serve"} => told = BuildInstructions(registered)
  /\ \A t \in Tools : t.name \in guarded => t.host
  /\ phase # "serve" => call.reply = "none"
  /\ call.reply \in {"unnamed", "unknown"} => call.host \notin Schema(call.tool)

----------------------------------------------------------------------------
\* The tool of a name.
Named(n) ==
  CASE n = "container_list"   -> Tool(n, "READ_ONLY",   "containers", "sdk", TRUE)
    [] n = "container_stop"   -> Tool(n, "MUTATING",    "containers", "sdk", TRUE)
    [] n = "container_remove" -> Tool(n, "DESTRUCTIVE", "containers", "sdk", TRUE)
    [] n = "compose_ps"       -> Tool(n, "READ_ONLY",   "compose",    "cli", TRUE)
    [] n = "compose_down"     -> Tool(n, "DESTRUCTIVE", "compose",    "cli", TRUE)
    [] n = "context_use"      -> Tool(n, "MUTATING",    "context",    "cli", FALSE)
    [] n = "system_close"     -> Tool(n, "MUTATING",    "system",     "sdk", TRUE)
    [] n = "system_reconnect" -> Tool(n, "MUTATING",    "system",     "sdk", TRUE)
    [] n = "tool_list"        -> Tool(n, "READ_ONLY",   None,         "none", FALSE)

\* A tool is known by its name.
LEMMA ToolNames == \A t, u \in Tools : t.name = u.name => t = u
<1>1. \A t \in Tools : t = Named(t.name)
  BY SMTT(60) DEF Tools, Tool, Named
<1> QED
  BY <1>1

\* Every tool has one of the three categories; one that uses the SDK has a host,
\* and one that uses the CLI does not control the connection.
LEMMA ToolKinds ==
  \A t \in Tools : /\ t.category \in {"READ_ONLY", "MUTATING", "DESTRUCTIVE"}
                   /\ t.via = "sdk" => t.host
                   /\ t.via = "cli" => t.name \notin ConnectionControl
BY DEF Tools, Tool, ConnectionControl

\* With a pinned registry a label names one entry, in the registry as in the
\* settings, and the two entries correspond.
LEMMA LabelNamesEntry ==
  ASSUME RegistryIsPinned, phase \notin {"load", "exited"}, ~Legacy,
         setting \in Settings, NEW h \in Labels, h # None
  PROVE  \E i \in DOMAIN registry : Resolve(h) = registry[i] /\ Entry(h) = setting.hosts[i]
<1>1. DOMAIN registry = DOMAIN setting.hosts
  BY SettingsAssumption DEF RegistryIsPinned
<1>2. PICK i \in DOMAIN registry : registry[i].label = h
  BY DEF Labels
<1>3. \A j \in DOMAIN registry : registry[j].label = h => j = i
  BY <1>1, <1>2 DEF RegistryIsPinned, Parses
<1>4. Resolve(h) = registry[i]
  <2>1. registry[i] \in ToSet(registry)
    BY DEF ToSet
  <2>2. \A e \in ToSet(registry) : e.label = h => e = registry[i]
    BY <1>3 DEF ToSet
  <2> QED
    BY <1>2, <2>1, <2>2 DEF Resolve
<1>5. Entry(h) = setting.hosts[i]
  <2>1. setting.hosts[i] \in ToSet(setting.hosts) /\ setting.hosts[i].label = h
    BY <1>1, <1>2 DEF ToSet, RegistryIsPinned
  <2>2. \A e \in ToSet(setting.hosts) : e.label = h => e = setting.hosts[i]
    BY <1>1, <1>3 DEF ToSet, RegistryIsPinned
  <2> QED
    BY <2>1, <2>2 DEF Entry
<1> QED
  BY <1>4, <1>5

\* Whatever the guard lets pass, or need not look at, is permitted on its host.
LEMMA GuardPermits ==
  ASSUME GuardInv, phase = "serve", ~Legacy,
         NEW t \in Tools, NEW h, ReachesHost(t), h # None => h \in Labels,
         GuardNeeded => Guard(t, h) = "ok"
  PROVE  PermittedOn(t, h)
<1> DEFINE entry == IF h = None THEN setting.hosts[1] ELSE Entry(h)
<1>1. /\ registry \in Seq(ToSet(registry)) /\ setting.hosts \in Seq(ToSet(setting.hosts))
      /\ Len(registry) = Len(setting.hosts) /\ Len(registry) > 0
  BY SettingsAssumption DEF GuardInv, RegistryIsPinned, Legacy
<1>2. PICK i \in DOMAIN registry : Resolve(h) = registry[i] /\ entry = setting.hosts[i]
  <2>1. CASE h = None
    BY <1>1, <2>1 DEF Resolve
  <2>2. CASE h # None
    BY <2>2, LabelNamesEntry DEF GuardInv
  <2> QED
    BY <2>1, <2>2
<1>3. (Resolve(h).ro <=> entry.ro) /\ (Resolve(h).nd <=> entry.nd)
  BY <1>2 DEF GuardInv, RegistryIsPinned
<1>4. /\ IsWrite(t) <=> t.category # "READ_ONLY"
      /\ IsDestructive(t) <=> t.category = "DESTRUCTIVE"
  BY ToolKinds DEF ReachesHost, IsWrite, IsDestructive
<1>5. CASE GuardNeeded
  BY <1>1, <1>3, <1>4, <1>5 DEF Guard, IsMulti, PermittedOn
<1>6. CASE ~GuardNeeded
  <2>1. ~IsMulti /\ ~registry[1].ro /\ ~registry[1].nd
    BY <1>6 DEF GuardNeeded, Resolve
  <2>2. i = 1 /\ ~(Len(setting.hosts) > 1)
    BY <1>1, <1>2, <2>1 DEF IsMulti
  <2> QED
    BY <1>2, <1>3, <2>1, <2>2 DEF PermittedOn
<1> QED
  BY <1>5, <1>6

----------------------------------------------------------------------------
\* A function on 1..n is a sequence of its own elements.
LEMMA SequenceOfElements ==
  ASSUME NEW n \in Nat, NEW f, f = [i \in 1..n |-> f[i]]
  PROVE  f \in Seq(ToSet(f)) /\ Len(f) = n
<1>1. DOMAIN f = 1..n
  OBVIOUS
<1>2. \A i \in 1..n : f[i] \in ToSet(f)
  BY <1>1 DEF ToSet
<1> QED
  BY <1>1, <1>2

\* At startup nothing has been registered, nothing called.
LEMMA GuardInit == Init => GuardInv
BY DEF Init, GuardInv, RegistryIsPinned, ToolsAreThoseLeft, CallPassedGuard, NoCall, Call

\* Loading pins the registry, entry by entry.
LEMMA GuardLoad ==
  ASSUME GuardInv, Load
  PROVE  GuardInv'
<1>1. RegistryIsPinned'
  <2>1. CASE ~Parses
    BY <2>1 DEF Load, RegistryIsPinned
  <2>2. CASE Parses /\ Legacy
    <3>1. registry' = <<LegacyHost>>
      BY <2>2 DEF Load, ParseRegistry
    <3>2. registry' \in Seq(ToSet(registry')) /\ Len(registry') = 1
      BY <3>1, SequenceOfElements
    <3> QED
      BY <2>2, <3>2 DEF Load, RegistryIsPinned, Legacy, Parses
  <2>3. CASE Parses /\ ~Legacy
    <3>1. setting.hosts \in Seq(ToSet(setting.hosts))
      BY SettingsAssumption DEF GuardInv
    <3>2. registry' = [i \in 1..Len(setting.hosts) |-> MakeHost(setting.hosts[i])]
      BY <2>3, <3>1 DEF Load, ParseRegistry
    <3>3. Len(setting.hosts) \in Nat
      BY <3>1
    <3>4. registry' \in Seq(ToSet(registry')) /\ Len(registry') = Len(setting.hosts)
      BY <3>2, <3>3, SequenceOfElements
    <3>5. \A i \in DOMAIN registry' : /\ registry'[i].label = setting.hosts[i].label
                                     /\ registry'[i].ro = setting.hosts[i].ro
                                     /\ registry'[i].nd = setting.hosts[i].nd
      BY <3>2 DEF MakeHost
    <3> QED
      BY <2>3, <3>4, <3>5 DEF Load, RegistryIsPinned, Legacy, Parses
  <2> QED
    BY <2>1, <2>2, <2>3
<1>2. ToolsAreThoseLeft'
  BY DEF Load, GuardInv, ToolsAreThoseLeft
<1>3. CallPassedGuard'
  BY DEF Load, GuardInv, CallPassedGuard
<1> QED
  BY <1>1, <1>2, <1>3 DEF Load, GuardInv

\* Registration keeps the tools the settings leave, and wraps those with a host.
LEMMA GuardRegister ==
  ASSUME GuardInv, Register
  PROVE  GuardInv'
<1>1. RegistryIsPinned'
  BY DEF Register, GuardInv, RegistryIsPinned, Legacy, Parses
<1>2. ToolsAreThoseLeft'
  <2> DEFINE names == {t.name : t \in {u \in Tools : ShouldRegister(u) /\ DomainEnabled(u)}}
  <2>1. /\ registered' = names /\ phase' = "preflight"
        /\ guarded' = {t.name : t \in {u \in Tools : u.name \in names /\ u.host /\ GuardNeeded}}
    BY DEF Register
  <2>2. ASSUME NEW t \in Tools, t.name \in names
        PROVE  /\ ShouldRegister(t) /\ DomainEnabled(t)
               /\ t.host /\ GuardNeeded => t.name \in guarded'
    BY <2>1, <2>2, ToolNames
  <2>3. \A t \in Tools : /\ ShouldRegister(t)' <=> ShouldRegister(t)
                        /\ DomainEnabled(t)' <=> DomainEnabled(t)
    BY DEF Register, ShouldRegister, DomainEnabled, Disabled
  <2>4. GuardNeeded' <=> GuardNeeded
    BY DEF Register, GuardNeeded, IsMulti, Resolve
  <2> HIDE DEF names
  <2> QED
    BY <2>1, <2>2, <2>3, <2>4 DEF ToolsAreThoseLeft
<1>3. CallPassedGuard'
  BY DEF Register, GuardInv, CallPassedGuard
<1> QED
  BY <1>1, <1>2, <1>3 DEF Register, GuardInv

\* After startup only the call can change what is allowed.
LEMMA StartupKept ==
  ASSUME GuardInv, UNCHANGED <<setting, registry, registered, guarded>>,
         phase' = phase \/ (phase = "preflight" /\ phase' = "serve")
  PROVE  setting' \in Settings /\ RegistryIsPinned' /\ ToolsAreThoseLeft'
<1>1. RegistryIsPinned'
  BY DEF GuardInv, RegistryIsPinned, Legacy, Parses
<1>2. \A t \in Tools : /\ ShouldRegister(t)' <=> ShouldRegister(t)
                      /\ DomainEnabled(t)' <=> DomainEnabled(t)
  BY DEF ShouldRegister, DomainEnabled, Disabled
<1>3. GuardNeeded' <=> GuardNeeded
  BY DEF GuardNeeded, IsMulti, Resolve
<1>4. ToolsAreThoseLeft'
  BY <1>2, <1>3 DEF GuardInv, ToolsAreThoseLeft
<1> QED
  BY <1>1, <1>4 DEF GuardInv

\* A step that goes on with the call that passed, or ends it, keeps the invariant.
LEMMA CallKept ==
  ASSUME GuardInv, UNCHANGED <<setting, registry, registered, guarded, phase>>,
         call' = [tool |-> call.tool, host |-> call.host, step |-> call'.step,
                  reply |-> call'.reply, reached |-> call'.reached],
         call'.step = "act" => call.step = "act",
         call'.reached # call.reached => call.step = "act" /\ ReachesHost(call.tool)
  PROVE  GuardInv'
<1>1. call'.tool = call.tool /\ call'.host = call.host
  OBVIOUS
<1>2. call'.step = "act" \/ call'.reached # None => call.step = "act" \/ call.reached # None
  OBVIOUS
<1>3. call'.reached # None => ReachesHost(call.tool)
  BY DEF GuardInv, CallPassedGuard
<1>4. CallPassedGuard'
  BY <1>1, <1>2, <1>3
  DEF GuardInv, CallPassedGuard, PermittedAnywhere, PermittedOn, ReachesHost, Entry,
      Labels, Legacy
<1> QED
  BY <1>4, StartupKept DEF GuardInv

\* A call is let in only as far as the settings permit.
LEMMA GuardAsk ==
  ASSUME GuardInv, NEW t \in Tools, NEW h, Ask(t, h)
  PROVE  GuardInv'
<1>1. UNCHANGED <<setting, registry, registered, guarded, phase>>
  BY DEF Ask, startup
<1>2. \E step, reply : call' = Call(t, h, step, reply)
  BY DEF Ask
<1>3. CASE call'.step = "act"
  <2>1. /\ t.name \in guarded => Guard(t, h) = "ok"
        /\ h # None => h \in Labels
    BY <1>3 DEF Ask, Call, Guard
  <2>2. ShouldRegister(t) /\ DomainEnabled(t) /\ (t.host /\ GuardNeeded => t.name \in guarded)
    BY DEF Ask, GuardInv, ToolsAreThoseLeft
  <2>3. PermittedAnywhere(t)
    BY <2>2, SettingsAssumption
    DEF GuardInv, PermittedAnywhere, ShouldRegister, DomainEnabled, Disabled, AlwaysOn
  <2>4. ReachesHost(t) /\ ~Legacy => PermittedOn(t, h)
    BY <2>1, <2>2, GuardPermits DEF Ask, ReachesHost
  <2>5. call'.tool = t /\ call'.host = h /\ call'.reached = None
    BY <1>2 DEF Call
  <2>6. CallPassedGuard'
    BY <1>1, <1>2, <2>1, <2>3, <2>4, <2>5
    DEF Ask, Call, CallPassedGuard, PermittedAnywhere, PermittedOn, ReachesHost, Entry,
        Labels, Legacy
  <2> QED
    BY <1>1, <2>6, StartupKept DEF GuardInv
<1>4. CASE call'.step # "act"
  <2>1. CallPassedGuard'
    BY <1>2, <1>4 DEF Call, CallPassedGuard
  <2> QED
    BY <1>1, <2>1, StartupKept DEF GuardInv
<1> QED
  BY <1>3, <1>4

\* What a call in its second step does reaches a daemon only through a host.
LEMMA GuardAct ==
  ASSUME GuardInv, Act
  PROVE  GuardInv'
<1>1. UNCHANGED <<setting, registry, registered, guarded, phase>>
  BY DEF Act, SdkCall, SystemClose, SystemReconnect, CliCall, ContextUse, ToolList, startup
<1>2. call.step = "act" /\ call.tool \in Tools
  BY DEF Act, SdkCall, SystemClose, SystemReconnect, CliCall, ContextUse, ToolList, Acting,
         GuardInv, CallPassedGuard
<1>3. call = [tool |-> call.tool, host |-> call.host, step |-> call.step,
              reply |-> call.reply, reached |-> call.reached]
  BY DEF GuardInv, CallPassedGuard
<1>4. ASSUME NEW why, Answer(why)
      PROVE  GuardInv'
  BY <1>1, <1>2, <1>3, <1>4, CallKept DEF Answer
<1>5. ASSUME NEW daemon, Reach(daemon), ReachesHost(call.tool)
      PROVE  GuardInv'
  BY <1>1, <1>2, <1>3, <1>5, CallKept DEF Reach
<1>6. CASE SdkCall
  <2>1. ReachesHost(call.tool)
    BY <1>2, <1>6, ToolKinds DEF SdkCall, Acting, ReachesHost
  <2> QED
    BY <1>4, <1>5, <1>6, <2>1 DEF SdkCall
<1>7. CASE SystemClose
  BY <1>4, <1>7 DEF SystemClose
<1>8. CASE SystemReconnect
  BY <1>4, <1>8 DEF SystemReconnect
<1>9. CASE CliCall
  <2>1. ReachesHost(call.tool)
    BY <1>2, <1>9, ToolKinds DEF CliCall, Acting, ReachesHost
  <2> QED
    BY <1>4, <1>5, <1>9, <2>1 DEF CliCall
<1>10. CASE ContextUse
  BY <1>4, <1>10 DEF ContextUse
<1>11. CASE ToolList
  BY <1>4, <1>11 DEF ToolList
<1> QED
  BY <1>6, <1>7, <1>8, <1>9, <1>10, <1>11 DEF Act

\* The settings, the registry, the tools and the call agree in every state.
LEMMA GuardInvariance == Spec => []GuardInv
<1>1. GuardInv /\ [Next]_vars => GuardInv'
  <2> SUFFICES ASSUME GuardInv, [Next]_vars
               PROVE  GuardInv'
    OBVIOUS
  <2>1. call = [tool |-> call.tool, host |-> call.host, step |-> call.step,
                reply |-> call.reply, reached |-> call.reached]
    BY DEF GuardInv, CallPassedGuard
  <2>2. CASE StartupPreflight
    <3>1. CallPassedGuard'
      BY <2>2 DEF StartupPreflight, GuardInv, CallPassedGuard
    <3> QED
      BY <2>2, <3>1, StartupKept DEF StartupPreflight, GuardInv
  <2>3. CASE \E t \in Tools, h \in AllLabels \cup {None} : Ask(t, h)
    BY <2>3, GuardAsk
  <2>4. CASE UNCHANGED <<startup, call>>
    BY <2>1, <2>4, CallKept DEF startup
  <2> QED
    BY <2>2, <2>3, <2>4, GuardLoad, GuardRegister, GuardAct
    DEF Next, Startup, ContextMoves, CliChanges, ProbeExpires, vars
<1> QED
  BY <1>1, GuardInit, PTL DEF Spec

\* Nothing the operator's settings rule out ever reaches a daemon, for any number
\* of hosts and any settings: a write never an (ro) host, a removal never an (nd)
\* one, nothing a switch or a dropped domain forbids, no write an unnamed host
\* (server.py, the guard and the registration gate).
THEOREM AllowedEffectsOnly == Spec => []OnlyAllowedEffects
<1>1. GuardInv => OnlyAllowedEffects
  BY DEF GuardInv, CallPassedGuard, OnlyAllowedEffects, PermittedAnywhere, PermittedOn
<1> QED
  BY <1>1, GuardInvariance, PTL

----------------------------------------------------------------------------
\* The pool has a place for every label the settings name.
LEMMA LabelsKnown ==
  ASSUME NEW s \in Settings, NEW i \in DOMAIN s.hosts
  PROVE  s.hosts[i].label \in AllLabels
BY DEF AllLabels

\* A set of numbers that is not empty has a least one.
LEMMA LeastNumber ==
  ASSUME NEW S \in SUBSET Nat, S # {}
  PROVE  \E i \in S : \A j \in S : i <= j
<1> DEFINE R == OpToRel(<, Nat)
<1>1. IsWellFoundedOn(R, Nat)
  BY NatLessThanWellFounded
<1>2. \A i, j \in Nat : i < j => <<i, j>> \in R
  BY DEF OpToRel
<1> HIDE DEF R
<1>3. PICK i \in S : \A j \in S : ~ (<<j, i>> \in R)
  BY <1>1, WFMin
<1>4. \A j \in S : ~ (j < i)
  BY <1>2, <1>3
<1> QED
  BY <1>4

\* A label of the pinned registry belongs to one entry, and the pool has a place for it.
LEMMA OneEntryPerLabel ==
  ASSUME GuardInv, ~Legacy, phase \notin {"load", "exited"}
  PROVE  /\ \A i \in DOMAIN registry : registry[i].label \in AllLabels
         /\ \A i, j \in DOMAIN registry : registry[i].label = registry[j].label => i = j
         /\ 1 \in DOMAIN registry /\ DOMAIN registry \subseteq Nat
<1>1. /\ registry \in Seq(ToSet(registry)) /\ setting.hosts \in Seq(ToSet(setting.hosts))
      /\ Len(registry) = Len(setting.hosts) /\ setting.hosts # << >>
  BY SettingsAssumption DEF GuardInv, RegistryIsPinned, Legacy
<1>2. DOMAIN registry = DOMAIN setting.hosts /\ 1 \in DOMAIN registry /\ DOMAIN registry \subseteq Nat
  BY <1>1
<1> QED
  BY <1>2, LabelsKnown DEF GuardInv, RegistryIsPinned, Parses

\* A call that was let in has one of the pinned entries as its target.
LEMMA TargetIsAnEntry ==
  ASSUME GuardInv, ~Legacy, call.step = "act"
  PROVE  \E i \in DOMAIN registry : Target = registry[i]
<1>1. phase = "serve" /\ (call.host # None => call.host \in Labels)
  BY DEF GuardInv, CallPassedGuard
<1>2. CASE call.host = None
  BY <1>1, <1>2, OneEntryPerLabel DEF Target, Resolve
<1>3. CASE call.host # None
  BY <1>1, <1>3, LabelNamesEntry DEF Target, GuardInv
<1> QED
  BY <1>2, <1>3

\* The client of an explicit host is built for its pinned daemon.
LEMMA BuiltIsPinned == ~Legacy => \A entry : BuildClient(entry) = Pinned(entry)
BY DEF BuildClient, Pinned

\* Loading starts from an empty pool.
LEMMA PoolLoad ==
  ASSUME PoolIsPinned, GuardInv, GuardInv', Load
  PROVE  PoolIsPinned'
<1>1. CASE Legacy \/ phase' = "exited"
  BY <1>1 DEF Load, PoolIsPinned, Legacy
<1>2. CASE ~Legacy /\ phase' # "exited"
  <2>1. /\ registry' \in Seq(ToSet(registry')) /\ setting.hosts \in Seq(ToSet(setting.hosts))
        /\ Len(registry') = Len(setting.hosts)
        /\ \A i \in DOMAIN registry' : registry'[i].label = setting.hosts[i].label
    BY <1>2, SettingsAssumption DEF Load, GuardInv, RegistryIsPinned, Legacy
  <2>2. \A i \in DOMAIN registry' : registry'[i].label \in AllLabels
    BY <2>1, LabelsKnown DEF GuardInv
  <2> QED
    BY <1>2, <2>2 DEF Load, PoolIsPinned
<1> QED
  BY <1>1, <1>2

\* The other steps leave the pool, or put clients of pinned daemons in it.
LEMMA PoolKept ==
  ASSUME PoolIsPinned, GuardInv, UNCHANGED <<setting, registry>>,
         phase # "load" /\ phase' # "load", phase' = "exited" <=> phase = "exited",
         pool' = [l \in AllLabels |-> pool'[l]],
         ~Legacy => \A i \in DOMAIN registry :
           pool'[registry[i].label] \in {None, pool[registry[i].label], Pinned(registry[i])}
  PROVE  PoolIsPinned'
BY DEF PoolIsPinned, Legacy

\* One client put in the pool for an entry's pinned daemon.
LEMMA PoolPut ==
  ASSUME PoolIsPinned, GuardInv, ~Legacy, phase \notin {"load", "exited"},
         NEW i \in DOMAIN registry, NEW p, NEW d,
         p = [l \in AllLabels |-> p[l]],
         d \in {None, pool[registry[i].label], Pinned(registry[i])},
         \A j \in DOMAIN registry :
           p[registry[j].label] \in {None, pool[registry[j].label], Pinned(registry[j])}
  PROVE  \A j \in DOMAIN registry :
           [p EXCEPT ![registry[i].label] = d][registry[j].label]
             \in {None, pool[registry[j].label], Pinned(registry[j])}
<1>1. TAKE j \in DOMAIN registry
<1>2. registry[i].label \in AllLabels /\ registry[j].label \in AllLabels
  BY OneEntryPerLabel
<1>3. CASE registry[i].label = registry[j].label
  <2>1. i = j
    BY <1>3, OneEntryPerLabel
  <2>2. [p EXCEPT ![registry[i].label] = d][registry[j].label] = d
    BY <1>2, <1>3
  <2> QED
    BY <2>1, <2>2
<1>4. CASE registry[i].label # registry[j].label
  <2>1. [p EXCEPT ![registry[i].label] = d][registry[j].label] = p[registry[j].label]
    BY <1>2, <1>4
  <2> QED
    BY <2>1
<1> QED
  BY <1>3, <1>4

\* The own container's search builds clients of pinned daemons only.
LEMMA PoolPreflight ==
  ASSUME PoolIsPinned, GuardInv, StartupPreflight
  PROVE  PoolIsPinned'
<1>1. CASE UNCHANGED pool
  BY <1>1, PoolKept DEF StartupPreflight, PoolIsPinned
<1>2. CASE pool' # pool
  <2> DEFINE p == [pool EXCEPT ![SelfHost.label] = BuildClient(SelfHost)]
             q == [p EXCEPT ![registry[1].label] = BuildClient(registry[1])]
  <2>1. pool' = q /\ SelfHosts # {}
    BY <1>2 DEF StartupPreflight
  <2>2. p = [l \in AllLabels |-> p[l]] /\ q = [l \in AllLabels |-> q[l]]
    BY DEF PoolIsPinned
  <2>3. ASSUME ~Legacy
        PROVE  \A j \in DOMAIN registry :
                 q[registry[j].label] \in {None, pool[registry[j].label], Pinned(registry[j])}
    <3>1. PICK i \in DOMAIN registry : SelfHost = registry[i]
      <4>1. \E i \in SelfHosts : \A j \in SelfHosts : i <= j
        BY <2>1, <2>3, LeastNumber, OneEntryPerLabel DEF StartupPreflight, SelfHosts
      <4> QED
        BY <4>1 DEF SelfHost, SelfHosts
    <3>2. \A j \in DOMAIN registry :
            p[registry[j].label] \in {None, pool[registry[j].label], Pinned(registry[j])}
      BY <2>3, <3>1, BuiltIsPinned, PoolPut DEF PoolIsPinned, StartupPreflight
    <3> HIDE DEF p
    <3> QED
      BY <2>2, <2>3, <3>2, BuiltIsPinned, OneEntryPerLabel, PoolPut DEF StartupPreflight
  <2> HIDE DEF q
  <2> QED
    BY <2>1, <2>2, <2>3, PoolKept DEF StartupPreflight
<1> QED
  BY <1>1, <1>2

\* What an SDK or a CLI call reaches is the target's pinned daemon.
LEMMA ReachPinned ==
  ASSUME DaemonInv, GuardInv, call.step = "act", ~Legacy
  PROVE  /\ Client(Target) = Pinned(Target)
         /\ Target.url # None => CliDaemon(Target) = Target.url /\ Pinned(Target) = Target.url
<1>1. PICK i \in DOMAIN registry : Target = registry[i]
  BY TargetIsAnEntry
<1>2. phase = "serve"
  BY DEF GuardInv, CallPassedGuard
<1>3. pool[Target.label] \in {None, Pinned(Target)}
  BY <1>1, <1>2 DEF DaemonInv, PoolIsPinned
<1> QED
  BY <1>3, BuiltIsPinned DEF Client, CliDaemon, Pinned

\* A step that keeps the target and what was reached, or reaches nothing, keeps
\* the daemon of each label.
LEMMA ReachedKept ==
  ASSUME OneDaemonPerLabel, UNCHANGED <<setting, registry>>,
         call'.reached # None => call'.reached = call.reached /\ call'.host = call.host
  PROVE  OneDaemonPerLabel'
BY DEF OneDaemonPerLabel, Target, Resolve, Legacy

\* Each act of a call leaves the pool with clients of pinned daemons.
LEMMA PoolAct ==
  ASSUME DaemonInv, GuardInv, Act
  PROVE  PoolIsPinned'
<1>1. /\ UNCHANGED <<setting, registry, phase>>
      /\ call.step = "act" /\ phase = "serve"
  BY DEF Act, SdkCall, SystemClose, SystemReconnect, CliCall, ContextUse, ToolList, Acting,
         startup, GuardInv, CallPassedGuard
<1>2. PoolIsPinned
  BY DEF DaemonInv
<1>3. ASSUME NEW d, pool' = [pool EXCEPT ![Target.label] = d], ~Legacy => d = Pinned(Target)
      PROVE  PoolIsPinned'
  <2>1. pool' = [l \in AllLabels |-> pool'[l]]
    BY <1>2, <1>3 DEF PoolIsPinned
  <2>2. ASSUME ~Legacy
        PROVE  \A j \in DOMAIN registry :
                 pool'[registry[j].label] \in {None, pool[registry[j].label], Pinned(registry[j])}
    <3>1. PICK i \in DOMAIN registry : Target = registry[i]
      BY <1>1, <2>2, TargetIsAnEntry
    <3> QED
      BY <1>1, <1>2, <1>3, <2>2, <3>1, PoolPut DEF PoolIsPinned
  <2> QED
    BY <1>1, <1>2, <2>1, <2>2, PoolKept
<1>4. CASE UNCHANGED pool
  BY <1>1, <1>2, <1>4, PoolKept DEF PoolIsPinned
<1>5. CASE SdkCall
  BY <1>1, <1>3, <1>5, ReachPinned DEF SdkCall
<1>6. CASE SystemClose
  <2>1. pool' = [l \in AllLabels |-> IF call.host = None \/ l = Target.label THEN None ELSE pool[l]]
    BY <1>6 DEF SystemClose
  <2>2. pool' = [l \in AllLabels |-> pool'[l]]
    BY <2>1
  <2>3. ~Legacy => \A i \in DOMAIN registry : pool'[registry[i].label] \in {None, pool[registry[i].label]}
    BY <1>1, <2>1, OneEntryPerLabel
  <2> QED
    BY <1>1, <1>2, <2>2, <2>3, PoolKept
<1>7. CASE SystemReconnect
  BY <1>3, <1>4, <1>7, BuiltIsPinned DEF SystemReconnect
<1> QED
  BY <1>4, <1>5, <1>6, <1>7 DEF Act, CliCall, ContextUse, ToolList

\* Each act of a call that reaches a daemon reaches its label's.
LEMMA ReachedAct ==
  ASSUME DaemonInv, GuardInv, Act
  PROVE  OneDaemonPerLabel'
<1>1. UNCHANGED <<setting, registry>> /\ call.step = "act"
  BY DEF Act, SdkCall, SystemClose, SystemReconnect, CliCall, ContextUse, ToolList, Acting, startup
<1>2. call = [tool |-> call.tool, host |-> call.host, step |-> call.step,
              reply |-> call.reply, reached |-> call.reached]
  BY DEF GuardInv, CallPassedGuard
<1>3. ASSUME NEW why, Answer(why)
      PROVE  OneDaemonPerLabel'
  BY <1>1, <1>2, <1>3, ReachedKept DEF Answer, DaemonInv
<1>4. ASSUME NEW daemon, Reach(daemon), ~Legacy /\ Target.url # None => daemon = Target.url
      PROVE  OneDaemonPerLabel'
  <2>1. call'.host = call.host /\ call'.reached = daemon
    BY <1>2, <1>4 DEF Reach
  <2> QED
    BY <1>1, <1>4, <2>1 DEF OneDaemonPerLabel, Target, Resolve, Legacy
<1>5. CASE SdkCall
  BY <1>1, <1>3, <1>4, <1>5, ReachPinned DEF SdkCall
<1>6. CASE CliCall
  BY <1>1, <1>3, <1>4, <1>6, ReachPinned DEF CliCall
<1> QED
  BY <1>3, <1>5, <1>6 DEF Act, SystemClose, SystemReconnect, ContextUse, ToolList

\* A configured host is one daemon for the life of the server, whichever backend
\* serves the call and whatever becomes of the CLI context, the pooled client or
\* the plugin (system.py's pool, _cli.py's environment and its remote backend).
THEOREM LabelsKeepTheirDaemon == Spec => []OneDaemonPerLabel
<1>1. Init => DaemonInv
  BY DEF Init, DaemonInv, PoolIsPinned, OneDaemonPerLabel, NoCall, Call
<1>2. DaemonInv /\ GuardInv /\ GuardInv' /\ [Next]_vars => DaemonInv'
  <2> SUFFICES ASSUME DaemonInv, GuardInv, GuardInv', [Next]_vars
               PROVE  DaemonInv'
    OBVIOUS
  <2>1. PoolIsPinned /\ OneDaemonPerLabel
    BY DEF DaemonInv
  <2>2. ASSUME UNCHANGED <<setting, registry, pool, phase>>
        PROVE  PoolIsPinned'
    BY <2>1, <2>2 DEF PoolIsPinned, Legacy
  <2>3. CASE Load
    <3>1. call.reached = None
      BY <2>3 DEF Load, GuardInv, CallPassedGuard
    <3>2. OneDaemonPerLabel'
      BY <2>3, <3>1 DEF Load, OneDaemonPerLabel
    <3> QED
      BY <2>1, <2>3, <3>2, PoolLoad DEF DaemonInv
  <2>4. CASE Register
    BY <2>1, <2>4, ReachedKept DEF Register, DaemonInv, PoolIsPinned, Legacy
  <2>5. CASE StartupPreflight
    BY <2>1, <2>5, PoolPreflight, ReachedKept DEF StartupPreflight, DaemonInv
  <2>6. CASE \E t \in Tools, h \in AllLabels \cup {None} : Ask(t, h)
    <3>1. UNCHANGED <<setting, registry, pool, phase>> /\ call'.reached = None
      BY <2>6 DEF Ask, Call, startup
    <3> QED
      BY <2>1, <2>2, <3>1, ReachedKept DEF DaemonInv
  <2>7. CASE Act
    BY <2>7, PoolAct, ReachedAct DEF DaemonInv
  <2>8. CASE UNCHANGED <<startup, pool, call>>
    BY <2>1, <2>2, <2>8, ReachedKept DEF startup, DaemonInv
  <2> QED
    BY <2>3, <2>4, <2>5, <2>6, <2>7, <2>8
    DEF Next, Startup, ContextMoves, CliChanges, ProbeExpires, vars
<1>3. DaemonInv => OneDaemonPerLabel
  BY DEF DaemonInv
<1> QED
  BY <1>1, <1>2, <1>3, GuardInvariance, PTL DEF Spec

\* No label of a registry with several hosts stands for a host left out.
LEMMA LabelsAreNames ==
  ASSUME GuardInv, phase = "serve", Len(registry) >= 2
  PROVE  None \notin Labels
<1>1. ~Legacy
  <2>1. registry \in Seq(ToSet(registry)) /\ (Legacy => Len(registry) = 1)
    BY DEF GuardInv, RegistryIsPinned
  <2>2. Len(registry) \in Nat
    BY <2>1
  <2>3. \A n \in Nat : n >= 2 => n # 1
    OBVIOUS
  <2> QED
    BY <2>1, <2>2, <2>3
<1>2. /\ registry \in Seq(ToSet(registry)) /\ setting.hosts \in Seq(ToSet(setting.hosts))
      /\ Len(registry) = Len(setting.hosts)
      /\ \A i \in DOMAIN registry : registry[i].label = setting.hosts[i].label
  BY <1>1, SettingsAssumption DEF GuardInv, RegistryIsPinned
<1>3. \A i \in DOMAIN registry : registry[i].label # None
  BY <1>2, SettingsAssumption DEF GuardInv
<1> QED
  BY <1>3 DEF Labels

\* A step after startup that neither calls nor answers keeps the surface.
LEMMA SurfaceKept ==
  ASSUME SurfaceInv, UNCHANGED <<setting, registry, registered, guarded, told>>,
         phase' = phase \/ phase' = "serve",
         phase = "preflight" \/ phase' = phase,
         call'.reply # "none" => phase' = "serve",
         call'.reply \in {"unnamed", "unknown"} =>
           call'.reply = call.reply /\ call'.host = call.host /\ call'.tool = call.tool
  PROVE  SurfaceInv'
<1>1. BuildInstructions(registered)' = BuildInstructions(registered)
  BY DEF BuildInstructions, IsMulti, Warned, Unknown, Ignored, Disabled
<1>2. call'.reply \in {"unnamed", "unknown"} => call'.host \notin Schema(call.tool)'
  BY DEF SurfaceInv, Schema, IsMulti, Labels
<1> QED
  BY <1>1, <1>2 DEF SurfaceInv

\* A call that is refused for the host it names or omits breaks the schema.
LEMMA SurfaceAsk ==
  ASSUME SurfaceInv, GuardInv, NEW t \in Tools, NEW h, Ask(t, h)
  PROVE  SurfaceInv'
<1>1. UNCHANGED <<setting, registry, registered, guarded, told, phase>> /\ phase = "serve"
  BY DEF Ask, startup
<1>2. PICK step, reply : /\ call' = Call(t, h, step, reply)
                         /\ reply = "unnamed" => t.name \in guarded /\ Guard(t, h) = "unnamed"
                         /\ reply = "unknown" => h # None /\ h \notin Labels
  BY DEF Ask, Guard
<1>3. ASSUME reply = "unnamed"
      PROVE  h \notin Schema(t)
  <2>1. h = None /\ IsMulti /\ IsWrite(t) /\ t.host
    BY <1>2, <1>3 DEF Guard, SurfaceInv
  <2> QED
    BY <1>1, <2>1, LabelsAreNames DEF Schema, IsMulti
<1>4. ASSUME reply = "unknown"
      PROVE  h \notin Schema(t)
  BY <1>2, <1>4 DEF Schema
<1>5. Schema(t)' = Schema(t)
  BY <1>1 DEF Schema, IsMulti, Labels
<1>6. call'.host = h /\ call'.tool = t /\ call'.reply = reply
  BY <1>2 DEF Call
<1>7. BuildInstructions(registered)' = BuildInstructions(registered)
  BY <1>1 DEF BuildInstructions, IsMulti, Warned, Unknown, Ignored, Disabled
<1> QED
  BY <1>1, <1>3, <1>4, <1>5, <1>6, <1>7 DEF SurfaceInv

\* The surface and what stands behind it agree in every state.
LEMMA SurfaceInvariance == Spec => []SurfaceInv
<1>1. Init => SurfaceInv
  BY DEF Init, SurfaceInv, NoCall, Call
<1>2. SurfaceInv /\ GuardInv /\ [Next]_vars => SurfaceInv'
  <2> SUFFICES ASSUME SurfaceInv, GuardInv, [Next]_vars
               PROVE  SurfaceInv'
    OBVIOUS
  <2>1. CASE Load
    BY <2>1 DEF Load, SurfaceInv
  <2>2. CASE Register
    <3>1. \A t \in Tools : t.name \in guarded' => t.host
      BY <2>2, ToolNames DEF Register
    <3>2. told' = BuildInstructions(registered)'
      BY <2>2 DEF Register, BuildInstructions, IsMulti, Warned, Unknown, Ignored, Disabled
    <3> QED
      BY <2>2, <3>1, <3>2 DEF Register, SurfaceInv
  <2>3. CASE StartupPreflight
    BY <2>3, SurfaceKept DEF StartupPreflight, SurfaceInv
  <2>4. CASE \E t \in Tools, h \in AllLabels \cup {None} : Ask(t, h)
    BY <2>4, SurfaceAsk
  <2>5. CASE Act
    <3>1. UNCHANGED <<setting, registry, registered, guarded, told, phase>> /\ phase = "serve"
      BY <2>5 DEF Act, SdkCall, SystemClose, SystemReconnect, CliCall, ContextUse, ToolList,
                  Acting, startup, GuardInv, CallPassedGuard
    <3>2. call'.reply \in {"own container", "done", "failed", "no plugin"}
      BY <2>5 DEF Act, SdkCall, SystemClose, SystemReconnect, CliCall, ContextUse, ToolList,
                  Answer, Reach, GuardInv, CallPassedGuard
    <3> QED
      BY <3>1, <3>2, SurfaceKept
  <2>6. CASE UNCHANGED <<startup, call>>
    BY <2>6, SurfaceKept DEF startup, SurfaceInv
  <2> QED
    BY <2>1, <2>2, <2>3, <2>4, <2>5, <2>6
    DEF Next, Startup, ContextMoves, CliChanges, ProbeExpires, vars
<1> QED
  BY <1>1, <1>2, GuardInvariance, PTL DEF Spec

\* The server says what it is, for any settings: the domains it announces are those
\* with a tool, one that was to be dropped is gone or reported, and a call that keeps
\* to the advertised schema is not refused for its host (server.py:
\* finalize_instructions, tool_list, _apply_host_schema against the guard).
THEOREM SurfaceStaysTrue == Spec => []SurfaceIsTrue
<1>1. SurfaceInv /\ GuardInv => SurfaceIsTrue
  <2> SUFFICES ASSUME SurfaceInv, GuardInv
               PROVE  SurfaceIsTrue
    OBVIOUS
  <2>1. ASSUME phase = "serve"
        PROVE  told.domains = QueryCatalog.domains
    BY <2>1 DEF SurfaceInv, BuildInstructions, QueryCatalog
  <2>2. \A t \in Tools : t.name \notin registered /\ t.domain # None =>
          t.domain \in QueryCatalog.hidden
    BY DEF QueryCatalog
  <2>3. ASSUME phase = "serve", NEW d \in setting.disable
        PROVE  \/ d \in Domains \ told.domains
               \/ d \in QueryCatalog.warnings /\ told.warn
    <3>1. told.warn = (Warned # {}) /\ QueryCatalog.warnings = Warned
      BY <2>3 DEF SurfaceInv, BuildInstructions, QueryCatalog
    <3>2. CASE d \in Warned
      BY <3>1, <3>2
    <3>3. CASE d \notin Warned
      <4>1. d \in Disabled /\ d \in Domains
        BY <3>3 DEF Warned, Unknown, Ignored, Disabled
      <4>2. \A t \in Tools : t.name \in registered => t.domain # d
        BY <2>3, <4>1 DEF GuardInv, ToolsAreThoseLeft, DomainEnabled, Domains
      <4>3. d \notin told.domains
        BY <2>3, <4>2 DEF SurfaceInv, BuildInstructions
      <4> QED
        BY <4>1, <4>3
    <3> QED
      BY <3>2, <3>3
  <2> QED
    BY <2>1, <2>2, <2>3 DEF SurfaceIsTrue, SurfaceInv
<1> QED
  BY <1>1, GuardInvariance, SurfaceInvariance, PTL
=============================================================================
