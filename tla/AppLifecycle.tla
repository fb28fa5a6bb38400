---------------------------- MODULE AppLifecycle ----------------------------
(***************************************************************************)
(* app::Manager (app/src/app_manager.cpp) over the modules that the        *)
(* application registers.  The manager never looks at initialized() of a   *)
(* module: it relies on the order of its own calls.  A module is known by  *)
(* what the two real ones (CanopenModule and WirelessModule) do:           *)
(* initialize() and deinitialize() answer at once when there is nothing    *)
(* to do, a failed initialize() may leave parts of the module running (it  *)
(* ignores the results of its own cleanup), and a failed deinitialize()    *)
(* leaves the module initialized with some of its parts stopped.           *)
(*                                                                         *)
(* The calls of the manager are legal in any order and at any time between *)
(* calls, as its interface allows; main.cpp makes some of them.            *)
(***************************************************************************)
EXTENDS Naturals, Sequences

CONSTANTS Names,      \* the names of modules
          MaxModules  \* kMaxModules

ASSUME MaxModulesAssumption == MaxModules \in Nat \ {0}

VARIABLES registry, \* the names in modules_, in order
          modules,  \* the state of the module at each place of the registry
          manager,  \* state_ of the manager
          call,     \* which loop of the manager is under way
          at        \* initialized, or remaining: how far the loop has come

appvars == <<registry, modules, manager, call, at>>

Places == 1 .. MaxModules
Count == Len(registry)

\* "off": never started or wholly stopped.  "on": started.  "half": initialized,
\* but deinitialize() has stopped parts of it.  "leftover": not initialized, but
\* parts of it run.
ModuleStates == {"off", "on", "half", "leftover"}

\* initialized()
Live(k) == modules[k] \in {"on", "half"}

-----------------------------------------------------------------------------
\* Mutant: the manager registers modules in any state.
RegisterAnytime(name) ==
    /\ call = "none"
    /\ Count < MaxModules
    /\ \A k \in 1 .. Count : registry[k] # name
    /\ registry' = Append(registry, name)
    /\ UNCHANGED <<modules, manager, call, at>>

\* register_module(); a refused registration changes nothing.
Register(name) ==
    /\ call = "none"
    /\ manager = "configuring"
    /\ Count < MaxModules
    /\ \A k \in 1 .. Count : registry[k] # name
    /\ registry' = Append(registry, name)
    /\ UNCHANGED <<modules, manager, call, at>>

\* Mutant: a faulted manager may be initialized again.
InitializeAllAnyhow ==
    /\ call = "none"
    /\ manager # "running"
    /\ call' = "initialize"
    /\ at' = 0
    /\ UNCHANGED <<registry, modules, manager>>

\* initialize_all(); in the other states it returns at once.
InitializeAll ==
    /\ call = "none"
    /\ manager = "configuring"
    /\ call' = "initialize"
    /\ at' = 0
    /\ UNCHANGED <<registry, modules, manager>>

\* The next module initializes, or was initialized before.
InitializeNext ==
    /\ call = "initialize"
    /\ at < Count
    /\ at' = at + 1
    /\ modules' = IF Live(at + 1) THEN modules ELSE [modules EXCEPT ![at + 1] = "on"]
    /\ UNCHANGED <<registry, manager, call>>

\* It fails: those before it are rolled back.
InitializeFails ==
    /\ call = "initialize"
    /\ at < Count
    /\ ~Live(at + 1)
    /\ \E left \in {"off", "leftover"} : modules' = [modules EXCEPT ![at + 1] = left]
    /\ call' = "rollback"
    /\ UNCHANGED <<registry, manager, at>>

InitializeEnds ==
    /\ call = "initialize"
    /\ at = Count
    /\ manager' = "running"
    /\ call' = "none"
    /\ at' = 0
    /\ UNCHANGED <<registry, modules>>

\* deinitialize_all(), from "running" and again from "faulted".
DeinitializeAll ==
    /\ call = "none"
    /\ manager # "configuring"
    /\ call' = "deinitialize"
    /\ at' = Count
    /\ UNCHANGED <<registry, modules, manager>>

\* The last module not yet visited stops, or has nothing to stop.
DeinitializePrevious ==
    /\ call \in {"rollback", "deinitialize"}
    /\ at > 0
    /\ at' = at - 1
    /\ modules' = IF Live(at) THEN [modules EXCEPT ![at] = "off"] ELSE modules
    /\ UNCHANGED <<registry, manager, call>>

DeinitializeFails ==
    /\ call \in {"rollback", "deinitialize"}
    /\ at > 0
    /\ Live(at)
    /\ modules' = [modules EXCEPT ![at] = "half"]
    /\ manager' = "faulted"
    /\ call' = "none"
    /\ at' = 0
    /\ UNCHANGED registry

\* The rollback leaves the manager as it was; deinitialize_all() resets it.
DeinitializeEnds ==
    /\ call \in {"rollback", "deinitialize"}
    /\ at = 0
    /\ manager' = "configuring"
    /\ call' = "none"
    /\ UNCHANGED <<registry, modules, at>>

-----------------------------------------------------------------------------
AppInit ==
    /\ registry = <<>>
    /\ modules = [k \in Places |-> "off"]
    /\ manager = "configuring"
    /\ call = "none"
    /\ at = 0

AppNext ==
    \/ \E name \in Names : Register(name)
    \/ InitializeAll \/ InitializeNext \/ InitializeFails \/ InitializeEnds
    \/ DeinitializeAll \/ DeinitializePrevious \/ DeinitializeFails \/ DeinitializeEnds

AppSpec == AppInit /\ [][AppNext]_appvars

-----------------------------------------------------------------------------
AppTypeOK ==
    /\ registry \in Seq(Names) /\ Count <= MaxModules
    /\ modules \in [Places -> ModuleStates]
    /\ manager \in {"configuring", "running", "faulted"}
    /\ call \in {"none", "initialize", "rollback", "deinitialize"}
    /\ at \in 0 .. Count

\* architecture.md:130, initialize_all(): there is no half-started running
\* state.  process_all() therefore only ever meets modules that are started and
\* of which nothing has been stopped, although modules claim to be initialized
\* after a failed deinitialize() and answer TRUE to a second initialize().
RunningIsWhole ==
    manager = "running" /\ call = "none" => \A k \in 1 .. Count : modules[k] = "on"

\* A later module may use an earlier one (WirelessModule holds a reference to
\* the gateway inside CanopenModule): none is ever initialized without all those
\* registered before it, whatever fails and in whatever order the manager is
\* called.
LiveIsPrefix ==
    \A j, k \in 1 .. Count : j < k /\ Live(k) => Live(j)

\* initialize_all() starts from modules that are not initialized: what failed to
\* stop keeps the manager "faulted" until deinitialize_all() has stopped it.
ConfiguringIsIdle ==
    manager = "configuring" /\ call = "none" => \A k \in Places : ~Live(k)
=============================================================================
