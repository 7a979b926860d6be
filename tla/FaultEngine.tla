------------------------------ MODULE FaultEngine ------------------------------
(***************************************************************************)
(* fault-engine (simulation-tier): the faults an operator injects, by      *)
(* themselves or as a scenario, are kept in memory and in the hash         *)
(* faults:active, from which the simulators degrade their telemetry.  Each *)
(* fault has an expiry task, a scenario is a task that ends its faults;    *)
(* neither survives the process.  All of it runs in one event loop, whose  *)
(* tasks give way at their sleeps only, so an action is what a handler or  *)
(* task does between two of them.                                          *)
(*                                                                         *)
(* Durations are left out: a task that sleeps may wake at any time.        *)
(***************************************************************************)
EXTENDS Naturals

CONSTANTS
  SimFault,        \* identifiers of faults, each used once
  MaxEngineFaults  \* bound: outages of Redis and deaths of the process

ASSUME FaultParameters == MaxEngineFaults \in Nat

VARIABLES
  _active_faults,    \* the faults in memory
  faultHash,         \* the fields of faults:active
  timers,            \* the faults whose expiry task sleeps
  _scenario_task,    \* of the last scenario: created, asleep, or done
  fault_ids,         \* its faults
  _active_scenario,  \* whether a scenario is reported as active
  engine,            \* up, or starting: it serves no calls yet
  injected,          \* history: identifiers that are used
  stranded,          \* history: fields that an outage left in the hash
  engineFaults

faultVars == <<_active_faults, faultHash, timers, _scenario_task, fault_ids,
               _active_scenario, engine, injected, stranded, engineFaults>>

FaultInit ==
  /\ _active_faults = {} /\ timers = {} /\ fault_ids = {}
  /\ _scenario_task = "done" /\ _active_scenario = FALSE
  /\ engine = "starting" /\ faultHash = {} /\ injected = {} /\ stranded = {}
  /\ engineFaults = 0

Outage == engineFaults < MaxEngineFaults /\ engineFaults' = engineFaults + 1

scenario == <<_scenario_task, fault_ids, _active_scenario>>

-----------------------------------------------------------------------------
\* Faults become active; a write that fails is logged and forgotten.
_activate_fault(new) ==
  /\ _active_faults' = _active_faults \cup new
  /\ injected' = injected \cup new
  /\ \/ faultHash' = faultHash \cup new /\ UNCHANGED engineFaults
     \/ Outage /\ \E written \in (SUBSET new) \ {new} : faultHash' = faultHash \cup written

\* Faults end; a write that fails is logged and forgotten here as well.
_deactivate_fault(gone) ==
  /\ _active_faults' = _active_faults \ gone
  /\ \/ faultHash' = faultHash \ gone /\ UNCHANGED <<stranded, engineFaults>>
     \/ Outage /\ \E left \in (SUBSET gone) \ {{}} :
          /\ faultHash' = faultHash \ (gone \ left)
          /\ stranded' = stranded \cup left

inject_fault(f) ==
  /\ engine = "up" /\ f \notin injected
  /\ _activate_fault({f}) /\ timers' = timers \cup {f}
  /\ UNCHANGED <<scenario, engine, stranded>>

_schedule_fault_expiry(f) ==
  /\ f \in timers /\ timers' = timers \ {f}
  /\ _deactivate_fault({f} \cap _active_faults)
  /\ UNCHANGED <<scenario, engine, injected>>

\* Mutant: with the task that is replaced its expiry tasks are cancelled.
start_scenarioMutant ==
  /\ engine = "up" /\ _scenario_task' = "created" /\ fault_ids' = {}
  /\ timers' = IF _scenario_task = "asleep" THEN timers \ fault_ids ELSE timers
  /\ UNCHANGED <<_active_faults, faultHash, _active_scenario, engine, injected, stranded,
                 engineFaults>>

\* The task under way is cancelled; its faults go on, and so do their expiry tasks.
start_scenario ==
  /\ engine = "up" /\ _scenario_task' = "created" /\ fault_ids' = {}
  /\ UNCHANGED <<_active_faults, faultHash, timers, _active_scenario, engine, injected,
                 stranded, engineFaults>>

\* The task begins: all faults of the scenario (it may have none).
_run_scenario ==
  /\ _scenario_task = "created" /\ _scenario_task' = "asleep" /\ _active_scenario' = TRUE
  /\ \E new \in SUBSET (SimFault \ injected) :
       /\ _activate_fault(new)
       /\ fault_ids' = new /\ timers' = timers \cup new
  /\ UNCHANGED <<engine, stranded>>

\* Mutant: what is left is not cleared after its expiry tasks have been cancelled.
ScenarioEndsMutant ==
  /\ _scenario_task = "asleep" /\ _scenario_task' = "done" /\ _active_scenario' = FALSE
  /\ timers' = timers \ fault_ids /\ fault_ids' = {}
  /\ UNCHANGED <<_active_faults, faultHash, engine, injected, stranded, engineFaults>>

\* It has slept for the duration of the scenario.
ScenarioEnds ==
  /\ _scenario_task = "asleep" /\ _scenario_task' = "done" /\ _active_scenario' = FALSE
  /\ timers' = timers \ fault_ids /\ fault_ids' = {}
  /\ _deactivate_fault(fault_ids \cap _active_faults)
  /\ UNCHANGED <<engine, injected>>

\* All faults end, also those that were injected by themselves.
stop_scenario ==
  /\ engine = "up" /\ _scenario_task' = "done" /\ _active_scenario' = FALSE /\ fault_ids' = {}
  /\ _deactivate_fault(_active_faults)
  /\ UNCHANGED <<timers, engine, injected>>

EngineDies ==
  /\ engine = "up" /\ Outage /\ engine' = "starting"
  /\ _active_faults' = {} /\ timers' = {} /\ fault_ids' = {}
  /\ _scenario_task' = "done" /\ _active_scenario' = FALSE
  /\ UNCHANGED <<faultHash, injected, stranded>>

\* Mutant: the hash is kept over a restart.
startupMutant ==
  /\ engine = "starting" /\ engine' = "up"
  /\ UNCHANGED <<_active_faults, faultHash, timers, scenario, injected, stranded, engineFaults>>

\* Before it serves calls the engine clears what its last life has left.
startup ==
  /\ engine = "starting" /\ engine' = "up" /\ faultHash' = {} /\ stranded' = {}
  /\ UNCHANGED <<_active_faults, timers, scenario, injected, engineFaults>>

\* Twenty attempts have failed: it serves calls all the same.
StartsUncleared ==
  /\ engine = "starting" /\ engine' = "up" /\ Outage /\ stranded' = stranded \cup faultHash
  /\ UNCHANGED <<_active_faults, faultHash, timers, scenario, injected>>

\* What goes on by itself: the engine starts, and sleeping expiry tasks wake.
EngineWorks == startup \/ \E f \in SimFault : _schedule_fault_expiry(f)

FaultNext ==
  \/ EngineWorks \/ _run_scenario \/ ScenarioEnds
  \/ start_scenario \/ stop_scenario \/ EngineDies \/ StartsUncleared
  \/ \E f \in SimFault : inject_fault(f)

\* Nobody has to call.
FaultFairness == WF_faultVars(EngineWorks)

FaultSpec == FaultInit /\ [][FaultNext]_faultVars /\ FaultFairness

-----------------------------------------------------------------------------

FaultTypeOK ==
  /\ _active_faults \subseteq SimFault /\ faultHash \subseteq SimFault
  /\ timers \subseteq SimFault /\ fault_ids \subseteq SimFault
  /\ injected \subseteq SimFault /\ stranded \subseteq SimFault
  /\ _scenario_task \in {"created", "asleep", "done"} /\ _active_scenario \in BOOLEAN
  /\ engine \in {"up", "starting"} /\ engineFaults \in 0..MaxEngineFaults

\* Whatever scenarios replace or stop each other, and whatever fails: no fault is active
\* whose expiry task has been cancelled or has run, the simulators see no fault that the
\* engine does not know, but for those an outage left behind, and no scenario is
\* reported as active that no task carries out.
FaultsAreWatched ==
  /\ _active_faults \subseteq timers
  /\ engine = "up" => faultHash \subseteq _active_faults \cup stranded
  /\ _active_scenario => _scenario_task # "done"

\* Every fault the simulators see comes to its end, also over restarts, but for those an
\* outage left behind.  (The identifiers of the model run out, so in the end none is left.)
FaultsEnd == []<>(faultHash \subseteq stranded)

================================================================================
