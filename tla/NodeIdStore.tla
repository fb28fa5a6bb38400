---------------------------- MODULE NodeIdStore ----------------------------
(***************************************************************************)
(* The node's own CANopen identifier: the active one, the configured one   *)
(* in RAM (0x2001:01), the one EspNvsParameterStorage believes to be in    *)
(* NVS, and what the flash really holds, with power losses at any moment.  *)
(*                                                                         *)
(* components/canopen/src/standard_profile.cpp (write hooks),              *)
(* components/canopen_esp32/src/esp_nvs_parameter_storage.cpp and the      *)
(* start-up part of canopen_module.cpp.  NVS itself is external: nvs_set   *)
(* stages a value that reaches the flash at some time up to the commit; a  *)
(* call that fails may still have written it (ESP_ERR_NVS_REMOVE_FAILED:   *)
(* "the value was written however, and update will be finished after       *)
(* re-initialization").                                                    *)
(***************************************************************************)
EXTENDS Naturals

CONSTANTS
  NodeIds,   \* 1..127
  BadId,     \* any other byte
  Absent,    \* the key is not in the namespace
  Default,   \* node id of the build configuration
  Nothing    \* no value

ASSUME NodeIdConstants ==
  /\ Default \in NodeIds
  /\ BadId \notin NodeIds /\ Absent \notin NodeIds \cup {BadId}
  /\ Nothing \notin NodeIds \cup {BadId, Absent}

VARIABLES
  power,       \* "off", "running", or "refused": storage not ready, no CAN node
  active,      \* startup_node_id_: the id of this power cycle
  configured,  \* configured_node_id_, in RAM
  stored,      \* stored_node_id_: what the code believes NVS holds
  phase,       \* where store_node_id is: "idle", "staging", "committing"
  flash,       \* what a boot would read
  late,        \* a value handed to NVS that may still replace it
  answer,      \* to the latest save request
  asked,       \* history: every id a save was asked for
  failed       \* history: a store has failed in this power cycle

idvars == <<power, active, configured, stored, phase, flash, late, answer, asked, failed>>
ram == <<active, configured, stored, phase>>
history == <<asked, failed>>

-----------------------------------------------------------------------------
(* The storage object is constructed before everything else at power-up.   *)

BootId == IF flash \in NodeIds THEN flash ELSE Default

Boot ==
  /\ power = "off"
  /\ power' = "running"
  /\ active' = BootId
  /\ configured' = BootId
  /\ stored' = IF flash \in NodeIds THEN flash ELSE Nothing
  /\ phase' = "idle"
  /\ failed' = FALSE
  /\ answer' = "none"
  /\ UNCHANGED <<flash, late, asked>>

\* nvs_flash_init, nvs_open or nvs_get fails: the module refuses to start.
BootRefused ==
  /\ power = "off"
  /\ power' = "refused"
  /\ UNCHANGED <<ram, flash, late, answer, history>>

\* Mutant: the value goes to NVS without a save.
WriteConfiguredThrough(id) ==
  /\ power = "running" /\ phase = "idle"
  /\ id \in NodeIds
  /\ configured' = id
  /\ late' = id
  /\ answer' = "none"
  /\ UNCHANGED <<power, active, stored, phase, flash, history>>

\* SDO download to 0x2001:01; a bad id is refused and changes nothing.
WriteConfigured(id) ==
  /\ power = "running" /\ phase = "idle"
  /\ id \in NodeIds
  /\ configured' = id
  /\ answer' = "none"
  /\ UNCHANGED <<power, active, stored, phase, flash, late, history>>

\* SDO download to 0x1010:01 with another signature than "save".
SaveBadSignature ==
  /\ power = "running" /\ phase = "idle"
  /\ answer' = "refused"
  /\ UNCHANGED <<power, ram, flash, late, history>>

\* Mutant: the shortcut compares with the id in use.
SaveUnchangedSinceBoot ==
  /\ power = "running" /\ phase = "idle"
  /\ configured = active
  /\ answer' = "ok"
  /\ asked' = asked \cup {configured}
  /\ UNCHANGED <<power, ram, flash, late, failed>>

\* "save" with the value the code believes to be stored: no flash write.
SaveUnchanged ==
  /\ power = "running" /\ phase = "idle"
  /\ configured = stored
  /\ answer' = "ok"
  /\ asked' = asked \cup {configured}
  /\ UNCHANGED <<power, ram, flash, late, failed>>

SaveBegin ==
  /\ power = "running" /\ phase = "idle"
  /\ configured # stored
  /\ phase' = "staging"
  /\ answer' = "none"
  /\ asked' = asked \cup {configured}
  /\ UNCHANGED <<power, active, configured, stored, flash, late, failed>>

SetOk ==
  /\ power = "running" /\ phase = "staging"
  /\ phase' = "committing"
  /\ late' = configured
  /\ UNCHANGED <<power, active, configured, stored, flash, answer, history>>

StoreFails ==
  /\ phase' = "idle"
  /\ answer' = "refused"
  /\ failed' = TRUE
  /\ UNCHANGED <<power, active, configured, stored, flash, asked>>

SetFails ==
  /\ power = "running" /\ phase = "staging"
  /\ late' \in {late, configured}
  /\ StoreFails

CommitFails ==
  /\ power = "running" /\ phase = "committing"
  /\ UNCHANGED late
  /\ StoreFails

CommitOk ==
  /\ power = "running" /\ phase = "committing"
  /\ phase' = "idle"
  /\ flash' = configured
  /\ late' = Nothing
  /\ stored' = configured
  /\ answer' = "ok"
  /\ UNCHANGED <<power, active, configured, asked, failed>>

\* NVS brings a staged value to the flash in its own time.
WriteBack ==
  /\ late # Nothing
  /\ flash' = late
  /\ late' = Nothing
  /\ UNCHANGED <<power, ram, answer, history>>

\* Power loss or CPU reset; a value that was only in RAM is gone.
PowerLoss ==
  /\ power # "off"
  /\ power' = "off"
  /\ late' = Nothing
  /\ flash' \in {flash} \cup ({late} \ {Nothing})
  /\ answer' = "none"
  /\ UNCHANGED <<ram, history>>

IdInit ==
  /\ power = "off"
  /\ active = Default /\ configured = Default
  /\ stored = Nothing /\ phase = "idle"
  /\ flash \in NodeIds \cup {Absent, BadId}
  /\ late = Nothing
  /\ answer = "none"
  /\ asked = {flash} \cap NodeIds
  /\ failed = FALSE

Store == SaveUnchanged \/ SaveBegin \/ SetOk \/ SetFails \/ CommitFails \/ CommitOk

IdNext ==
  \/ Boot \/ BootRefused
  \/ \E id \in NodeIds \cup {BadId} : WriteConfigured(id)
  \/ SaveBadSignature
  \/ Store
  \/ WriteBack
  \/ PowerLoss

IdSpec == IdInit /\ [][IdNext]_idvars

-----------------------------------------------------------------------------
(* Properties.                                                             *)

\* Every variable has its type.
IdTypeOK ==
  /\ power \in {"off", "running", "refused"}
  /\ active \in NodeIds /\ configured \in NodeIds
  /\ stored \in NodeIds \cup {Nothing}
  /\ phase \in {"idle", "staging", "committing"}
  /\ flash \in NodeIds \cup {Absent, BadId}
  /\ late \in NodeIds \cup {Nothing}
  /\ answer \in {"none", "ok", "refused"}
  /\ asked \subseteq NodeIds
  /\ failed \in BOOLEAN

\* A value of 0x2001:01 that nobody asked to save never becomes the node's id,
\* whatever fails and wherever the power is lost; ids present at delivery
\* count as saved.
UnsavedNeverActive == active \in asked \cup {Default}

\* In a power cycle without a failed store, what the code believes about NVS
\* is true between two saves, so that the shortcut for a repeated save is
\* sound and a reported success is in the flash.
BeliefTrue ==
  power = "running" /\ ~failed /\ phase = "idle" =>
    /\ late = Nothing
    /\ stored # Nothing => flash = stored
    /\ answer = "ok" => flash = configured

\* The node keeps the id it started with until the power goes: the answer to
\* a save still leaves from the old COB-ID.
ActiveUntilPowerLoss == [][power = "running" => active' = active]_idvars

\* architecture.md: a successful SDO response to "save" means that the value
\* has been persisted.
SuccessMeansPersisted == answer = "ok" => flash = configured
=============================================================================
