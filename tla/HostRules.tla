------------------------------ MODULE HostRules ------------------------------
(***************************************************************************)
(* What a run may say of the host it was measured on: `host_state` of       *)
(* src/host_rules.rs, which both writers of the `runs` table apply, beside  *)
(* the CHECK constraints that the table applies to what it is given.        *)
(*                                                                         *)
(* The two are written by hand, one in Rust and one in SQL, and each says   *)
(* that it mirrors the other; a run goes through both.  In between it is a  *)
(* HostState, which has no place for the columns of another platform, and   *)
(* on its way back it is read from the columns by `host_state_from_row`.    *)
(*                                                                         *)
(* Every value is an integer, which for a text, a flag and a number that    *)
(* no rule looks at just tells one value from another.                      *)
(***************************************************************************)
EXTENDS Integers, Sequences

CONSTANT Absent  \* a JSON null, an SQL NULL, a None

\* The texts that a rule knows of
Platforms   == {"android", "linux"}
Classes     == {"internal", "external"}
Statuses    == {"succeeded", "crashed", "timed_out", "cancelled", "infrastructure_error"}
Correctness == {"passed", "failed", "not_checked", "validator_error"}
Texts       == {"text", "hex64", "strings", "object"}

ASSUME AbsentAssumption ==
  Absent \notin Int \cup Platforms \cup Classes \cup Statuses \cup Correctness \cup Texts

Value == Int \cup {Absent}

Clocks       == {"gpu_clock_mhz", "mif_clock_mhz", "int_clock_mhz"}
Lab          == {"bsp_version", "sumd_driver_version"} \cup Clocks
Temperatures == {"initial_temperature_celsius", "max_temperature_celsius"}
Description  == {"host_os", "host_kernel", "host_cpu_model", "host_cpu_count",
                 "host_memory_bytes", "host_accelerator", "host_accelerator_driver"}

\* The fields of HostInput, and the columns of the table.
HostField == Lab \cup Temperatures \cup Description
               \cup {"device_uptime_seconds", "thermal_throttling", "battery_charging"}

HostInput == [HostField -> Value]

Missing(in, S) == {f \in S : in[f] = Absent}
Given(in, S)   == {f \in S : in[f] # Absent}

-----------------------------------------------------------------------------
(* host_state *)

\* A clock of zero would pass.
MutantOutOfRange(f, v) ==
  /\ v # Absent
  /\ \/ f \in Clocks \cup {"device_uptime_seconds", "host_memory_bytes"} /\ v < 0
     \/ f = "host_cpu_count" /\ v <= 0
     \/ f \in Temperatures /\ ~ (-40 <= v /\ v <= 150)

\* positive_clock, temperature, non_negative
OutOfRange(f, v) ==
  /\ v # Absent
  /\ \/ f \in Clocks \cup {"host_cpu_count"} /\ v <= 0
     \/ f \in {"device_uptime_seconds", "host_memory_bytes"} /\ v < 0
     \/ f \in Temperatures /\ ~ (-40 <= v /\ v <= 150)

RangeViolations(in) == {f \in HostField : OutOfRange(f, in[f])}

PhoneOnly     == Lab \cup Temperatures \cup {"battery_charging"}
LinuxRequires == {"host_os", "host_kernel", "host_cpu_model", "host_accelerator"}
LabRequires   == Temperatures \cup
                   {"device_uptime_seconds", "battery_charging", "thermal_throttling"}

\* The lab configuration comes whole or not at all, and whole from a lab phone.
LabViolations(in, class) ==
  IF class = "internal" \/ Given(in, Lab) # {} THEN Missing(in, Lab) ELSE {}

PlatformViolations(in, platform, class) ==
  IF platform = "linux"
  THEN Given(in, PhoneOnly) \cup Missing(in, LinuxRequires)
  ELSE LabViolations(in, class)
         \cup (IF class = "internal" THEN Missing(in, LabRequires) ELSE {})

HostAccepts(in, platform, class) ==
  RangeViolations(in) \cup PlatformViolations(in, platform, class) = {}

\* The order in which the rules are applied: the first that is violated names
\* the field of the answer.
RangeOrder == <<"gpu_clock_mhz", "mif_clock_mhz", "int_clock_mhz",
  "initial_temperature_celsius", "max_temperature_celsius",
  "device_uptime_seconds", "host_cpu_count", "host_memory_bytes">>

LabOrder == <<"bsp_version", "sumd_driver_version", "gpu_clock_mhz",
  "mif_clock_mhz", "int_clock_mhz">>

PlatformOrder(platform) ==
  IF platform = "linux"
  THEN LabOrder \o <<"battery_charging", "initial_temperature_celsius",
         "max_temperature_celsius", "host_os", "host_kernel", "host_cpu_model",
         "host_accelerator">>
  ELSE LabOrder \o <<"device_uptime_seconds", "battery_charging",
         "initial_temperature_celsius", "max_temperature_celsius",
         "thermal_throttling">>

First(f, order, S) ==
  f \in S /\ \E i \in DOMAIN order :
              order[i] = f /\ \A j \in 1..(i - 1) : order[j] \notin S

\* `unwrap_or("bsp_version")` as the field of every lab violation, given or not.
MutantHostError(f, in, platform, class) ==
  IF RangeViolations(in) # {} THEN First(f, RangeOrder, RangeViolations(in))
  ELSE IF platform = "android" /\ LabViolations(in, class) # {} THEN f = "bsp_version"
  ELSE First(f, PlatformOrder(platform), PlatformViolations(in, platform, class))

HostError(f, in, platform, class) ==
  IF RangeViolations(in) # {} THEN First(f, RangeOrder, RangeViolations(in))
  ELSE First(f, PlatformOrder(platform), PlatformViolations(in, platform, class))

-----------------------------------------------------------------------------
(* From the input to the columns and back *)

\* A LinuxHostState without the size of the memory
MutantStateFields(platform) ==
  IF platform = "linux" THEN HostField \ (PhoneOnly \cup {"host_memory_bytes"}) ELSE HostField

\* The fields of AndroidDeviceState and LinuxHostState
StateFields(platform) ==
  IF platform = "linux" THEN HostField \ PhoneOnly ELSE HostField

HostState(in, platform) == [f \in StateFields(platform) |-> in[f]]

\* `insert_run` binds NULL to the columns of the other platform.
Columns(state) ==
  [f \in HostField |-> IF f \in DOMAIN state THEN state[f] ELSE Absent]

\* AndroidDeviceState::is_complete_lab_snapshot, a check of insert_run itself
IsCompleteLabSnapshot(state) == Missing(state, Lab \cup LabRequires) = {}

\* The columns' own CHECKs
ColumnAllows(f, v) ==
  v # Absent =>
    /\ f \in Clocks \cup {"host_cpu_count"} => v > 0
    /\ f \in {"device_uptime_seconds", "host_memory_bytes"} => v >= 0
    /\ f \in Temperatures => v \in -40..150

\* "Each platform and device class carries exactly its own snapshot"
SnapshotAllows(row, platform, class) ==
  \/ /\ platform = "linux"
     /\ \A f \in LinuxRequires : row[f] # Absent
     /\ \A f \in PhoneOnly : row[f] = Absent
  \/ /\ platform = "android" /\ class = "internal"
     /\ \A f \in Lab \cup LabRequires : row[f] # Absent
  \/ /\ platform = "android" /\ class = "external"
     /\ \/ \A f \in Lab : row[f] = Absent
        \/ \A f \in Lab : row[f] # Absent

TableAllows(row, platform, class) ==
  /\ \A f \in HostField : ColumnAllows(f, row[f])
  /\ SnapshotAllows(row, platform, class)

\* host_state_from_row fails on a column that a snapshot cannot do without.
Readable(row, platform) ==
  IF platform = "linux" THEN Missing(row, LinuxRequires) = {}
  ELSE row["bsp_version"] # Absent => Missing(row, Lab) = {}

\* The lab configuration is read if there is a bsp_version.
FromRow(row, platform) ==
  [f \in StateFields(platform) |->
     IF f \in Lab /\ row["bsp_version"] = Absent THEN Absent ELSE row[f]]
=============================================================================
