---------------------------- MODULE MCRunListing ----------------------------
(***************************************************************************)
(* Instances for TLC of the two ways to look at the table of runs: page by   *)
(* page, RunListing, and grouped, Results.  A reader does one or the other.  *)
(***************************************************************************)
EXTENDS Results

MCRuns  == 1..5
MCTimes == 1..2

\* What the runs have in common
Common ==
  "platform" :> "android" @@ "device_class" :> "external" @@ "device_serial" :> "s1" @@
  "model_asset_id" :> "m1" @@ "git_commit_sha" :> "c1" @@ "git_dirty" :> 0 @@
  "sumd_driver_version" :> None @@ "bsp_version" :> None @@ "gpu_clock_mhz" :> None @@
  "mif_clock_mhz" :> None @@ "int_clock_mhz" :> None @@ "host_accelerator" :> None @@
  "prompt_sha256" :> "p1" @@ "device_model" :> None @@ "git_branch" :> None @@
  "git_commit_timestamp" :> None @@ "git_commit_subject" :> None @@
  "exit_status" :> "succeeded" @@ "correctness_result" :> "passed" @@
  "prefill" :> 3 @@ "decode" :> None @@ "thermal_throttling" :> 0

Lab == "sumd_driver_version" :> "v1" @@ "bsp_version" :> "b1" @@ "gpu_clock_mhz" :> 5 @@
       "mif_clock_mhz" :> 5 @@ "int_clock_mhz" :> 5

\* Three runs of one configuration, the third of a known branch, one that has
\* crashed with a lab configuration, and one of another model.
MCAttr == [r \in MCRuns |->
  CASE r = 1 -> Common
    [] r = 2 -> "prefill" :> 8 @@ "decode" :> 4 @@ "correctness_result" :> "failed" @@
                "device_model" :> "d1" @@ Common
    [] r = 3 -> "prefill" :> 1 @@ "decode" :> 2 @@ "git_branch" :> "main" @@
                "git_commit_timestamp" :> 1 @@ Common
    [] r = 4 -> "exit_status" :> "crashed" @@ "thermal_throttling" :> 1 @@
                "git_branch" :> "main" @@ Lab @@ Common
    [] r = 5 -> "model_asset_id" :> "m2" @@ "git_commit_timestamp" :> 2 @@ Common]

MCFilters == {<<>>, "git_branch" :> "main", "device_serial" :> "s1" @@ "platform" :> "linux",
              "prompt_sha256" :> "no_digest"}

VARIABLE mode

LookInit == Init /\ ResultsInit /\ mode \in {"pages", "results"}

LookNext ==
  /\ UNCHANGED mode
  /\ \/ mode = "pages" /\ Next /\ UNCHANGED results
     \/ mode = "results" /\ ResultsNext

LookSpec == LookInit /\ [][LookNext]_<<vars, results, mode>>
=============================================================================
