------------------------ MODULE MCVSphereController ------------------------
(* Instances of VSphereController. *)
EXTENDS VSphereController

Pass == MakeClusterCheckResultPass

(* One environment for each way a check may end. *)
AllEnvs ==
  { Pass, MakeClusterUnupgradeableError("check_deprecated_esxi_version"),
    makeDeprecatedEnvironmentError("check_deprecated_hw_version"),
    MakeClusterDegradedError("non_vsphere_node") }

GoodEnv == { Pass }

BlockingEnvs == { Pass, MakeClusterUnupgradeableError("check_deprecated_esxi_version") }

AllLogins == {"ok", "unreachable", "badSecret", "badConfig"}

LostVCenter == {"ok", "unreachable"}

GoodLogin == {"ok"}
=============================================================================
