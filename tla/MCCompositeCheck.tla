-------------------------- MODULE MCCompositeCheck --------------------------
(* CompositeCheck with up to two vCenters and up to two node results. *)
EXTENDS CompositeCheck

MCVersionLists ==
  LET V == {Unparsable, 650, 673, 702}
  IN  {<<v>> : v \in V} \cup {<<v, w>> : v, w \in V}

NodeFailure ==
  { MakeClusterUnupgradeableError("check_deprecated_esxi_version"),
    makeDeprecatedEnvironmentError("check_deprecated_hw_version"),
    MakeClusterDegradedError("non_vsphere_node") }

MCNodeResults ==
  {<<MakeClusterCheckResultPass>>}
  \cup {<<r>> : r \in NodeFailure} \cup {<<q, r>> : q, r \in NodeFailure}
=============================================================================
