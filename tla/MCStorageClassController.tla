---------------------- MODULE MCStorageClassController ----------------------
(* StorageClassController for a cluster that spans two vCenters. *)
EXTENDS StorageClassController

MCVCenters == <<"vcenter1", "vcenter2">>
=============================================================================
