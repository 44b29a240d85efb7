--------------------------- MODULE MCStoragePolicy ---------------------------
(* StoragePolicy with two datastores: one failure domain, one on each, and *)
(* none on this vCenter.                                                   *)
EXTENDS StoragePolicy

CONSTANTS d1, d2

MCDatastore == {d1, d2}
MCDomainLists == {<< >>, <<d1>>, <<d1, d2>>}
=============================================================================
