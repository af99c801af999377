----------------------- MODULE MC_ToposCoreLifecycle -----------------------
EXTENDS ToposCoreLifecycle

MCAdminLists == {<<Sequencer>>}
=============================================================================
