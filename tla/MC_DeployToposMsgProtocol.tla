---------------------- MODULE MC_DeployToposMsgProtocol ----------------------
EXTENDS DeployToposMsgProtocol

\* initialize() is offered only through the script and the attacker here.
MCAdminLists == {<<Sequencer>>}
=============================================================================
