----------------------- MODULE MCDeploymentLifecycle -----------------------
EXTENDS DeploymentLifecycle, TLC
=============================================================================
