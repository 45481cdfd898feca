------------------------- MODULE MCInstallRootLock -------------------------
EXTENDS InstallRootLock
============================================================================
