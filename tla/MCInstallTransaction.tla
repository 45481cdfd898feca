----------------------- MODULE MCInstallTransaction -----------------------
EXTENDS InstallTransaction

\* Three versions; the last two have the same bytes.
MCBytesOf == <<"one", "two", "two">>

=============================================================================
