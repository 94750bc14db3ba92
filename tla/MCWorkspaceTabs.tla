--------------------------- MODULE MCWorkspaceTabs ---------------------------
\* Small instances of WorkspaceTabs for TLC.
EXTENDS WorkspaceTabs
=============================================================================
