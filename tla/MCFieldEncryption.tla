-------------------------- MODULE MCFieldEncryption --------------------------
\* Small instances of FieldEncryption for TLC.
EXTENDS FieldEncryption
=============================================================================
