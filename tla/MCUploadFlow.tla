---------------------------- MODULE MCUploadFlow ----------------------------
EXTENDS UploadFlow
=============================================================================
