----------------------------- MODULE MCReadPath -----------------------------
\* Small instances of ReadPath.
EXTENDS ReadPath
=============================================================================
