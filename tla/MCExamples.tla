----------------------------- MODULE MCExamples -----------------------------
EXTENDS Examples
=============================================================================
