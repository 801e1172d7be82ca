---- MODULE MCThreadSession ----
EXTENDS ThreadSession, TLC
====
