---- MODULE MCAutoUpdate ----
EXTENDS AutoUpdate
====
