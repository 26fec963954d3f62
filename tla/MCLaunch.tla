---- MODULE MCLaunch ----
EXTENDS Launch
====
