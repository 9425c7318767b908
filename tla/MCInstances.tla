---------------------------- MODULE MCInstances -----------------------------
(* getInstance for TLC: three callers, three servers one after the other.  *)
EXTENDS Instances
=============================================================================
