----------------------------- MODULE MCNotifier -----------------------------
(* Notifier on small instances.                                            *)
EXTENDS Notifier
=============================================================================
