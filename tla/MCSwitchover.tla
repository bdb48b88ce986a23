---------------------------- MODULE MCSwitchover ----------------------------
(* Switchover on a small host: which commands may fail in a run.            *)
EXTENDS Switchover

AnyStep == Scripts \X Steps

\* Only the termination of Aegis may fail.
EarlyStarts == {<<"start", "terminate">>}
=============================================================================
