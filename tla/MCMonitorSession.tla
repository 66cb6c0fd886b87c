-------------------------- MODULE MCMonitorSession --------------------------
(* TLC instances of MonitorSession.                                        *)
EXTENDS MonitorSession

=============================================================================
