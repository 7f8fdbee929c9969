---------------------------- MODULE MCBackgroundTask ----------------------------
(* Instances of BackgroundTask for TLC.                                    *)
EXTENDS BackgroundTask

AllSetups == {"plain", "nopass", "password"}
================================================================================
