-------------------------- MODULE MCDeviceReminder --------------------------
(* DeviceReminder with the calls that may throw chosen by the configuration. *)
EXTENDS DeviceReminder

MCNoCall == {}
MCSends == {"send", "sense", "scan"}
MCAnyCall == {"send", "start_timer", "stop_timer", "sense", "scan", "on", "off", "load"}

=============================================================================
