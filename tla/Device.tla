------------------------------- MODULE Device -------------------------------
(* The reader from reset on: app_main starts the network and nfc_task        *)
(* (Startup.tla), and the turns of nfc_task start blink tasks (Leds.tla)     *)
(* beside event_handler.                                                     *)
EXTENDS Startup, Leds

device_vars == <<startup_vars, leds_vars>>

DeviceTypeOK == StartupTypeOK /\ LedsTypeOK

DeviceInit == StartupInit /\ LedsInit

Network == StartupNext /\ UNCHANGED leds_vars

(* The end of a turn of nfc_task, or a heartbeat; Reader.tla has the rest.   *)
Turn ==
    /\ pc = "nfc"
    /\ \E c \in Colours : Blink(c)
    /\ UNCHANGED startup_vars

BlinkTasks == (\E s \in Slots : BlinkStep(s)) /\ UNCHANGED startup_vars

DeviceNext == Network \/ Turn \/ BlinkTasks

DeviceSpec == DeviceInit /\ [][DeviceNext]_device_vars

FairDeviceSpec == DeviceSpec /\ FairStartup /\ FairLeds
=============================================================================
