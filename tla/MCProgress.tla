----------------------------- MODULE MCProgress ------------------------------
(* The parts that something must become of in the end: the USB controller in  *)
(* device mode and in host mode, the i2cVars controller, the watchdog, SysTick,   *)
(* and the debugger's server.  A behaviour works with one of them.            *)
EXTENDS Integers, UsbDevice, I2c, Debugger

CONSTANTS Packet, Responses, MaxReports, MaxTransfers, MaxPlugs, None,
          Sub, Wrap, Never, Loads, SysTickTop

VARIABLES controller, h, dev, drv, wd, tick

H == INSTANCE UsbHost
C == INSTANCE Countdown WITH Alarms <- {"zero"}, Resets <- TRUE

ASSUME ProgressAssumption == I2cConstants /\ DebuggerConstants /\ H!HostConstants /\ C!CountdownConstants

Host == <<h, dev, drv>>
vars == <<controller, usbVars, Host, i2cVars, wd, tick, debuggerVars>>

Init ==
    /\ controller \in {"device", "host", "i2c", "watchdog", "systick", "debugger"}
    /\ UsbInit /\ H!HostInit /\ I2cInit /\ C!CountdownInit /\ DebuggerInit
    /\ controller # "device" => \A n \in DescriptorSizes : fw.size <= n

WatchdogNext == (C!WatchdogWrites \/ C!Bite \/ C!TimePasses) /\ UNCHANGED tick
SysTickNext == (C!SysTickWrites \/ C!systickAlarm \/ C!TimePasses) /\ UNCHANGED wd

ControllerNext ==
    \/ controller = "device" /\ UsbNext /\ UNCHANGED <<Host, i2cVars, wd, tick>>
    \/ controller = "host" /\ H!HostNext /\ UNCHANGED <<usbVars, i2cVars, wd, tick>>
    \/ controller = "i2c" /\ I2cNext /\ UNCHANGED <<usbVars, Host, wd, tick>>
    \/ controller = "watchdog" /\ WatchdogNext /\ UNCHANGED <<usbVars, Host, i2cVars>>
    \/ controller = "systick" /\ SysTickNext /\ UNCHANGED <<usbVars, Host, i2cVars>>

Next ==
    /\ \/ ControllerNext /\ UNCHANGED debuggerVars
       \/ controller = "debugger" /\ DebuggerNext /\ UNCHANGED <<usbVars, Host, i2cVars, wd, tick>>
    /\ UNCHANGED controller

\* A controller at reset has nothing to do until its driver sets it up.
Fairness ==
    /\ WF_usbVars(controller = "device" /\ WriteMainCtrl)
    /\ BusFairness /\ H!HostFairness /\ I2cFairness /\ C!CountdownFairness
    /\ DebuggerFairness

Spec == Init /\ [][Next]_vars /\ Fairness

\* Serial bytes, control data and reports arrive whole and in order, and the port's
\* state as the firmware last read it is true or about to be put right (usb.ts, cdc.ts).
DataIntact == SerialIntact /\ H!ControlWhole /\ H!ReportsInOrder /\ H!PortSeen

\* The watchdog's and SysTick's alarms are due when their counters reach 0
\* (timer32.ts, watchdog.ts, ppb.ts).
CountdownAims == C!CountdownAims

\* The serial port comes up, a host's control transfer ends, an abort on the i2cVars
\* bus comes to its end, a watchdog that is no longer fed bites, the debugger gets
\* its answers and its breaks.
Progress ==
    /\ controller = "device" => ComesUp
    /\ H!TransferEnds /\ AbortEnds /\ C!Bites /\ DebuggerAnswers
=============================================================================
