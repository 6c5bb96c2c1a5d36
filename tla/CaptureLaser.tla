---------------------------- MODULE CaptureLaser ----------------------------
(***************************************************************************)
(* A measuring session: the dialog (MFCApplication1Dlg.cpp) and the class  *)
(* CaptureLaser (CaptureLaser.cpp) on the LJ-V7000 controller's library.   *)
(*                                                                         *)
(* A button runs its handler on the dialog's thread from start to end.  A  *)
(* handler is the sequence of its statements that change something, its    *)
(* script; one action executes one statement, so that the controller may   *)
(* be unplugged, get busy or deliver a batch between any two of them.      *)
(*                                                                         *)
(* The library is external.  A call on it succeeds only where it can (its  *)
(* header and its error codes say where) and may always fail there: then   *)
(* it has no effect.  The calls that close something always have their     *)
(* effect, and may say anything.                                           *)
(***************************************************************************)
EXTENDS Naturals, Sequences

CONSTANTS
  MaxClicks     (* bound: buttons pressed in a behaviour                   *)

ASSUME SessionAssumption == MaxClicks \in Nat

VARIABLES
  running,        (* the process has not ended                             *)
  handler, pc,    (* the handler that runs, or ran last, and its statement *)
  timers,         (* the timers of the dialog's window that are set        *)
  m_deviceStatus,
  m_aProfileInfo, (* is it that of the communication that is open?         *)
  consumers,      (* consumer threads started                              *)
  validID,        (* m_xvCurrentDeviceID is never set: is it a device?     *)
  library, path,  (* LJV7: is the library initialised, the path open       *)
  highSpeed,      (* LJV7: how far the high-speed communication has got    *)
  plugged, busy,  (* the controller: is it there, is it storing            *)
  spoilt,         (* has a call failed that could have succeeded?          *)
  clicks          (* buttons pressed                                       *)

dialogVars == <<running, handler, pc, timers, validID, clicks>>
deviceVars == <<m_deviceStatus, m_aProfileInfo, consumers>>
linkVars   == <<library, path, highSpeed>>
vars == <<dialogVars, deviceVars, linkVars, plugged, busy, spoilt>>

Dialog_TIMER_EX_ID == 10   (* MFCApplication1Dlg.h *)
TIMER_ID           == 100  (* CaptureLaser.h *)
TIMER_EX_ID        == 200  (* CaptureLaser.h *)

-----------------------------------------------------------------------------
(* The scripts.  Nobody looks at what a function returns, and only         *)
(* DoLaserInitUsbHighSpeedDatas looks at the codes of its calls: it        *)
(* returns where one of the InitCalls fails.                               *)

CloseHighSpeed == <<"StopHighSpeed", "FinalizeHighSpeed">>

(* Mutant: the link is closed under an open communication. *)
closeSystemsShort == <<"ClearBuffer", "CommClose", "Finalize", "NoConnection">>

closeSystems ==
  <<"ClearBuffer">> \o CloseHighSpeed \o <<"CommClose", "Finalize", "NoConnection">>

InitCalls ==
  {"CommCloseOrReturn", "FinalizeOrReturn", "Initialize", "UsbOpen", "UsbFast", "SetTime"}

(* Mutant: the library that closeSystems finalised is not initialised. *)
LaserInitOnce ==
  <<"ClearCounters">> \o CloseHighSpeed
    \o <<"CommCloseOrReturn", "FinalizeOrReturn", "UsbOpen", "UsbFast", "SetTime">>

DoLaserInitUsbHighSpeedDatas ==
  <<"ClearCounters">> \o CloseHighSpeed
    \o <<"CommCloseOrReturn", "FinalizeOrReturn", "Initialize", "UsbOpen",
         "UsbFast", "SetTime">>

StartCommonSystems ==
  <<"ClearBuffer", "ClearMemory">> \o closeSystems \o DoLaserInitUsbHighSpeedDatas
    \o <<"UsbInitialize", "PreStart", "Start", "DoProcessDatas">>

(* Both ways of PauseCommonSystems; CheckMemoryAccess chooses one. *)
PauseCommonSystems ==
  <<"CheckMemoryAccess">> \o CloseHighSpeed \o <<"ClearBuffer", "ClearMemory">>

(* Mutant: the retry of a pause is forgotten. *)
StopCommonSystemsLoud == <<"ClearBuffer", "ClearMemory">> \o closeSystems

StopCommonSystems ==
  <<"KillTimer", "ClearBuffer", "ClearMemory">> \o closeSystems

Script ==
  [OnInitDialog |-> DoLaserInitUsbHighSpeedDatas,
   Button1 |-> <<"KillTimerEx">> \o StartCommonSystems \o <<"SetTimerEx">>,
   Button2 |-> PauseCommonSystems,
   Button3 |-> <<"KillTimerEx">> \o StopCommonSystems]

Handlers == DOMAIN Script
Buttons  == Handlers \ {"OnInitDialog"}

Length == [h \in Handlers |-> Len(Script[h])]

Idle == pc > Length[handler]
Call == Script[handler][pc]

(* Where the script goes on: after the statement, after the rest of the    *)
(* initialisation, or at its end.                                          *)
Goto(p)   == pc' = p /\ UNCHANGED <<running, handler, validID, clicks>>
Proceed   == Goto(pc + 1)
LeaveInit ==
  Goto(CHOOSE p \in pc + 1 .. Length[handler] + 1 :
         /\ \A i \in pc + 1 .. p - 1 : Script[handler][i] \in InitCalls
         /\ p <= Length[handler] => Script[handler][p] \notin InitCalls)
Return == Goto(Length[handler] + 1)

Failed == IF Call \in InitCalls THEN LeaveInit ELSE Proceed

-----------------------------------------------------------------------------
Init ==
  /\ running = TRUE /\ validID \in BOOLEAN
  /\ handler = "OnInitDialog" /\ pc = 1 /\ clicks = 0
  /\ timers = {}
  /\ m_deviceStatus = "unset" /\ m_aProfileInfo = FALSE /\ consumers = 0
  /\ library = FALSE /\ path = FALSE /\ highSpeed = "closed"
  /\ plugged \in BOOLEAN /\ busy = FALSE /\ spoilt = FALSE

(* A click on Start, Pause or Stop, when the dialog's thread is free. *)
Click(h) ==
  /\ running /\ Idle /\ clicks < MaxClicks
  /\ handler' = h /\ pc' = 1 /\ clicks' = clicks + 1
  /\ spoilt' = FALSE
  /\ UNCHANGED <<running, timers, validID, deviceVars, linkVars, plugged, busy>>

(* KeepGettingData returns at once. *)
KeepGettingData == UNCHANGED vars

(* OnTimer knows its own timer; CDialogEx does nothing with any other. *)
OnTimer(id) ==
  /\ running /\ Idle /\ id \in timers
  /\ IF id = Dialog_TIMER_EX_ID THEN KeepGettingData ELSE UNCHANGED vars

-----------------------------------------------------------------------------
(* Statements that open something *)

Opening == {"Initialize", "UsbOpen", "UsbInitialize", "PreStart", "Start", "SetTime"}

(* Where a call can succeed. *)
Possible(c) ==
  CASE c = "Initialize"    -> TRUE
    [] c = "UsbOpen"       -> library
    [] c = "UsbInitialize" -> path /\ highSpeed = "closed"
    [] c = "PreStart"      -> highSpeed = "ready"
    [] c = "Start"         -> highSpeed = "armed"
    [] c = "SetTime"       -> path

Reachable(c) == c # "Initialize" => plugged /\ validID

(* What each does to the library, and what its caller does on success. *)
Opened(c) ==
  /\ library' = (library \/ c = "Initialize")
  /\ path' = (path \/ c = "UsbOpen")
  /\ highSpeed' = CASE c = "UsbInitialize" -> "ready"
                    [] c = "PreStart"      -> "armed"
                    [] c = "Start"         -> "streaming"
                    [] OTHER               -> highSpeed
  /\ m_deviceStatus' = IF c = "UsbInitialize" THEN "UsbFast" ELSE m_deviceStatus
  /\ m_aProfileInfo' = (m_aProfileInfo \/ c = "PreStart")
  /\ UNCHANGED consumers

Succeed ==
  /\ running /\ ~Idle /\ Call \in Opening
  /\ Possible(Call) /\ Reachable(Call)
  /\ Opened(Call) /\ Proceed
  /\ UNCHANGED <<timers, plugged, busy, spoilt>>

(* Mutant: a failed start leaves the communication prepared. *)
UndoesNothing(c) == FALSE

(* The three steps of a start stop and finalise the communication where    *)
(* they fail.                                                              *)
Undoes(c) == c \in {"UsbInitialize", "PreStart", "Start"}

Closed == highSpeed' = "closed" /\ m_aProfileInfo' = FALSE

(* Settime ignores its code. *)
Fail ==
  /\ running /\ ~Idle /\ Call \in Opening
  /\ IF Undoes(Call) THEN Closed ELSE UNCHANGED <<highSpeed, m_aProfileInfo>>
  /\ IF Call = "SetTime" THEN Proceed ELSE Failed
  /\ spoilt' = (spoilt \/ (Possible(Call) /\ Call # "SetTime"))
  /\ UNCHANGED <<timers, m_deviceStatus, consumers, library, path, plugged, busy>>

-----------------------------------------------------------------------------
(* Statements that close something *)

(* LJV7IF_StopHighSpeedDataCommunication may not get through. *)
StopHighSpeed ==
  /\ running /\ ~Idle /\ Call = "StopHighSpeed"
  /\ \/ UNCHANGED highSpeed
     \/ highSpeed = "streaming" /\ plugged /\ highSpeed' = "ready"
  /\ Proceed
  /\ UNCHANGED <<timers, deviceVars, library, path, plugged, busy, spoilt>>

FinalizeHighSpeed ==
  /\ running /\ ~Idle /\ Call = "FinalizeHighSpeed"
  /\ Closed /\ Proceed
  /\ UNCHANGED <<timers, m_deviceStatus, consumers, library, path, plugged, busy, spoilt>>

(* LJV7IF_CommClose and LJV7IF_Finalize.  Where the initialisation calls   *)
(* them, an error code ends it.                                            *)
Closing    == {"CommClose", "CommCloseOrReturn"}
Finalizing == {"Finalize", "FinalizeOrReturn"}

CloseLink ==
  /\ running /\ ~Idle /\ Call \in Closing \cup Finalizing
  /\ path' = FALSE
  /\ library' = (library /\ Call \notin Finalizing)
  /\ \/ Proceed /\ UNCHANGED spoilt
     \/ Failed /\ spoilt' = TRUE
  /\ UNCHANGED <<timers, deviceVars, highSpeed, plugged, busy>>

-----------------------------------------------------------------------------
(* Statements on the program's own state *)

(* Mutant: Stop leaves the status as it is. *)
StatusOnOpenOnly(c) == IF c = "UsbFast" THEN c ELSE m_deviceStatus

Status(c) == c

SetStatus ==
  /\ running /\ ~Idle /\ Call \in {"UsbFast", "NoConnection"}
  /\ m_deviceStatus' = Status(Call) /\ Proceed
  /\ UNCHANGED <<timers, m_aProfileInfo, consumers, linkVars, plugged, busy, spoilt>>

(* ClearMemory, closeSystems and the initialisation clear what they index  *)
(* by m_xvCurrentDeviceID; LJV7IF_ClearMemory is asked of the controller.  *)
Clear ==
  /\ running /\ ~Idle /\ Call \in {"ClearBuffer", "ClearMemory", "ClearCounters"}
  /\ Proceed
  /\ UNCHANGED <<timers, deviceVars, linkVars, plugged, busy, spoilt>>

(* An index that is no device: the access may end the process. *)
Fault ==
  /\ running /\ ~Idle /\ ~validID
  /\ Call \in {"ClearBuffer", "ClearMemory", "ClearCounters", "NoConnection", "UsbInitialize"}
  /\ running' = FALSE
  /\ UNCHANGED <<handler, pc, timers, validID, clicks, deviceVars, linkVars, plugged, busy, spoilt>>

SetTimers ==
  /\ running /\ ~Idle
  /\ \/ Call = "KillTimerEx" /\ timers' = timers \ {Dialog_TIMER_EX_ID}
     \/ Call = "SetTimerEx"  /\ timers' = timers \cup {Dialog_TIMER_EX_ID}
     \/ Call = "KillTimer"   /\ timers' = timers \ {TIMER_ID}
  /\ Proceed
  /\ UNCHANGED <<deviceVars, linkVars, plugged, busy, spoilt>>

(* Mutant: the pause is retried on the other timer. *)
CheckWithTimerEx ==
  /\ running /\ ~Idle /\ Call = "CheckMemoryAccess"
  /\ busy /\ plugged /\ path /\ validID
  /\ timers' = timers \cup {TIMER_EX_ID}
  /\ Return
  /\ UNCHANGED <<deviceVars, linkVars, plugged, busy, spoilt>>

(* Pause: CheckMemoryAccess says 0 where it cannot ask.  A busy controller *)
(* is not paused: a timer is set instead.                                  *)
CheckMemoryAccess ==
  /\ running /\ ~Idle /\ Call = "CheckMemoryAccess"
  /\ \/ /\ busy /\ plugged /\ path /\ validID
        /\ timers' = (timers \ {TIMER_EX_ID}) \cup {TIMER_ID}
        /\ Return
     \/ /\ timers' = timers \ {TIMER_EX_ID, TIMER_ID}
        /\ Proceed
  /\ UNCHANGED <<deviceVars, linkVars, plugged, busy, spoilt>>

(* DoProcessDatas starts a consumer or, if it cannot, ends the process. *)
DoProcessDatas ==
  /\ running /\ ~Idle /\ Call = "DoProcessDatas"
  /\ \/ consumers' = consumers + 1 /\ Proceed
     \/ running' = FALSE /\ UNCHANGED <<handler, pc, validID, clicks, consumers>>
  /\ UNCHANGED <<timers, m_deviceStatus, m_aProfileInfo, linkVars, plugged, busy, spoilt>>

-----------------------------------------------------------------------------
(* The controller is unplugged or plugged in, starts or ends storing. *)
Controller ==
  /\ running
  /\ \/ plugged' = ~plugged /\ busy' = FALSE
     \/ plugged /\ highSpeed = "streaming" /\ busy' = TRUE /\ UNCHANGED plugged
     \/ busy' = FALSE /\ UNCHANGED plugged
  /\ UNCHANGED <<dialogVars, deviceVars, linkVars, spoilt>>

(* The dialog is closed: the process ends. *)
Close ==
  /\ running /\ Idle /\ running' = FALSE
  /\ UNCHANGED <<handler, pc, timers, validID, clicks, deviceVars, linkVars, plugged, busy, spoilt>>

Statement ==
  \/ Succeed \/ Fail \/ StopHighSpeed \/ FinalizeHighSpeed \/ CloseLink
  \/ SetStatus \/ Clear \/ SetTimers \/ CheckMemoryAccess \/ DoProcessDatas

Next ==
  \/ \E h \in Buttons : Click(h)
  \/ \E id \in timers : OnTimer(id)
  \/ Statement \/ Fault \/ Controller \/ Close

(* The dialog's thread goes on. *)
Spec == Init /\ [][Next]_vars /\ WF_vars(Statement)

-----------------------------------------------------------------------------
(* Every variable keeps its type; the timer that CaptureLaser kills under  *)
(* the name of TIMER_EX_ID is never set.                                   *)
TypeOK ==
  /\ running \in BOOLEAN /\ validID \in BOOLEAN
  /\ handler \in Handlers /\ pc \in 1 .. Length[handler] + 1
  /\ clicks \in 0 .. MaxClicks /\ consumers \in Nat
  /\ timers \subseteq {Dialog_TIMER_EX_ID, TIMER_ID}
  /\ m_deviceStatus \in {"unset", "NoConnection", "UsbFast"}
  /\ m_aProfileInfo \in BOOLEAN /\ library \in BOOLEAN /\ path \in BOOLEAN
  /\ highSpeed \in {"closed", "ready", "armed", "streaming"}
  /\ plugged \in BOOLEAN /\ busy \in BOOLEAN /\ spoilt \in BOOLEAN

(* Nothing is closed under what is still open: a high-speed communication  *)
(* has its path, and a path its library (closeSystems and the start of     *)
(* DoLaserInitUsbHighSpeedDatas, whatever state they are called in).       *)
OpenFromBelow == (highSpeed # "closed" => path) /\ (path => library)

(* However the calls of a handler fail, the handler leaves the high-speed  *)
(* communication closed, or streaming with a callback that has the profile *)
(* information of this very communication: never prepared and not started. *)
AllOrNothing ==
  Idle => highSpeed = "closed" \/ (highSpeed = "streaming" /\ m_aProfileInfo)

(* Start works again from wherever the session is: if every call that can  *)
(* succeed does, it leaves the controller streaming and the timer set,     *)
(* after a start that failed, a pause, a stop or a start.                  *)
StartStreams ==
  handler = "Button1" /\ Idle /\ ~spoilt =>
    highSpeed = "streaming" /\ Dialog_TIMER_EX_ID \in timers

(* Stop ends the session whatever it was doing: nothing is open, and no    *)
(* timer of a measurement or of a pause that was put off is left.          *)
StoppedIsQuiet ==
  handler = "Button3" /\ Idle =>
    /\ timers = {} /\ highSpeed = "closed" /\ ~path /\ ~library

(* Between handlers the status of the device, which nothing asks the       *)
(* controller for, tells whether the path is open.                         *)
StatusTellsOfPath == Idle => (m_deviceStatus = "UsbFast" <=> path)

(* CaptureLaser.h says of TIMER_ID that it is the timer that closes or     *)
(* starts the pausing of the device: a pause that found the controller     *)
(* busy is made once the controller is not busy any more.                  *)
PutOffPauseIsMade ==
  <>[]~busy =>
    (TIMER_ID \in timers ~>
       highSpeed # "streaming" \/ TIMER_ID \notin timers \/ ~running)
=============================================================================
