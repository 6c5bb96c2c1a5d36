------------------------- MODULE CaptureLaserProofs -------------------------
(* Proofs about the measuring session, for any number of clicks: its types,*)
(* that nothing is closed under what is still open, that no handler leaves *)
(* a communication prepared and not started, that Start streams, that Stop *)
(* ends everything, and that the status tells whether the path is open.    *)
EXTENDS CaptureLaser, SequenceTheorems, WellFoundedInduction, TLAPS

Calls ==
  {"ClearBuffer", "ClearMemory", "ClearCounters", "StopHighSpeed", "FinalizeHighSpeed",
   "CommClose", "Finalize", "NoConnection", "CommCloseOrReturn", "FinalizeOrReturn",
   "Initialize", "UsbOpen", "UsbFast", "SetTime", "UsbInitialize", "PreStart", "Start",
   "DoProcessDatas", "CheckMemoryAccess", "KillTimer", "KillTimerEx", "SetTimerEx"}

(* The calls that are made with the high-speed communication closed. *)
UnderLink == Closing \cup Finalizing \cup InitCalls

-----------------------------------------------------------------------------
(* The order of the statements of a script *)

(* s, run after a statement of UnderLink or after FinalizeHighSpeed, makes *)
(* no call under an open communication, finalises what it stops, and takes *)
(* the steps of a start one right after the other.                         *)
OrderedAfter(s) ==
  \A i \in 1 .. Len(s) :
    /\ s[i] \in UnderLink /\ i > 1 => s[i - 1] \in UnderLink \cup {"FinalizeHighSpeed"}
    /\ s[i] = "StopHighSpeed" => i < Len(s) /\ s[i + 1] = "FinalizeHighSpeed"
    /\ s[i] = "UsbInitialize" => i < Len(s) /\ s[i + 1] = "PreStart"
    /\ s[i] = "PreStart"      => i < Len(s) /\ s[i + 1] = "Start"

StartsClosed(s) == Len(s) > 0 => s[1] \notin UnderLink

Ordered(s) == s \in Seq(Calls) /\ OrderedAfter(s) /\ StartsClosed(s)

LEMMA ConcatAt ==
  ASSUME NEW S, NEW s \in Seq(S), NEW t \in Seq(S)
  PROVE  /\ s \o t \in Seq(S) /\ Len(s \o t) = Len(s) + Len(t)
         /\ Len(s) \in Nat /\ Len(t) \in Nat
         /\ \A i \in 1 .. Len(s) : (s \o t)[i] = s[i]
         /\ \A i \in Len(s) + 1 .. Len(s) + Len(t) : (s \o t)[i] = t[i - Len(s)]
<1>1. Len(s) \in Nat /\ Len(t) \in Nat
  BY LenProperties
<1>2. QED
  BY <1>1, ConcatProperties

(* One ordered script after another is an ordered script. *)
LEMMA ConcatOrdered ==
  ASSUME NEW s, NEW t, Ordered(s), Ordered(t)
  PROVE  Ordered(s \o t)
<1> DEFINE r == s \o t  m == Len(s)  n == Len(t)
<1>1. s \in Seq(Calls) /\ t \in Seq(Calls)
  BY DEF Ordered
<1>2. /\ r \in Seq(Calls) /\ Len(r) = m + n /\ m \in Nat /\ n \in Nat
      /\ \A i \in 1 .. m : r[i] = s[i]
      /\ \A i \in m + 1 .. m + n : r[i] = t[i - m]
  BY <1>1, ConcatAt
<1>3. OrderedAfter(s) /\ StartsClosed(s) /\ OrderedAfter(t) /\ StartsClosed(t)
  BY DEF Ordered
<1> HIDE DEF r, m, n
<1>4. OrderedAfter(r)
  <2> SUFFICES ASSUME NEW i \in 1 .. m + n
               PROVE  /\ r[i] \in UnderLink /\ i > 1 =>
                           r[i - 1] \in UnderLink \cup {"FinalizeHighSpeed"}
                      /\ r[i] = "StopHighSpeed" => i < m + n /\ r[i + 1] = "FinalizeHighSpeed"
                      /\ r[i] = "UsbInitialize" => i < m + n /\ r[i + 1] = "PreStart"
                      /\ r[i] = "PreStart"      => i < m + n /\ r[i + 1] = "Start"
    BY <1>2 DEF OrderedAfter
  <2>1. CASE i <= m
    <3>1. i \in 1 .. m /\ r[i] = s[i]
      BY <2>1, <1>2
    <3>2. i > 1 => r[i - 1] = s[i - 1]
      BY <3>1, <1>2
    <3>3. i < m => r[i + 1] = s[i + 1]
      BY <3>1, <1>2
    <3>4. i < m => i < m + n
      BY <1>2
    <3>5. QED
      BY <3>1, <3>2, <3>3, <3>4, <1>3 DEF OrderedAfter, m
  <2>2. CASE i > m
    <3>1. i - m \in 1 .. n /\ r[i] = t[i - m]
      BY <2>2, <1>2
    <3>2. i - m > 1 => r[i - 1] = t[(i - m) - 1]
      BY <2>2, <1>2
    <3>3. i - m < n => r[i + 1] = t[(i - m) + 1] /\ i < m + n
      BY <2>2, <1>2
    <3>4. i - m = 1 => r[i] \notin UnderLink
      BY <3>1, <1>3 DEF StartsClosed, n
    <3>5. i - m > 1 \/ i - m = 1
      BY <3>1, <1>2
    <3>6. QED
      BY <3>1, <3>2, <3>3, <3>4, <3>5, <1>3 DEF OrderedAfter, n
  <2>3. QED
    BY <2>1, <2>2, <1>2
<1>5. StartsClosed(r)
  <2>1. CASE m = 0
    BY <2>1, <1>2, <1>3 DEF StartsClosed, n
  <2>2. CASE m > 0
    BY <2>2, <1>2, <1>3 DEF StartsClosed, m
  <2>3. QED
    BY <2>1, <2>2, <1>2
<1>6. QED
  BY <1>2, <1>4, <1>5 DEF Ordered, r

(* After CloseHighSpeed the calls of UnderLink may follow. *)
LEMMA CloseHighSpeedOrdered ==
  ASSUME NEW t \in Seq(Calls), OrderedAfter(t)
  PROVE  Ordered(CloseHighSpeed \o t)
<1> DEFINE r == CloseHighSpeed \o t  n == Len(t)
<1>1. CloseHighSpeed \in Seq(Calls)
  BY DEF CloseHighSpeed, Calls
<1>2. /\ Len(CloseHighSpeed) = 2 /\ CloseHighSpeed[1] = "StopHighSpeed"
      /\ CloseHighSpeed[2] = "FinalizeHighSpeed"
  BY DEF CloseHighSpeed
<1>3. /\ r \in Seq(Calls) /\ Len(r) = 2 + n /\ n \in Nat
      /\ \A i \in 1 .. 2 : r[i] = CloseHighSpeed[i]
      /\ \A i \in 3 .. 2 + n : r[i] = t[i - 2]
  <2> DEFINE c == CloseHighSpeed  m == Len(c)
  <2>1. /\ r \in Seq(Calls) /\ Len(r) = m + n /\ n \in Nat
        /\ \A i \in 1 .. m : r[i] = c[i]
        /\ \A i \in m + 1 .. m + n : r[i] = t[i - m]
    BY <1>1, ConcatAt
  <2>2. m = 2
    BY <1>2
  <2> HIDE DEF c, m, n, r
  <2>3. QED
    BY <2>1, <2>2 DEF c
<1>4. r[1] = "StopHighSpeed" /\ r[2] = "FinalizeHighSpeed"
  BY <1>2, <1>3
<1> HIDE DEF r, n
<1>5. OrderedAfter(r)
  <2> SUFFICES ASSUME NEW i \in 1 .. 2 + n
               PROVE  /\ r[i] \in UnderLink /\ i > 1 =>
                           r[i - 1] \in UnderLink \cup {"FinalizeHighSpeed"}
                      /\ r[i] = "StopHighSpeed" => i < 2 + n /\ r[i + 1] = "FinalizeHighSpeed"
                      /\ r[i] = "UsbInitialize" => i < 2 + n /\ r[i + 1] = "PreStart"
                      /\ r[i] = "PreStart"      => i < 2 + n /\ r[i + 1] = "Start"
    BY <1>3 DEF OrderedAfter
  <2>1. CASE i = 1
    BY <2>1, <1>3, <1>4
  <2>2. CASE i = 2
    BY <2>2, <1>4 DEF UnderLink, Closing, Finalizing, InitCalls
  <2>3. CASE i > 2
    <3>1. i - 2 \in 1 .. n /\ r[i] = t[i - 2]
      BY <2>3, <1>3
    <3>2. i - 2 > 1 => r[i - 1] = t[(i - 2) - 1]
      BY <2>3, <1>3
    <3>3. i - 2 < n => r[i + 1] = t[(i - 2) + 1] /\ i < 2 + n
      BY <2>3, <1>3
    <3>4. i - 2 = 1 => r[i - 1] = "FinalizeHighSpeed"
      BY <1>4
    <3>5. i - 2 > 1 \/ i - 2 = 1
      BY <3>1, <1>3
    <3>6. QED
      BY <3>1, <3>2, <3>3, <3>4, <3>5 DEF OrderedAfter, n
  <2>4. QED
    BY <2>1, <2>2, <2>3, <1>3
<1>6. StartsClosed(r)
  BY <1>4 DEF StartsClosed, UnderLink, Closing, Finalizing, InitCalls
<1>7. QED
  BY <1>3, <1>5, <1>6 DEF Ordered, r

(* The literal scripts. *)
LEMMA LiteralsOrdered ==
  /\ \A c \in Calls \ (UnderLink \cup {"StopHighSpeed", "UsbInitialize", "PreStart"}) :
       Ordered(<<c>>)
  /\ Ordered(<<"ClearBuffer", "ClearMemory">>)
  /\ Ordered(<<"KillTimer", "ClearBuffer", "ClearMemory">>)
  /\ Ordered(<<"UsbInitialize", "PreStart", "Start", "DoProcessDatas">>)
<1> USE DEF UnderLink, Closing, Finalizing, InitCalls
<1>1. ASSUME NEW c \in Calls \ (UnderLink \cup {"StopHighSpeed", "UsbInitialize", "PreStart"})
      PROVE  Ordered(<<c>>)
  <2> DEFINE s == <<c>>
  <2>1. s \in Seq(Calls) /\ Len(s) = 1 /\ s[1] = c
    OBVIOUS
  <2>2. \A i \in 1 .. 1 : i = 1
    OBVIOUS
  <2> HIDE DEF s
  <2>3. OrderedAfter(s)
    BY <2>1, <2>2 DEF OrderedAfter
  <2>4. QED
    BY <2>1, <2>3 DEF Ordered, StartsClosed, s
<1>2. Ordered(<<"ClearBuffer", "ClearMemory">>)
  <2> DEFINE s == <<"ClearBuffer", "ClearMemory">>
  <2>1. s \in Seq(Calls) /\ Len(s) = 2 /\ s[1] = "ClearBuffer" /\ s[2] = "ClearMemory"
    BY DEF Calls
  <2>2. \A i \in 1 .. 2 : i = 1 \/ i = 2
    OBVIOUS
  <2> HIDE DEF s
  <2>3. OrderedAfter(s)
    BY <2>1, <2>2 DEF OrderedAfter
  <2>4. QED
    BY <2>1, <2>3 DEF Ordered, StartsClosed, s
<1>3. Ordered(<<"KillTimer", "ClearBuffer", "ClearMemory">>)
  <2> DEFINE s == <<"KillTimer", "ClearBuffer", "ClearMemory">>
  <2>1. /\ s \in Seq(Calls) /\ Len(s) = 3
        /\ s[1] = "KillTimer" /\ s[2] = "ClearBuffer" /\ s[3] = "ClearMemory"
    BY DEF Calls
  <2>2. \A i \in 1 .. 3 : i = 1 \/ i = 2 \/ i = 3
    OBVIOUS
  <2> HIDE DEF s
  <2>3. OrderedAfter(s)
    BY <2>1, <2>2 DEF OrderedAfter
  <2>4. QED
    BY <2>1, <2>3 DEF Ordered, StartsClosed, s
<1>4. Ordered(<<"UsbInitialize", "PreStart", "Start", "DoProcessDatas">>)
  <2> DEFINE s == <<"UsbInitialize", "PreStart", "Start", "DoProcessDatas">>
  <2>1. /\ s \in Seq(Calls) /\ Len(s) = 4
        /\ s[1] = "UsbInitialize" /\ s[2] = "PreStart" /\ s[3] = "Start"
        /\ s[4] = "DoProcessDatas"
    BY DEF Calls
  <2>2. \A i \in 1 .. 4 : i = 1 \/ i = 2 \/ i = 3 \/ i = 4
    OBVIOUS
  <2> HIDE DEF s
  <2>3. ASSUME NEW i \in 1 .. 4
        PROVE  /\ s[i] \notin UnderLink /\ s[i] # "StopHighSpeed"
               /\ s[i] = "UsbInitialize" => i < 4 /\ s[i + 1] = "PreStart"
               /\ s[i] = "PreStart"      => i < 4 /\ s[i + 1] = "Start"
    BY <2>1, <2>2
  <2>4. OrderedAfter(s)
    BY <2>1, <2>3 DEF OrderedAfter
  <2>5. QED
    BY <2>1, <2>4 DEF Ordered, StartsClosed, s
<1>5. QED
  BY <1>1, <1>2, <1>3, <1>4

(* The calls that close the link, and the initialisation, are all of them  *)
(* under the link.                                                         *)
LEMMA UnderLinkOrdered ==
  ASSUME NEW s \in Seq(Calls), \A i \in 1 .. Len(s) : s[i] \in UnderLink \cup {"NoConnection"},
         \A i \in 1 .. Len(s) : s[i] = "NoConnection" => i = Len(s)
  PROVE  OrderedAfter(s)
<1>1. Len(s) \in Nat
  BY LenProperties
<1> SUFFICES ASSUME NEW i \in 1 .. Len(s)
             PROVE  /\ s[i] \in UnderLink /\ i > 1 =>
                         s[i - 1] \in UnderLink \cup {"FinalizeHighSpeed"}
                    /\ s[i] \notin {"StopHighSpeed", "UsbInitialize", "PreStart"}
  BY DEF OrderedAfter
<1>2. i > 1 => i - 1 \in 1 .. Len(s) /\ i - 1 # Len(s)
  BY <1>1
<1>3. QED
  BY <1>2 DEF UnderLink, Closing, Finalizing, InitCalls

LEMMA CloseSystemsOrdered == Ordered(closeSystems)
<1> DEFINE a == <<"ClearBuffer">>  c == <<"CommClose", "Finalize", "NoConnection">>
<1>1. /\ c \in Seq(Calls) /\ Len(c) = 3
      /\ c[1] = "CommClose" /\ c[2] = "Finalize" /\ c[3] = "NoConnection"
  BY DEF Calls
<1>2. \A i \in 1 .. 3 : i = 1 \/ i = 2 \/ i = 3
  OBVIOUS
<1>3. a \in Seq(Calls) /\ CloseHighSpeed \in Seq(Calls)
  BY DEF CloseHighSpeed, Calls
<1>4. Ordered(a)
  BY LiteralsOrdered DEF Calls, UnderLink, Closing, Finalizing, InitCalls
<1>5. closeSystems = a \o (CloseHighSpeed \o c)
  BY <1>1, <1>3, ConcatAssociative DEF closeSystems
<1> HIDE DEF a, c
<1>6. OrderedAfter(c)
  BY <1>1, <1>2, UnderLinkOrdered DEF UnderLink, Closing, Finalizing, InitCalls
<1>7. Ordered(CloseHighSpeed \o c)
  BY <1>1, <1>6, CloseHighSpeedOrdered
<1>8. QED
  BY <1>4, <1>5, <1>7, ConcatOrdered

LEMMA InitOrdered == Ordered(DoLaserInitUsbHighSpeedDatas)
<1> DEFINE a == <<"ClearCounters">>
           c == <<"CommCloseOrReturn", "FinalizeOrReturn", "Initialize", "UsbOpen",
                  "UsbFast", "SetTime">>
<1>1. /\ c \in Seq(Calls) /\ Len(c) = 6
      /\ c[1] = "CommCloseOrReturn" /\ c[2] = "FinalizeOrReturn" /\ c[3] = "Initialize"
      /\ c[4] = "UsbOpen" /\ c[5] = "UsbFast" /\ c[6] = "SetTime"
  BY DEF Calls
<1>2. \A i \in 1 .. 6 : i = 1 \/ i = 2 \/ i = 3 \/ i = 4 \/ i = 5 \/ i = 6
  OBVIOUS
<1>3. a \in Seq(Calls) /\ CloseHighSpeed \in Seq(Calls)
  BY DEF CloseHighSpeed, Calls
<1>4. Ordered(a)
  BY LiteralsOrdered DEF Calls, UnderLink, Closing, Finalizing, InitCalls
<1>5. DoLaserInitUsbHighSpeedDatas = a \o (CloseHighSpeed \o c)
  BY <1>1, <1>3, ConcatAssociative DEF DoLaserInitUsbHighSpeedDatas
<1> HIDE DEF a, c
<1>6. OrderedAfter(c)
  <2>1. \A i \in 1 .. Len(c) : c[i] \in UnderLink
    BY <1>1, <1>2 DEF UnderLink, Closing, Finalizing, InitCalls
  <2>2. "NoConnection" \notin UnderLink
    BY DEF UnderLink, Closing, Finalizing, InitCalls
  <2>3. QED
    BY <1>1, <2>1, <2>2, UnderLinkOrdered
<1>7. Ordered(CloseHighSpeed \o c)
  BY <1>1, <1>6, CloseHighSpeedOrdered
<1>8. QED
  BY <1>4, <1>5, <1>7, ConcatOrdered

(* Every script is ordered. *)
LEMMA ScriptsOrdered == \A h \in Handlers : Ordered(Script[h])
<1>1. /\ Ordered(<<"KillTimerEx">>) /\ Ordered(<<"SetTimerEx">>)
      /\ Ordered(<<"CheckMemoryAccess">>)
      /\ Ordered(<<"ClearBuffer", "ClearMemory">>)
      /\ Ordered(<<"KillTimer", "ClearBuffer", "ClearMemory">>)
      /\ Ordered(<<"UsbInitialize", "PreStart", "Start", "DoProcessDatas">>)
  BY LiteralsOrdered DEF Calls, UnderLink, Closing, Finalizing, InitCalls
<1>2. Ordered(CloseHighSpeed)
  <2>1. <<>> \in Seq(Calls) /\ Len(<<>>) = 0
    OBVIOUS
  <2>2. OrderedAfter(<<>>)
    BY <2>1 DEF OrderedAfter
  <2>3. CloseHighSpeed \in Seq(Calls)
    BY DEF CloseHighSpeed, Calls
  <2>4. CloseHighSpeed \o <<>> = CloseHighSpeed
    BY <2>3, ConcatEmptySeq
  <2>5. QED
    BY <2>1, <2>2, <2>4, CloseHighSpeedOrdered
<1>3. Ordered(StartCommonSystems)
  BY <1>1, CloseSystemsOrdered, InitOrdered, ConcatOrdered DEF StartCommonSystems
<1>4. Ordered(PauseCommonSystems)
  BY <1>1, <1>2, ConcatOrdered DEF PauseCommonSystems
<1>5. Ordered(StopCommonSystems)
  BY <1>1, CloseSystemsOrdered, ConcatOrdered DEF StopCommonSystems
<1>6. /\ Ordered(<<"KillTimerEx">> \o StartCommonSystems \o <<"SetTimerEx">>)
      /\ Ordered(<<"KillTimerEx">> \o StopCommonSystems)
  BY <1>1, <1>3, <1>5, ConcatOrdered
<1>7. Handlers = {"OnInitDialog", "Button1", "Button2", "Button3"}
  BY DEF Handlers, Script
<1>8. /\ Script["OnInitDialog"] = DoLaserInitUsbHighSpeedDatas
      /\ Script["Button1"] = <<"KillTimerEx">> \o StartCommonSystems \o <<"SetTimerEx">>
      /\ Script["Button2"] = PauseCommonSystems
      /\ Script["Button3"] = <<"KillTimerEx">> \o StopCommonSystems
  BY DEF Script
<1>9. QED
  BY <1>4, <1>6, <1>7, <1>8, InitOrdered

LEMMA ScriptTypes ==
  ASSUME NEW h \in Handlers
  PROVE  /\ Script[h] \in Seq(Calls) /\ Length[h] = Len(Script[h]) /\ Length[h] \in Nat
         /\ \A i \in 1 .. Length[h] : Script[h][i] \in Calls
<1>1. Script[h] \in Seq(Calls)
  BY ScriptsOrdered DEF Ordered
<1>2. Length[h] = Len(Script[h])
  BY DEF Length
<1>3. QED
  BY <1>1, <1>2, LenProperties, ElementOfSeq

-----------------------------------------------------------------------------
(* Where a script goes on *)

LEMMA LeastNatural ==
  ASSUME NEW T \in SUBSET Nat, T # {}
  PROVE  \E m \in T : \A k \in T : m <= k
<1>1. \E m \in T : \A k \in T : ~(<<k, m>> \in OpToRel(<, Nat))
  BY NatLessThanWellFounded, WFMin
<1>2. PICK m \in T : \A k \in T : ~(<<k, m>> \in OpToRel(<, Nat))
  BY <1>1
<1>3. \A k \in T : ~(k < m)
  BY <1>2, Zenon DEF OpToRel
<1>4. QED
  BY <1>3

(* The rest of the initialisation ends before a statement that is not one  *)
(* of its calls, or at the end of the handler.                             *)
LEMMA LeaveInitType ==
  ASSUME TypeOK, ~Idle, LeaveInit
  PROVE  /\ pc' \in pc + 1 .. Length[handler] + 1
         /\ pc' <= Length[handler] => Script[handler][pc'] \notin InitCalls
         /\ \A i \in pc + 1 .. pc' - 1 : Script[handler][i] \in InitCalls
<1> DEFINE n == Length[handler]
           Ends(p) == p <= n => Script[handler][p] \notin InitCalls
           places == {p \in pc + 1 .. n + 1 : Ends(p)}
           Right(p) == /\ \A i \in pc + 1 .. p - 1 : Script[handler][i] \in InitCalls
                       /\ p <= n => Script[handler][p] \notin InitCalls
<1>1. n \in Nat /\ pc \in 1 .. n
  BY ScriptTypes DEF TypeOK, Idle
<1> HIDE DEF n
<1>2. n + 1 \in places /\ places \in SUBSET Nat
  BY <1>1
<1>3. PICK p \in places : \A q \in places : p <= q
  BY <1>2, LeastNatural
<1>4. ASSUME NEW i \in pc + 1 .. p - 1
      PROVE  Script[handler][i] \in InitCalls
  <2>1. i \in pc + 1 .. n + 1 /\ ~(p <= i)
    BY <1>1
  <2>2. i \notin places
    BY <1>3, <2>1
  <2>3. QED
    BY <2>1, <2>2
<1>5. \E q \in pc + 1 .. n + 1 : Right(q)
  BY <1>3, <1>4
<1>6. pc' = CHOOSE q \in pc + 1 .. n + 1 : Right(q)
  BY DEF LeaveInit, Goto, n
<1> HIDE DEF Right
<1>7. pc' \in pc + 1 .. n + 1 /\ Right(pc')
  BY <1>5, <1>6
<1>8. QED
  BY <1>7 DEF n, Right

(* Where a statement leads to. *)
Onward ==
  /\ pc' \in pc + 1 .. Length[handler] + 1
  /\ handler' = handler /\ running' = running /\ validID' = validID /\ clicks' = clicks

LEMMA Steps ==
  ASSUME TypeOK, ~Idle
  PROVE  /\ Proceed => Onward /\ pc' = pc + 1
         /\ Return => Onward /\ pc' = Length[handler] + 1
         /\ LeaveInit => Onward /\ (pc' <= Length[handler] => Script[handler][pc'] \notin InitCalls)
         /\ Failed => Onward
<1>1. Length[handler] \in Nat /\ pc \in 1 .. Length[handler]
  BY ScriptTypes DEF TypeOK, Idle
<1>2. Proceed => Onward /\ pc' = pc + 1
  BY <1>1 DEF Proceed, Goto, Onward
<1>3. Return => Onward /\ pc' = Length[handler] + 1
  BY <1>1 DEF Return, Goto, Onward
<1>4. LeaveInit => Onward /\ (pc' <= Length[handler] => Script[handler][pc'] \notin InitCalls)
  <2>1. LeaveInit => handler' = handler /\ running' = running /\ validID' = validID /\ clicks' = clicks
    BY DEF LeaveInit, Goto
  <2>2. QED
    BY <2>1, LeaveInitType DEF Onward
<1>5. Failed => Onward
  BY <1>2, <1>4 DEF Failed
<1>6. QED
  BY <1>2, <1>3, <1>4, <1>5

-----------------------------------------------------------------------------
(* Types *)

LEMMA TypeInit == ASSUME Init PROVE TypeOK
<1>1. "OnInitDialog" \in Handlers
  BY DEF Handlers, Script
<1>2. Length["OnInitDialog"] \in Nat
  BY <1>1, ScriptTypes
<1>3. 1 \in 1 .. Length["OnInitDialog"] + 1
  BY <1>2
<1>4. handler \in Handlers /\ pc \in 1 .. Length[handler] + 1
  BY <1>1, <1>3 DEF Init
<1>5. clicks \in 0 .. MaxClicks /\ consumers \in Nat
  BY SessionAssumption DEF Init
<1>6. QED
  BY <1>4, <1>5 DEF Init, TypeOK

(* What moves on keeps the types of the dialog. *)
LEMMA OnwardTypes ==
  ASSUME TypeOK, ~Idle, Onward
  PROVE  /\ running' \in BOOLEAN /\ validID' \in BOOLEAN
         /\ handler' \in Handlers /\ pc' \in 1 .. Length[handler'] + 1
         /\ clicks' \in 0 .. MaxClicks
<1>1. Length[handler] \in Nat /\ pc \in 1 .. Length[handler]
  BY ScriptTypes DEF TypeOK, Idle
<1>2. QED
  BY <1>1 DEF TypeOK, Onward

LEMMA TypeStep == ASSUME TypeOK, [Next]_vars PROVE TypeOK'
<1> USE DEF TypeOK
<1>1. ASSUME NEW h \in Buttons, Click(h) PROVE TypeOK'
  <2>1. h \in Handlers /\ Length[h] \in Nat
    BY ScriptTypes DEF Buttons
  <2>2. 1 \in 1 .. Length[h] + 1 /\ clicks + 1 \in 0 .. MaxClicks
    BY <1>1, <2>1, SessionAssumption DEF Click
  <2>3. QED
    BY <1>1, <2>1, <2>2 DEF Click, deviceVars, linkVars
<1>2. CASE Succeed
  <2>1. ~Idle /\ Onward
    BY <1>2, Steps DEF Succeed
  <2>2. /\ library' \in BOOLEAN /\ path' \in BOOLEAN /\ m_aProfileInfo' \in BOOLEAN
        /\ consumers' \in Nat /\ m_deviceStatus' \in {"unset", "NoConnection", "UsbFast"}
        /\ highSpeed' \in {"closed", "ready", "armed", "streaming"}
    BY <1>2 DEF Succeed, Opened, Opening
  <2>3. QED
    BY <1>2, <2>1, <2>2, OnwardTypes DEF Succeed
<1>3. CASE Fail
  <2>1. ~Idle /\ Onward
    BY <1>3, Steps DEF Fail
  <2>2. /\ m_aProfileInfo' \in BOOLEAN /\ spoilt' \in BOOLEAN
        /\ highSpeed' \in {"closed", "ready", "armed", "streaming"}
    <3>1. Closed \/ UNCHANGED <<highSpeed, m_aProfileInfo>>
      BY <1>3 DEF Fail
    <3>2. spoilt' = (spoilt \/ (Possible(Call) /\ Call # "SetTime"))
      BY <1>3 DEF Fail
    <3>3. spoilt' \in BOOLEAN
      BY <3>2, Zenon
    <3>4. QED
      BY <3>1, <3>3 DEF Closed
  <2>3. QED
    BY <1>3, <2>1, <2>2, OnwardTypes DEF Fail
<1>4. CASE StopHighSpeed
  <2>1. ~Idle /\ Onward
    BY <1>4, Steps DEF StopHighSpeed
  <2>2. QED
    BY <1>4, <2>1, OnwardTypes DEF StopHighSpeed, deviceVars
<1>5. CASE FinalizeHighSpeed
  <2>1. ~Idle /\ Onward
    BY <1>5, Steps DEF FinalizeHighSpeed
  <2>2. QED
    BY <1>5, <2>1, OnwardTypes DEF FinalizeHighSpeed, Closed
<1>6. CASE CloseLink
  <2>1. ~Idle /\ Onward
    BY <1>6, Steps DEF CloseLink
  <2>2. library' \in BOOLEAN /\ spoilt' \in BOOLEAN
    BY <1>6 DEF CloseLink
  <2>3. QED
    BY <1>6, <2>1, <2>2, OnwardTypes DEF CloseLink, deviceVars
<1>7. CASE SetStatus
  <2>1. ~Idle /\ Onward
    BY <1>7, Steps DEF SetStatus
  <2>2. QED
    BY <1>7, <2>1, OnwardTypes DEF SetStatus, Status, linkVars
<1>8. CASE Clear
  <2>1. ~Idle /\ Onward
    BY <1>8, Steps DEF Clear
  <2>2. QED
    BY <1>8, <2>1, OnwardTypes DEF Clear, linkVars, deviceVars
<1>9. CASE SetTimers
  <2>1. ~Idle /\ Onward
    BY <1>9, Steps DEF SetTimers
  <2>2. timers' \subseteq {Dialog_TIMER_EX_ID, TIMER_ID}
    BY <1>9 DEF SetTimers
  <2>3. QED
    BY <1>9, <2>1, <2>2, OnwardTypes DEF SetTimers, linkVars, deviceVars
<1>10. CASE CheckMemoryAccess
  <2>1. ~Idle /\ Onward
    BY <1>10, Steps DEF CheckMemoryAccess
  <2>2. timers' \subseteq {Dialog_TIMER_EX_ID, TIMER_ID}
    BY <1>10 DEF CheckMemoryAccess
  <2>3. QED
    BY <1>10, <2>1, <2>2, OnwardTypes DEF CheckMemoryAccess, linkVars, deviceVars
<1>11. CASE DoProcessDatas
  <2>1. CASE consumers' = consumers + 1 /\ Proceed
    <3>1. ~Idle /\ Onward
      BY <1>11, <2>1, Steps DEF DoProcessDatas
    <3>2. QED
      BY <1>11, <2>1, <3>1, OnwardTypes DEF DoProcessDatas, linkVars
  <2>2. CASE running' = FALSE /\ UNCHANGED <<handler, pc, validID, clicks, consumers>>
    BY <1>11, <2>2 DEF DoProcessDatas, linkVars
  <2>3. QED
    BY <1>11, <2>1, <2>2 DEF DoProcessDatas
<1>12. CASE Fault
  BY <1>12 DEF Fault, linkVars, deviceVars
<1>13. CASE Controller
  BY <1>13 DEF Controller, linkVars, deviceVars, dialogVars
<1>14. CASE Close
  BY <1>14 DEF Close, linkVars, deviceVars
<1>15. CASE UNCHANGED vars
  BY <1>15 DEF vars, linkVars, deviceVars, dialogVars
<1>16. ASSUME NEW id \in timers, OnTimer(id) PROVE UNCHANGED vars
  BY <1>16 DEF OnTimer, KeepGettingData
<1>17. QED
  BY <1>1, <1>2, <1>3, <1>4, <1>5, <1>6, <1>7, <1>8, <1>9, <1>10, <1>11, <1>12, <1>13,
     <1>14, <1>15, <1>16 DEF Next, Statement

(* Every variable keeps its type, whatever the calls on the controller     *)
(* return and whichever way a handler ends (CaptureLaser.cpp,              *)
(* MFCApplication1Dlg.cpp).                                                *)
THEOREM Typing == Spec => []TypeOK
BY TypeInit, TypeStep, PTL DEF Spec

-----------------------------------------------------------------------------
(* The scripts, statement by statement *)

LEMMA Lengths ==
  /\ Handlers = {"OnInitDialog", "Button1", "Button2", "Button3"}
  /\ Length["OnInitDialog"] = 9 /\ Length["Button1"] = 23
  /\ Length["Button2"] = 5 /\ Length["Button3"] = 10
<1>1. /\ Len(Script["OnInitDialog"]) = 9 /\ Len(Script["Button1"]) = 23
      /\ Len(Script["Button2"]) = 5 /\ Len(Script["Button3"]) = 10
  BY DEF Script, StartCommonSystems, PauseCommonSystems, StopCommonSystems, closeSystems, CloseHighSpeed,
         DoLaserInitUsbHighSpeedDatas
<1>2. Handlers = {"OnInitDialog", "Button1", "Button2", "Button3"}
  BY DEF Handlers, Script
<1>3. QED
  BY <1>1, <1>2 DEF Length

At(h, p, c) == handler = h /\ pc = p => Call = c

LEMMA Places ==
  /\ At("OnInitDialog", 1, "ClearCounters") /\ At("OnInitDialog", 2, "StopHighSpeed")
  /\ At("OnInitDialog", 3, "FinalizeHighSpeed")
  /\ At("OnInitDialog", 4, "CommCloseOrReturn") /\ At("OnInitDialog", 5, "FinalizeOrReturn")
  /\ At("OnInitDialog", 6, "Initialize") /\ At("OnInitDialog", 7, "UsbOpen")
  /\ At("OnInitDialog", 8, "UsbFast") /\ At("OnInitDialog", 9, "SetTime")
  /\ At("Button1", 1, "KillTimerEx") /\ At("Button1", 2, "ClearBuffer")
  /\ At("Button1", 3, "ClearMemory") /\ At("Button1", 4, "ClearBuffer")
  /\ At("Button1", 5, "StopHighSpeed") /\ At("Button1", 6, "FinalizeHighSpeed")
  /\ At("Button1", 7, "CommClose") /\ At("Button1", 8, "Finalize")
  /\ At("Button1", 9, "NoConnection") /\ At("Button1", 10, "ClearCounters")
  /\ At("Button1", 11, "StopHighSpeed") /\ At("Button1", 12, "FinalizeHighSpeed")
  /\ At("Button1", 13, "CommCloseOrReturn") /\ At("Button1", 14, "FinalizeOrReturn")
  /\ At("Button1", 15, "Initialize") /\ At("Button1", 16, "UsbOpen")
  /\ At("Button1", 17, "UsbFast") /\ At("Button1", 18, "SetTime")
  /\ At("Button1", 19, "UsbInitialize") /\ At("Button1", 20, "PreStart")
  /\ At("Button1", 21, "Start") /\ At("Button1", 22, "DoProcessDatas")
  /\ At("Button1", 23, "SetTimerEx")
  /\ At("Button2", 1, "CheckMemoryAccess") /\ At("Button2", 2, "StopHighSpeed")
  /\ At("Button2", 3, "FinalizeHighSpeed") /\ At("Button2", 4, "ClearBuffer")
  /\ At("Button2", 5, "ClearMemory")
  /\ At("Button3", 1, "KillTimerEx") /\ At("Button3", 2, "KillTimer")
  /\ At("Button3", 3, "ClearBuffer") /\ At("Button3", 4, "ClearMemory")
  /\ At("Button3", 5, "ClearBuffer") /\ At("Button3", 6, "StopHighSpeed")
  /\ At("Button3", 7, "FinalizeHighSpeed") /\ At("Button3", 8, "CommClose")
  /\ At("Button3", 9, "Finalize") /\ At("Button3", 10, "NoConnection")
BY DEF At, Call, Script, StartCommonSystems, PauseCommonSystems, StopCommonSystems, closeSystems,
       CloseHighSpeed, DoLaserInitUsbHighSpeedDatas

(* The first place after p that is not a call of the initialisation is one. *)
LEMMA FirstOther ==
  ASSUME NEW s, NEW n \in Nat, NEW p \in 1 .. n, NEW e \in p + 1 .. n + 1,
         NEW q \in p + 1 .. n + 1,
         \A i \in p + 1 .. e - 1 : s[i] \in InitCalls, e <= n => s[e] \notin InitCalls,
         \A i \in p + 1 .. q - 1 : s[i] \in InitCalls, q <= n => s[q] \notin InitCalls
  PROVE  q = e
<1>1. ~(q < e)
  OBVIOUS
<1>2. ~(e < q)
  OBVIOUS
<1>3. QED
  BY <1>1, <1>2

(* The rest of the initialisation ends in one place of a script. *)
LEMMA InitEnds ==
  ASSUME TypeOK, ~Idle, Call \in InitCalls, LeaveInit
  PROVE  /\ handler = "OnInitDialog" => pc' = 10
         /\ handler = "Button1" => pc' = 19
         /\ handler \notin {"Button2", "Button3"}
<1> DEFINE s == Script[handler]  n == Length[handler]
<1>1. /\ pc \in 1 .. n /\ n \in Nat /\ pc' \in pc + 1 .. n + 1
      /\ pc' <= n => s[pc'] \notin InitCalls
      /\ \A i \in pc + 1 .. pc' - 1 : s[i] \in InitCalls
      /\ s[pc] \in InitCalls
  BY LeaveInitType, ScriptTypes DEF TypeOK, Idle, Call
<1>2. CASE handler = "Button1"
  <2>1. /\ s[1] = "KillTimerEx" /\ s[2] = "ClearBuffer" /\ s[3] = "ClearMemory"
        /\ s[4] = "ClearBuffer" /\ s[5] = "StopHighSpeed" /\ s[6] = "FinalizeHighSpeed"
        /\ s[7] = "CommClose" /\ s[8] = "Finalize" /\ s[9] = "NoConnection"
        /\ s[10] = "ClearCounters" /\ s[11] = "StopHighSpeed"
        /\ s[12] = "FinalizeHighSpeed"
        /\ s[14] = "FinalizeOrReturn" /\ s[15] = "Initialize" /\ s[16] = "UsbOpen"
        /\ s[17] = "UsbFast" /\ s[18] = "SetTime" /\ s[19] = "UsbInitialize"
        /\ s[20] = "PreStart" /\ s[21] = "Start" /\ s[22] = "DoProcessDatas"
        /\ s[23] = "SetTimerEx"
    BY <1>2 DEF Script, StartCommonSystems, closeSystems, CloseHighSpeed,
                DoLaserInitUsbHighSpeedDatas
  <2>2. n = 23
    BY <1>2, Lengths
  <2> HIDE DEF s, n
  <2>3. pc \in 13 .. 18
    BY <1>1, <2>1, <2>2 DEF InitCalls
  <2>4. 19 \in pc + 1 .. n + 1 /\ s[19] \notin InitCalls
    BY <2>1, <2>2, <2>3 DEF InitCalls
  <2>5. \A i \in pc + 1 .. 19 - 1 : s[i] \in InitCalls
    <3>1. \A i \in pc + 1 .. 19 - 1 : i = 14 \/ i = 15 \/ i = 16 \/ i = 17 \/ i = 18
      BY <2>3
    <3>2. QED
      BY <2>1, <3>1 DEF InitCalls
  <2>6. pc' = 19
    BY <1>1, <2>4, <2>5, FirstOther
  <2>7. QED
    BY <1>2, <2>6
<1>3. CASE handler = "OnInitDialog"
  <2>1. /\ s[1] = "ClearCounters" /\ s[2] = "StopHighSpeed" /\ s[3] = "FinalizeHighSpeed"
        /\ s[5] = "FinalizeOrReturn" /\ s[6] = "Initialize" /\ s[7] = "UsbOpen"
        /\ s[8] = "UsbFast" /\ s[9] = "SetTime"
    BY <1>3 DEF Script, DoLaserInitUsbHighSpeedDatas, CloseHighSpeed
  <2>2. n = 9
    BY <1>3, Lengths
  <2> HIDE DEF s, n
  <2>3. pc \in 4 .. 9
    BY <1>1, <2>1, <2>2 DEF InitCalls
  <2>4. 10 \in pc + 1 .. n + 1 /\ ~(10 <= n)
    BY <2>2, <2>3
  <2>5. \A i \in pc + 1 .. 10 - 1 : s[i] \in InitCalls
    <3>1. \A i \in pc + 1 .. 10 - 1 : i = 5 \/ i = 6 \/ i = 7 \/ i = 8 \/ i = 9
      BY <2>3
    <3>2. QED
      BY <2>1, <3>1 DEF InitCalls
  <2>6. pc' = 10
    BY <1>1, <2>4, <2>5, FirstOther
  <2>7. QED
    BY <1>3, <2>6
<1>4. ASSUME handler \in {"Button2", "Button3"} PROVE FALSE
  <2>1. /\ pc \in Nat /\ pc > 0
        /\ handler = "Button2" => pc <= 5
        /\ handler = "Button3" => pc <= 10
    BY <1>1, <1>4, Lengths
  <2>2. QED
    BY <1>4, <2>1, Places DEF At, InitCalls
<1>5. QED
  BY <1>2, <1>3, <1>4

-----------------------------------------------------------------------------
(* The order in which the session is opened and closed *)

(* How far the communication has got tells which statement comes next, and *)
(* the calls under the link are made with the communication closed.        *)
StageInv ==
  /\ highSpeed = "ready" => ~Idle /\ Call \in {"FinalizeHighSpeed", "PreStart"}
  /\ highSpeed = "armed" => ~Idle /\ Call = "Start" /\ m_aProfileInfo
  /\ highSpeed = "streaming" => m_aProfileInfo
  /\ ~Idle /\ Call \in UnderLink => highSpeed = "closed"

SessionInv == TypeOK /\ OpenFromBelow /\ StageInv

(* What comes after a statement. *)
LEMMA NextCall ==
  ASSUME TypeOK, ~Idle, handler' = handler, pc' = pc + 1
  PROVE  /\ ~Idle' /\ Call' \in UnderLink => Call \in UnderLink \cup {"FinalizeHighSpeed"}
         /\ Call = "StopHighSpeed" => ~Idle' /\ Call' = "FinalizeHighSpeed"
         /\ Call = "UsbInitialize" => ~Idle' /\ Call' = "PreStart"
         /\ Call = "PreStart"      => ~Idle' /\ Call' = "Start"
<1> DEFINE s == Script[handler]  n == Length[handler]
<1>1. Ordered(s) /\ n = Len(s) /\ n \in Nat
  BY ScriptsOrdered, ScriptTypes DEF TypeOK
<1>2. pc \in 1 .. n /\ Call = s[pc]
  BY <1>1 DEF TypeOK, Idle, Call
<1>3. Idle' <=> pc + 1 > n
  BY DEF Idle
<1>4. Call' = s[pc + 1]
  BY DEF Call
<1> HIDE DEF s, n
<1>5. OrderedAfter(s)
  BY <1>1 DEF Ordered
<1>6. /\ s[pc] = "StopHighSpeed" => pc < n /\ s[pc + 1] = "FinalizeHighSpeed"
      /\ s[pc] = "UsbInitialize" => pc < n /\ s[pc + 1] = "PreStart"
      /\ s[pc] = "PreStart"      => pc < n /\ s[pc + 1] = "Start"
  BY <1>1, <1>2, <1>5 DEF OrderedAfter
<1>7. pc < n /\ s[pc + 1] \in UnderLink => s[pc] \in UnderLink \cup {"FinalizeHighSpeed"}
  <2>1. pc < n => pc + 1 \in 1 .. n /\ pc + 1 > 1 /\ (pc + 1) - 1 = pc
    BY <1>1, <1>2
  <2>2. QED
    BY <1>1, <2>1, <1>5 DEF OrderedAfter
<1>8. pc < n <=> ~Idle'
  BY <1>1, <1>2, <1>3
<1>9. QED
  BY <1>2, <1>4, <1>6, <1>7, <1>8

(* A statement that leaves the communication alone keeps the stage, if it  *)
(* is not one of its steps.                                                *)
LEMMA StageKept ==
  ASSUME SessionInv, ~Idle, Onward, pc' = pc + 1, UNCHANGED <<highSpeed, m_aProfileInfo>>,
         Call \notin {"FinalizeHighSpeed", "PreStart", "Start"}
  PROVE  StageInv'
<1>1. ~Idle' /\ Call' \in UnderLink => Call \in UnderLink \cup {"FinalizeHighSpeed"}
  BY NextCall DEF SessionInv, Onward
<1>2. QED
  BY <1>1 DEF SessionInv, StageInv

(* With the communication closed there is nothing to keep. *)
LEMMA StageClosed ==
  ASSUME highSpeed' = "closed"
  PROVE  StageInv'
BY DEF StageInv

LEMMA SessionInit == ASSUME Init PROVE SessionInv
BY TypeInit DEF Init, SessionInv, OpenFromBelow, StageInv

LEMMA SessionStep == ASSUME SessionInv, [Next]_vars PROVE SessionInv'
<1>1. TypeOK'
  BY TypeStep DEF SessionInv
<1>2. TypeOK
  BY DEF SessionInv
<1>3. (OpenFromBelow /\ StageInv)'
  <2>1. ASSUME NEW h \in Buttons, Click(h) PROVE (OpenFromBelow /\ StageInv)'
    <3>1. UNCHANGED <<linkVars, deviceVars>> /\ handler' = h /\ pc' = 1 /\ Idle
      BY <2>1 DEF Click
    <3>2. highSpeed \in {"closed", "streaming"}
      BY <3>1 DEF SessionInv, StageInv, TypeOK
    <3>3. ~Idle' => Call' \notin UnderLink
      <4>1. h \in Handlers /\ Length[h] = Len(Script[h]) /\ Length[h] \in Nat
        BY ScriptTypes DEF Buttons
      <4>2. StartsClosed(Script[h])
        BY <4>1, ScriptsOrdered DEF Ordered
      <4>3. ~Idle' => Length[h] > 0
        BY <3>1, <4>1 DEF Idle
      <4>4. Call' = Script[h][1]
        BY <3>1 DEF Call
      <4>5. QED
        BY <4>1, <4>2, <4>3, <4>4 DEF StartsClosed
    <3>4. QED
      BY <3>1, <3>2, <3>3 DEF SessionInv, StageInv, OpenFromBelow, linkVars, deviceVars
  <2>2. CASE Succeed
    <3>1. ~Idle /\ Onward /\ pc' = pc + 1 /\ Opened(Call) /\ Possible(Call)
      BY <1>2, <2>2, Steps DEF Succeed
    <3>2. Call \in Opening
      BY <2>2 DEF Succeed
    <3>3. CASE Call \in {"Initialize", "UsbOpen", "SetTime"}
      <4>1. highSpeed = "closed" /\ highSpeed' = "closed"
        BY <3>1, <3>3 DEF Opened, SessionInv, StageInv, UnderLink, InitCalls
      <4>2. OpenFromBelow'
        BY <3>1, <3>3, <4>1 DEF Opened, Possible, SessionInv, OpenFromBelow
      <4>3. QED
        BY <4>1, <4>2, StageClosed
    <3>4. CASE Call = "UsbInitialize"
      <4>1. highSpeed' = "ready" /\ path' = path /\ library' = library /\ path
        BY <1>2, <3>1, <3>4 DEF Opened, Possible, TypeOK
      <4>2. ~Idle' /\ Call' = "PreStart"
        BY <1>2, <3>1, <3>4, NextCall DEF Onward
      <4>3. OpenFromBelow'
        BY <4>1 DEF SessionInv, OpenFromBelow
      <4>4. QED
        BY <4>1, <4>2, <4>3 DEF StageInv, UnderLink, Closing, Finalizing, InitCalls
    <3>5. CASE Call = "PreStart"
      <4>1. highSpeed = "ready" /\ highSpeed' = "armed" /\ path' = path /\ library' = library
            /\ m_aProfileInfo'
        BY <1>2, <3>1, <3>5 DEF Opened, Possible, TypeOK
      <4>2. ~Idle' /\ Call' = "Start"
        BY <1>2, <3>1, <3>5, NextCall DEF Onward
      <4>3. OpenFromBelow'
        BY <4>1 DEF SessionInv, OpenFromBelow
      <4>4. QED
        BY <4>1, <4>2, <4>3 DEF StageInv, UnderLink, Closing, Finalizing, InitCalls
    <3>6. CASE Call = "Start"
      <4>1. highSpeed = "armed" /\ highSpeed' = "streaming" /\ path' = path /\ library' = library
        BY <1>2, <3>1, <3>6 DEF Opened, Possible, TypeOK
      <4>2. m_aProfileInfo /\ m_aProfileInfo'
        BY <3>1, <3>6, <4>1 DEF Opened, SessionInv, StageInv
      <4>3. ~Idle' => Call' \notin UnderLink
        BY <1>2, <3>1, <3>6, NextCall DEF Onward, UnderLink, Closing, Finalizing, InitCalls
      <4>4. OpenFromBelow'
        BY <4>1 DEF SessionInv, OpenFromBelow
      <4>5. QED
        BY <4>1, <4>2, <4>3, <4>4 DEF StageInv
    <3>7. QED
      BY <3>2, <3>3, <3>4, <3>5, <3>6 DEF Opening
  <2>3. CASE Fail
    <3>1. UNCHANGED <<library, path>> /\ Call \in Opening /\ ~Idle
      BY <2>3 DEF Fail
    <3>2. CASE Undoes(Call)
      <4>1. highSpeed' = "closed"
        BY <2>3, <3>2 DEF Fail, Closed
      <4>2. QED
        BY <3>1, <4>1, StageClosed DEF SessionInv, OpenFromBelow
    <3>3. CASE ~Undoes(Call)
      <4>1. highSpeed' = highSpeed /\ Call \in UnderLink
        BY <2>3, <3>1, <3>3 DEF Fail, Undoes, Opening, UnderLink, InitCalls
      <4>2. highSpeed' = "closed"
        BY <3>1, <4>1 DEF SessionInv, StageInv
      <4>3. QED
        BY <3>1, <4>2, StageClosed DEF SessionInv, OpenFromBelow
    <3>4. QED
      BY <3>2, <3>3
  <2>4. CASE StopHighSpeed
    <3>1. /\ ~Idle /\ Onward /\ pc' = pc + 1 /\ Call = "StopHighSpeed"
          /\ UNCHANGED <<library, path, m_aProfileInfo>>
      BY <1>2, <2>4, Steps DEF StopHighSpeed, deviceVars
    <3>2. ~Idle' /\ Call' = "FinalizeHighSpeed"
      BY <1>2, <3>1, NextCall DEF Onward
    <3>3. CASE UNCHANGED highSpeed
      BY <3>1, <3>3, StageKept DEF SessionInv, OpenFromBelow
    <3>4. CASE highSpeed = "streaming" /\ highSpeed' = "ready"
      BY <3>1, <3>2, <3>4
         DEF SessionInv, OpenFromBelow, StageInv, UnderLink, Closing, Finalizing, InitCalls
    <3>5. QED
      BY <2>4, <3>3, <3>4 DEF StopHighSpeed
  <2>5. CASE FinalizeHighSpeed
    BY <2>5, StageClosed DEF FinalizeHighSpeed, Closed, SessionInv, OpenFromBelow
  <2>6. CASE CloseLink
    <3>1. highSpeed' = highSpeed /\ ~Idle /\ Call \in UnderLink /\ ~path'
      BY <2>6 DEF CloseLink, UnderLink
    <3>2. highSpeed' = "closed"
      BY <3>1 DEF SessionInv, StageInv
    <3>3. QED
      BY <3>1, <3>2, StageClosed DEF OpenFromBelow
  <2>7. CASE SetStatus
    <3>1. /\ ~Idle /\ Onward /\ pc' = pc + 1 /\ UNCHANGED <<linkVars, m_aProfileInfo>>
          /\ Call \in {"UsbFast", "NoConnection"}
      BY <1>2, <2>7, Steps DEF SetStatus
    <3>2. QED
      BY <3>1, StageKept DEF SessionInv, OpenFromBelow, linkVars
  <2>8. CASE Clear
    <3>1. /\ ~Idle /\ Onward /\ pc' = pc + 1 /\ UNCHANGED <<linkVars, m_aProfileInfo>>
          /\ Call \in {"ClearBuffer", "ClearMemory", "ClearCounters"}
      BY <1>2, <2>8, Steps DEF Clear, deviceVars
    <3>2. QED
      BY <3>1, StageKept DEF SessionInv, OpenFromBelow, linkVars
  <2>9. CASE SetTimers
    <3>1. /\ ~Idle /\ Onward /\ pc' = pc + 1 /\ UNCHANGED <<linkVars, m_aProfileInfo>>
          /\ Call \in {"KillTimerEx", "SetTimerEx", "KillTimer"}
      BY <1>2, <2>9, Steps DEF SetTimers, deviceVars
    <3>2. QED
      BY <3>1, StageKept DEF SessionInv, OpenFromBelow, linkVars
  <2>10. CASE CheckMemoryAccess
    <3>1. /\ ~Idle /\ UNCHANGED <<linkVars, m_aProfileInfo>> /\ Call = "CheckMemoryAccess"
      BY <2>10 DEF CheckMemoryAccess, deviceVars
    <3>2. CASE Return
      <4>1. Onward /\ pc' = Length[handler] + 1
        BY <1>2, <3>1, <3>2, Steps
      <4>2. Length[handler] \in Nat
        BY <1>2, ScriptTypes DEF TypeOK
      <4>3. Idle'
        BY <4>1, <4>2 DEF Idle, Onward
      <4>4. highSpeed \in {"closed", "streaming"}
        BY <3>1 DEF SessionInv, StageInv, TypeOK
      <4>5. QED
        BY <3>1, <4>3, <4>4 DEF SessionInv, StageInv, OpenFromBelow, linkVars
    <3>3. CASE Proceed
      <4>1. Onward /\ pc' = pc + 1
        BY <1>2, <3>1, <3>3, Steps
      <4>2. QED
        BY <3>1, <4>1, StageKept DEF SessionInv, OpenFromBelow, linkVars
    <3>4. QED
      BY <2>10, <3>2, <3>3 DEF CheckMemoryAccess
  <2>11. CASE DoProcessDatas
    <3>1. ~Idle /\ UNCHANGED <<linkVars, m_aProfileInfo>> /\ Call = "DoProcessDatas"
      BY <2>11 DEF DoProcessDatas
    <3>2. CASE Proceed
      <4>1. Onward /\ pc' = pc + 1
        BY <1>2, <3>1, <3>2, Steps
      <4>2. QED
        BY <3>1, <4>1, StageKept DEF SessionInv, OpenFromBelow, linkVars
    <3>3. CASE UNCHANGED <<handler, pc>>
      BY <3>1, <3>3 DEF SessionInv, OpenFromBelow, StageInv, linkVars, Idle, Call
    <3>4. QED
      BY <2>11, <3>2, <3>3 DEF DoProcessDatas
  <2>12. ASSUME UNCHANGED <<handler, pc, highSpeed, path, library, m_aProfileInfo>>
         PROVE  (OpenFromBelow /\ StageInv)'
    BY <2>12 DEF SessionInv, OpenFromBelow, StageInv, Idle, Call
  <2>13. CASE Fault
    BY <2>12, <2>13 DEF Fault, linkVars, deviceVars
  <2>14. CASE Controller
    BY <2>12, <2>14 DEF Controller, linkVars, deviceVars, dialogVars
  <2>15. CASE Close
    BY <2>12, <2>15 DEF Close, linkVars, deviceVars
  <2>16. CASE UNCHANGED vars
    BY <2>12, <2>16 DEF vars, linkVars, deviceVars, dialogVars
  <2>17. ASSUME NEW id \in timers, OnTimer(id) PROVE UNCHANGED vars
    BY <2>17 DEF OnTimer, KeepGettingData
  <2>18. QED
    BY <2>1, <2>2, <2>3, <2>4, <2>5, <2>6, <2>7, <2>8, <2>9, <2>10, <2>11, <2>13, <2>14,
       <2>15, <2>16, <2>17 DEF Next, Statement
<1>4. QED
  BY <1>1, <1>3 DEF SessionInv

(* Nothing is closed under what is still open: the high-speed              *)
(* communication has its path and the path its library, in every handler   *)
(* and however its calls end (CaptureLaser.cpp, closeSystems and           *)
(* DoLaserInitUsbHighSpeedDatas).                                          *)
THEOREM OpenedFromBelow == Spec => []OpenFromBelow
<1>1. SessionInv => OpenFromBelow
  BY DEF SessionInv
<1>2. QED
  BY <1>1, SessionInit, SessionStep, PTL DEF Spec

(* A handler ends with the communication closed, or streaming with the     *)
(* profile information of this communication: no failing call leaves it    *)
(* prepared and not started (CaptureLaser.cpp, StartCommonSystems and the  *)
(* functions it calls).                                                    *)
THEOREM NothingHalfDone == Spec => []AllOrNothing
<1>1. SessionInv => AllOrNothing
  BY DEF SessionInv, StageInv, AllOrNothing, TypeOK
<1>2. QED
  BY <1>1, SessionInit, SessionStep, PTL DEF Spec

-----------------------------------------------------------------------------
(* What a handler has done by each of its statements *)

(* Stop kills the timers and closes one thing after the other. *)
StopInv ==
  handler = "Button3" =>
    /\ pc > 1 => Dialog_TIMER_EX_ID \notin timers
    /\ pc > 2 => TIMER_ID \notin timers
    /\ pc > 7 => highSpeed = "closed"
    /\ pc > 8 => ~path
    /\ pc > 9 => ~library

StatusAgrees == m_deviceStatus = "UsbFast" <=> path

(* The status lags behind the path from CommClose to NoConnection, and     *)
(* from the opening of the path to UsbFast; between the two there is none. *)
StatusInv ==
  /\ handler = "OnInitDialog" /\ pc # 8 => StatusAgrees
  /\ handler = "Button1" /\ pc \notin {8, 9, 17} => StatusAgrees
  /\ handler = "Button2" => StatusAgrees
  /\ handler = "Button3" /\ pc \notin {9, 10} => StatusAgrees
  /\ handler = "OnInitDialog" => (pc <= 7 => ~path) /\ (pc = 8 => path)
  /\ handler = "Button1" => (pc \in 8 .. 16 => ~path) /\ (pc = 17 => path)
  /\ handler = "Button3" => (pc > 8 => ~path)

(* Start, where no call has failed that could have succeeded, opens one    *)
(* thing after the other.                                                  *)
StartInv ==
  handler = "Button1" =>
    /\ pc \in 13 .. 19 => highSpeed = "closed"
    /\ ~spoilt =>
         /\ pc > 15 => library
         /\ pc > 16 => path
         /\ pc = 20 => highSpeed = "ready"
         /\ pc = 21 => highSpeed = "armed"
         /\ pc > 21 => highSpeed = "streaming"
         /\ pc > 23 => Dialog_TIMER_EX_ID \in timers

Progress == StopInv /\ StatusInv /\ StartInv

LEMMA ProgressInit == ASSUME Init PROVE Progress
BY DEF Init, Progress, StopInv, StatusInv, StatusAgrees, StartInv

(* A statement leads to the next one, or out of the initialisation. *)
LEMMA Leads ==
  ASSUME TypeOK, ~Idle
  PROVE  /\ pc \in Nat /\ pc > 0
         /\ handler \in {"OnInitDialog", "Button1", "Button2", "Button3"}
         /\ handler = "OnInitDialog" => pc <= 9
         /\ handler = "Button1" => pc <= 23
         /\ handler = "Button2" => pc <= 5
         /\ handler = "Button3" => pc <= 10
<1>1. pc \in Nat /\ pc > 0 /\ handler \in Handlers /\ pc <= Length[handler]
  BY ScriptTypes DEF TypeOK, Idle
<1>2. QED
  BY <1>1, Lengths

LEMMA ProgressStep == ASSUME TypeOK, Progress, [Next]_vars PROVE Progress'
<1> USE DEF Progress, StopInv, StatusInv, StatusAgrees, StartInv
<1>1. ASSUME NEW h \in Buttons, Click(h) PROVE Progress'
  <2>1. /\ Idle /\ handler' = h /\ pc' = 1 /\ h \in {"Button1", "Button2", "Button3"}
        /\ UNCHANGED <<path, m_deviceStatus>>
    BY <1>1, Lengths DEF Click, Buttons, linkVars, deviceVars
  <2>2. StatusAgrees
    BY <2>1, Lengths DEF Idle, TypeOK
  <2>3. QED
    BY <2>1, <2>2
<1>2. CASE Succeed
  <2>1. /\ ~Idle /\ handler' = handler /\ pc' = pc + 1 /\ Call \in Opening
        /\ Opened(Call) /\ Possible(Call) /\ UNCHANGED <<timers, spoilt>>
    BY <1>2, Steps DEF Succeed, Onward
  <2>2. /\ library' = (library \/ Call = "Initialize") /\ path' = (path \/ Call = "UsbOpen")
        /\ m_deviceStatus' = IF Call = "UsbInitialize" THEN "UsbFast" ELSE m_deviceStatus
    BY <2>1 DEF Opened
  <2>3. /\ library => library'
        /\ Call = "Initialize" => library'
        /\ Call = "UsbOpen" => path'
        /\ Call # "UsbOpen" => (path' <=> path)
    BY <2>2, Zenon
  <2>4. /\ Call = "UsbInitialize" => path /\ highSpeed' = "ready" /\ m_deviceStatus' = "UsbFast"
        /\ Call = "PreStart" => highSpeed' = "armed"
        /\ Call = "Start" => highSpeed' = "streaming"
        /\ Call \in {"Initialize", "UsbOpen", "SetTime"} => highSpeed' = highSpeed
        /\ Call # "UsbInitialize" => m_deviceStatus' = m_deviceStatus
    BY <2>1, <2>2 DEF Opened, Possible
  <2>5. UNCHANGED <<timers, spoilt>> /\ handler' = handler /\ pc' = pc + 1 /\ Call \in Opening
    BY <2>1
  <2>6. ~Idle
    BY <2>1
  <2>7. QED
    <3>1. CASE handler = "OnInitDialog"
      BY <3>1, <2>3, <2>4, <2>5, <2>6, Places, Leads DEF At, Opening
    <3>2. CASE handler = "Button1"
      BY <3>2, <2>3, <2>4, <2>5, <2>6, Places, Leads DEF At, Opening
    <3>3. CASE handler = "Button2"
      BY <3>3, <2>3, <2>4, <2>5, <2>6, Places, Leads DEF At, Opening
    <3>4. CASE handler = "Button3"
      BY <3>4, <2>3, <2>4, <2>5, <2>6, Places, Leads DEF At, Opening
    <3>5. QED
      BY <2>1, <3>1, <3>2, <3>3, <3>4, Leads
<1>3. CASE Fail
  <2>1. /\ ~Idle /\ handler' = handler /\ Call \in Opening /\ UNCHANGED <<timers, path, library, m_deviceStatus>>
        /\ IF Undoes(Call) THEN Closed ELSE UNCHANGED <<highSpeed, m_aProfileInfo>>
        /\ spoilt' = (spoilt \/ (Possible(Call) /\ Call # "SetTime"))
    BY <1>3, Steps DEF Fail, Onward
  <2>2. ~spoilt' => ~spoilt /\ (Possible(Call) => Call = "SetTime")
    BY <2>1, Zenon
  <2>3. /\ Possible("Initialize") /\ (library => Possible("UsbOpen"))
        /\ path /\ highSpeed = "closed" => Possible("UsbInitialize")
        /\ highSpeed = "ready" => Possible("PreStart")
        /\ highSpeed = "armed" => Possible("Start")
    BY DEF Possible
  <2>4. /\ Call \in {"UsbInitialize", "PreStart", "Start"} => highSpeed' = "closed"
        /\ Call \in {"Initialize", "UsbOpen", "SetTime"} => highSpeed' = highSpeed
    BY <2>1 DEF Undoes, Closed
  <2>5. CASE pc' = pc + 1 /\ Call \notin {"Initialize", "UsbOpen"}
    <3>1. CASE handler = "OnInitDialog"
      BY <3>1, <2>1, <2>5, <2>2, <2>3, <2>4, Places, Leads DEF At, Opening
    <3>2. CASE handler = "Button1"
      BY <3>2, <2>1, <2>5, <2>2, <2>3, <2>4, Places, Leads DEF At, Opening
    <3>3. CASE handler = "Button2"
      BY <3>3, <2>1, <2>5, <2>2, <2>3, <2>4, Places, Leads DEF At, Opening
    <3>4. CASE handler = "Button3"
      BY <3>4, <2>1, <2>5, <2>2, <2>3, <2>4, Places, Leads DEF At, Opening
    <3>5. QED
      BY <2>1, <3>1, <3>2, <3>3, <3>4, Leads
  <2>6. CASE Call \in {"Initialize", "UsbOpen"} /\ LeaveInit
    <3>1. CASE handler = "OnInitDialog"
      BY <3>1, <2>1, <2>6, <2>2, <2>3, <2>4, InitEnds, Places, Leads DEF At, InitCalls
    <3>2. CASE handler = "Button1"
      BY <3>2, <2>1, <2>6, <2>2, <2>3, <2>4, InitEnds, Places, Leads DEF At, InitCalls
    <3>3. CASE handler = "Button2"
      BY <3>3, <2>1, <2>6, <2>2, <2>3, <2>4, InitEnds, Places, Leads DEF At, InitCalls
    <3>4. CASE handler = "Button3"
      BY <3>4, <2>1, <2>6, <2>2, <2>3, <2>4, InitEnds, Places, Leads DEF At, InitCalls
    <3>5. QED
      BY <2>1, <3>1, <3>2, <3>3, <3>4, Leads
  <2>7. QED
    BY <1>3, <2>1, <2>5, <2>6, Steps DEF Fail, Failed, InitCalls, Opening
<1>4. CASE StopHighSpeed
  <2>1. /\ ~Idle /\ handler' = handler /\ pc' = pc + 1 /\ Call = "StopHighSpeed"
        /\ UNCHANGED <<timers, m_deviceStatus, path, library, spoilt>>
    BY <1>4, Steps DEF StopHighSpeed, Onward, deviceVars
  <2>2. QED
    BY <2>1, Places, Leads DEF At
<1>5. CASE FinalizeHighSpeed
  <2>1. /\ ~Idle /\ handler' = handler /\ pc' = pc + 1 /\ Call = "FinalizeHighSpeed"
        /\ highSpeed' = "closed" /\ UNCHANGED <<timers, m_deviceStatus, path, library, spoilt>>
    BY <1>5, Steps DEF FinalizeHighSpeed, Onward, Closed
  <2>2. QED
    BY <2>1, Places, Leads DEF At
<1>6. CASE CloseLink
  <2>1. /\ ~Idle /\ handler' = handler /\ Call \in Closing \cup Finalizing
        /\ path' = FALSE /\ library' = (library /\ Call \notin Finalizing)
        /\ UNCHANGED <<timers, m_deviceStatus, highSpeed>>
        /\ (Proceed /\ UNCHANGED spoilt) \/ (Failed /\ spoilt' = TRUE)
    BY <1>6, Steps DEF CloseLink, Onward, deviceVars
  <2>2. ~path' /\ (Call \in Finalizing => ~library')
    BY <2>1, Zenon
  <2>3. CASE pc' = pc + 1
    <3>1. CASE handler = "OnInitDialog"
      BY <3>1, <2>1, <2>3, <2>2, Places, Leads DEF At, Closing, Finalizing
    <3>2. CASE handler = "Button1"
      BY <3>2, <2>1, <2>3, <2>2, Places, Leads DEF At, Closing, Finalizing
    <3>3. CASE handler = "Button2"
      BY <3>3, <2>1, <2>3, <2>2, Places, Leads DEF At, Closing, Finalizing
    <3>4. CASE handler = "Button3"
      BY <3>4, <2>1, <2>3, <2>2, Places, Leads DEF At, Closing, Finalizing
    <3>5. QED
      BY <2>1, <3>1, <3>2, <3>3, <3>4, Leads
  <2>4. CASE Call \in InitCalls /\ LeaveInit /\ spoilt' = TRUE
    <3>1. CASE handler = "OnInitDialog"
      BY <3>1, <2>1, <2>4, <2>2, InitEnds, Places, Leads DEF At, Closing, Finalizing
    <3>2. CASE handler = "Button1"
      <4>1. pc' = 19 /\ handler' = "Button1" /\ spoilt'
        BY <3>2, <2>1, <2>4, InitEnds
      <4>2. pc = 13 \/ pc = 14
        BY <3>2, <2>1, <2>4, Places, Leads DEF At, Closing, Finalizing, InitCalls
      <4>3. highSpeed' = "closed" /\ ~path' /\ m_deviceStatus' # "UsbFast"
        BY <3>2, <4>2, <2>1, <2>2
      <4>4. QED
        BY <4>1, <4>3
    <3>3. CASE handler = "Button2"
      BY <3>3, <2>1, <2>4, <2>2, InitEnds, Places, Leads DEF At, Closing, Finalizing
    <3>4. CASE handler = "Button3"
      BY <3>4, <2>1, <2>4, <2>2, InitEnds, Places, Leads DEF At, Closing, Finalizing
    <3>5. QED
      BY <2>1, <3>1, <3>2, <3>3, <3>4, Leads
  <2>5. QED
    BY <2>1, <2>3, <2>4, Steps DEF Failed
<1>7. CASE SetStatus
  <2>1. /\ ~Idle /\ handler' = handler /\ pc' = pc + 1 /\ Call \in {"UsbFast", "NoConnection"}
        /\ m_deviceStatus' = Call /\ UNCHANGED <<timers, highSpeed, path, library, spoilt>>
    BY <1>7, Steps DEF SetStatus, Status, Onward, linkVars
  <2>2. QED
    <3>1. CASE handler = "OnInitDialog"
      BY <3>1, <2>1, Places, Leads DEF At
    <3>2. CASE handler = "Button1"
      BY <3>2, <2>1, Places, Leads DEF At
    <3>3. CASE handler = "Button2"
      BY <3>3, <2>1, Places, Leads DEF At
    <3>4. CASE handler = "Button3"
      BY <3>4, <2>1, Places, Leads DEF At
    <3>5. QED
      BY <2>1, <3>1, <3>2, <3>3, <3>4, Leads
<1>8. CASE Clear
  <2>1. /\ ~Idle /\ handler' = handler /\ pc' = pc + 1
        /\ Call \in {"ClearBuffer", "ClearMemory", "ClearCounters"}
        /\ UNCHANGED <<timers, m_deviceStatus, highSpeed, path, library, spoilt>>
    BY <1>8, Steps DEF Clear, Onward, linkVars, deviceVars
  <2>2. QED
    BY <2>1, Places, Leads DEF At
<1>9. CASE SetTimers
  <2>1. /\ ~Idle /\ handler' = handler /\ pc' = pc + 1
        /\ UNCHANGED <<m_deviceStatus, highSpeed, path, library, spoilt>>
        /\ \/ Call = "KillTimerEx" /\ timers' = timers \ {Dialog_TIMER_EX_ID}
           \/ Call = "SetTimerEx"  /\ timers' = timers \cup {Dialog_TIMER_EX_ID}
           \/ Call = "KillTimer"   /\ timers' = timers \ {TIMER_ID}
    BY <1>9, Steps DEF SetTimers, Onward, linkVars, deviceVars
  <2>2. QED
    BY <2>1, Places, Leads DEF At
<1>10. CASE CheckMemoryAccess
  <2>1. /\ ~Idle /\ handler' = handler /\ Call = "CheckMemoryAccess"
        /\ UNCHANGED <<m_deviceStatus, path>>
    BY <1>10, Steps DEF CheckMemoryAccess, Onward, linkVars, deviceVars
  <2>2. handler = "Button2"
    BY <2>1, Places, Leads DEF At
  <2>3. QED
    BY <2>1, <2>2
<1>11. CASE DoProcessDatas
  <2>1. /\ ~Idle /\ Call = "DoProcessDatas"
        /\ UNCHANGED <<timers, m_deviceStatus, highSpeed, path, library, spoilt>>
    BY <1>11 DEF DoProcessDatas, linkVars
  <2>2. handler' = handler /\ (pc' = pc + 1 \/ pc' = pc)
    BY <1>11, Steps DEF DoProcessDatas, Onward
  <2>3. QED
    BY <2>1, <2>2, Places, Leads DEF At
<1>12. ASSUME UNCHANGED <<handler, pc, timers, m_deviceStatus, highSpeed, path, library, spoilt>>
       PROVE  Progress'
  BY <1>12
<1>13. CASE Fault
  BY <1>12, <1>13 DEF Fault, linkVars, deviceVars
<1>14. CASE Controller
  BY <1>12, <1>14 DEF Controller, linkVars, deviceVars, dialogVars
<1>15. CASE Close
  BY <1>12, <1>15 DEF Close, linkVars, deviceVars
<1>16. CASE UNCHANGED vars
  BY <1>12, <1>16 DEF vars, linkVars, deviceVars, dialogVars
<1>17. ASSUME NEW id \in timers, OnTimer(id) PROVE UNCHANGED vars
  BY <1>17 DEF OnTimer, KeepGettingData
<1>18. QED
  BY <1>1, <1>2, <1>3, <1>4, <1>5, <1>6, <1>7, <1>8, <1>9, <1>10, <1>11, <1>13, <1>14,
     <1>15, <1>16, <1>17 DEF Next, Statement

LEMMA ProgressAlways == Spec => [](TypeOK /\ Progress)
<1>1. Init => TypeOK /\ Progress
  BY TypeInit, ProgressInit
<1>2. TypeOK /\ Progress /\ [Next]_vars => (TypeOK /\ Progress)'
  BY TypeStep, ProgressStep
<1>3. QED
  BY <1>1, <1>2, PTL DEF Spec

(* Start works again from wherever the session is: unless a call fails     *)
(* that could have succeeded, it ends with the controller streaming and    *)
(* the timer set (MFCApplication1Dlg.cpp, OnBnClickedButton1;              *)
(* CaptureLaser.cpp, StartCommonSystems).                                  *)
THEOREM StartWorks == Spec => []StartStreams
<1>1. TypeOK /\ Progress => StartStreams
  BY Lengths DEF Progress, StartInv, StartStreams, Idle, TypeOK
<1>2. QED
  BY <1>1, ProgressAlways, PTL

(* Stop leaves nothing open and no timer set, in whatever state of the     *)
(* session it is pressed and however its calls end (StopCommonSystems and  *)
(* closeSystems).                                                          *)
THEOREM StopEndsAll == Spec => []StoppedIsQuiet
<1>1. TypeOK /\ Progress => StoppedIsQuiet
  BY Lengths DEF Progress, StopInv, StoppedIsQuiet, Idle, TypeOK
<1>2. QED
  BY <1>1, ProgressAlways, PTL

(* Between handlers m_deviceStatus tells whether the path is open, though  *)
(* neither asks the controller (closeSystems and                           *)
(* DoLaserInitUsbHighSpeedDatas).                                          *)
THEOREM StatusTells == Spec => []StatusTellsOfPath
<1>1. TypeOK /\ Progress => StatusTellsOfPath
  BY Lengths DEF Progress, StatusInv, StatusAgrees, StatusTellsOfPath, Idle, TypeOK
<1>2. QED
  BY <1>1, ProgressAlways, PTL

=============================================================================
