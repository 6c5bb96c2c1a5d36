----------------------- MODULE ThreadSafeBufferProofs -----------------------
(* Proofs about CThreadSafeBuffer, for any number of threads, devices and  *)
(* calls: its types, that every operation takes effect at once, and what   *)
(* its notification flag says of its batch number.                         *)
(*                                                                         *)
(* The argument: at most one thread is past its Lock (LockInv), and what   *)
(* the data of its device is at each of its statements is a function of    *)
(* what it was when the thread got the lock (Partial).  At the statement   *)
(* that gives the lock back that function is the whole effect of the call  *)
(* (AppliedIsNow).  The batch numbers returned follow the same way         *)
(* (Reporting).                                                            *)
EXTENDS ThreadSafeBuffer, SequenceTheorems, TLAPS

(* How long each operation is, and where each statement stands in it. *)
Length == [Add |-> 6, AddCount |-> 5, Get |-> 7, GetCount |-> 5, ClearBuffer |-> 6]

LEMMA Bodies ==
  /\ Body["Add"] = <<"Lock", "push", "count", "notify", "batch", "Unlock">>
  /\ Body["AddCount"] = <<"Lock", "count", "notify", "batch", "Unlock">>
  /\ Body["Get"] = <<"Lock", "copy", "clear", "takeNotify", "zeroNotify", "takeBatch",
                     "Unlock">>
  /\ Body["GetCount"] = <<"Lock", "takeNotify", "zeroNotify", "takeBatch", "return">>
  /\ Body["ClearBuffer"] = <<"Lock", "clear", "zeroCount", "zeroBatch", "zeroNotify",
                             "Unlock">>
BY DEF Body

LEMMA Lengths ==
  /\ Length["Add"] = 6 /\ Length["AddCount"] = 5 /\ Length["Get"] = 7
  /\ Length["GetCount"] = 5 /\ Length["ClearBuffer"] = 6
BY DEF Length

LEMMA Where ==
  ASSUME NEW op \in Ops, NEW k \in 1 .. Length[op], NEW s, Body[op][k] = s
  PROVE  /\ k = 1 <=> s = "Lock"
         /\ s = "push" => op = "Add" /\ k = 2
         /\ s = "copy" => op = "Get" /\ k = 2
         /\ s = "count" => (op = "Add" /\ k = 3) \/ (op = "AddCount" /\ k = 2)
         /\ s = "notify" => (op = "Add" /\ k = 4) \/ (op = "AddCount" /\ k = 3)
         /\ s = "batch" => (op = "Add" /\ k = 5) \/ (op = "AddCount" /\ k = 4)
         /\ s = "clear" => (op = "Get" /\ k = 3) \/ (op = "ClearBuffer" /\ k = 2)
         /\ s = "takeNotify" => (op = "Get" /\ k = 4) \/ (op = "GetCount" /\ k = 2)
         /\ s = "zeroNotify" => \/ (op = "Get" /\ k = 5) \/ (op = "GetCount" /\ k = 3)
                                \/ (op = "ClearBuffer" /\ k = 5)
         /\ s = "takeBatch" => (op = "Get" /\ k = 6) \/ (op = "GetCount" /\ k = 4)
         /\ s = "zeroCount" => op = "ClearBuffer" /\ k = 3
         /\ s = "zeroBatch" => op = "ClearBuffer" /\ k = 4
         /\ s = "Unlock" => op # "GetCount" /\ k = Length[op]
         /\ s = "return" => op = "GetCount" /\ k = 5
         /\ s \notin {"Unlock", "return"} => k + 1 \in 1 .. Length[op]
<1>1. CASE op = "Add"
  <2>1. k \in {1, 2, 3, 4, 5, 6} /\ Length[op] = 6
    BY <1>1, Lengths
  <2>2. Body[op] = <<"Lock", "push", "count", "notify", "batch", "Unlock">>
    BY <1>1, Bodies
  <2>3. QED
    BY <1>1, <2>1, <2>2
<1>2. CASE op = "AddCount"
  <2>1. k \in {1, 2, 3, 4, 5} /\ Length[op] = 5
    BY <1>2, Lengths
  <2>2. Body[op] = <<"Lock", "count", "notify", "batch", "Unlock">>
    BY <1>2, Bodies
  <2>3. QED
    BY <1>2, <2>1, <2>2
<1>3. CASE op = "Get"
  <2>1. k \in {1, 2, 3, 4, 5, 6, 7} /\ Length[op] = 7
    BY <1>3, Lengths
  <2>2. Body[op] = <<"Lock", "copy", "clear", "takeNotify", "zeroNotify", "takeBatch",
                     "Unlock">>
    BY <1>3, Bodies
  <2>3. QED
    BY <1>3, <2>1, <2>2
<1>4. CASE op = "GetCount"
  <2>1. k \in {1, 2, 3, 4, 5} /\ Length[op] = 5
    BY <1>4, Lengths
  <2>2. Body[op] = <<"Lock", "takeNotify", "zeroNotify", "takeBatch", "return">>
    BY <1>4, Bodies
  <2>3. QED
    BY <1>4, <2>1, <2>2
<1>5. CASE op = "ClearBuffer"
  <2>1. k \in {1, 2, 3, 4, 5, 6} /\ Length[op] = 6
    BY <1>5, Lengths
  <2>2. Body[op] = <<"Lock", "clear", "zeroCount", "zeroBatch", "zeroNotify", "Unlock">>
    BY <1>5, Bodies
  <2>3. QED
    BY <1>5, <2>1, <2>2
<1>6. QED
  BY <1>1, <1>2, <1>3, <1>4, <1>5 DEF Ops

-----------------------------------------------------------------------------
(* Who is where *)

LockInv ==
  /\ \A t \in Threads : at[t] = 0 => call[t] = NoCall
  /\ \A t \in Threads : at[t] # 0 => call[t] \in Calls /\ at[t] \in 1 .. Length[call[t].op]
  /\ \A t \in Threads : at[t] > 1 <=> m_csDataAccess = t

(* A thread at a statement is in a call that has it, in this place; past   *)
(* its Lock it owns the critical section.                                  *)
LEMMA AtStatement ==
  ASSUME LockInv, NEW t \in Threads, NEW s, At(t, s)
  PROVE  /\ call[t] \in Calls /\ call[t].op \in Ops /\ call[t].dev \in Devices
         /\ call[t].data \in Seq(Profiles) /\ call[t].count \in Nat
         /\ call[t].notify \in SUBSET Bits
         /\ at[t] \in 1 .. Length[call[t].op] /\ Body[call[t].op][at[t]] = s
         /\ Length[call[t].op] \in 5 .. 7
         /\ s # "Lock" => at[t] > 1 /\ m_csDataAccess = t
<1>1. call[t] \in Calls /\ at[t] \in 1 .. Length[call[t].op] /\ Body[call[t].op][at[t]] = s
  BY DEF At, LockInv
<1>2. /\ call[t].op \in Ops /\ call[t].dev \in Devices
      /\ call[t].data \in Seq(Profiles) /\ call[t].count \in Nat
      /\ call[t].notify \in SUBSET Bits
  BY <1>1, BufferAssumption
<1>3. Length[call[t].op] \in 5 .. 7
  BY <1>2, Lengths DEF Ops
<1>4. s # "Lock" => at[t] > 1
  BY <1>1, <1>2, <1>3, Where
<1>5. QED
  BY <1>1, <1>2, <1>3, <1>4 DEF LockInv

LEMMA AdvanceStays ==
  ASSUME TypeOK, LockInv, NEW t \in Threads, NEW s, s \notin {"Lock", "Unlock", "return"},
         At(t, s), Advance(t)
  PROVE  /\ LockInv'
         /\ at' \in [Threads -> 0 .. 7] /\ at'[t] = at[t] + 1 /\ at[t] > 1
         /\ \A u \in Threads \ {t} : at'[u] = at[u] /\ ~(at[u] > 1)
         /\ m_csDataAccess = t
<1>1. /\ call[t] \in Calls /\ call[t].op \in Ops /\ Length[call[t].op] \in 5 .. 7
      /\ at[t] \in 1 .. Length[call[t].op] /\ Body[call[t].op][at[t]] = s
      /\ at[t] > 1 /\ m_csDataAccess = t
  BY AtStatement
<1>2. at[t] + 1 \in 1 .. Length[call[t].op]
  BY <1>1, Where
<1>3. at' \in [Threads -> 0 .. 7] /\ at'[t] = at[t] + 1
      /\ \A u \in Threads \ {t} : at'[u] = at[u]
  <2>1. at[t] + 1 \in 0 .. 7
    BY <1>1, <1>2
  <2>2. at' = [at EXCEPT ![t] = at[t] + 1] /\ at \in [Threads -> 0 .. 7]
    BY DEF Advance, TypeOK
  <2>3. QED
    BY <2>1, <2>2
<1>4. \A u \in Threads \ {t} : ~(at[u] > 1)
  BY <1>1 DEF LockInv
<1>5. LockInv'
  BY <1>1, <1>2, <1>3, <1>4 DEF LockInv, Advance, TypeOK
<1>6. QED
  BY <1>1, <1>3, <1>4, <1>5

LEMMA LeaveStays ==
  ASSUME TypeOK, LockInv, NEW t \in Threads, m_csDataAccess = t, Leave(t)
  PROVE  /\ LockInv'
         /\ at' \in [Threads -> 0 .. 7] /\ call' \in [Threads -> Calls \cup {NoCall}]
         /\ settled' \in [Devices -> Records]
         /\ m_csDataAccess' \in Threads \cup {NoThread}
<1>1. at' \in [Threads -> 0 .. 7] /\ at'[t] = 0 /\ call'[t] = NoCall
      /\ call' \in [Threads -> Calls \cup {NoCall}]
      /\ \A u \in Threads \ {t} : at'[u] = at[u] /\ call'[u] = call[u] /\ ~(at[u] > 1)
  BY DEF Leave, TypeOK, LockInv
<1>2. m_csDataAccess' = NoThread /\ NoThread \notin Threads
  BY BufferAssumption DEF Leave
<1>3. LockInv'
  <2>1. \A u \in Threads : at'[u] = 0 => call'[u] = NoCall
    BY <1>1 DEF LockInv
  <2>2. \A u \in Threads :
          at'[u] # 0 => call'[u] \in Calls /\ at'[u] \in 1 .. Length[call'[u].op]
    BY <1>1 DEF LockInv
  <2>3. \A u \in Threads : ~(at'[u] > 1) /\ m_csDataAccess' # u
    BY <1>1, <1>2
  <2>4. QED
    BY <2>1, <2>2, <2>3 DEF LockInv
<1>4. settled' \in [Devices -> Records]
  BY DEF Leave, Contents, Records, TypeOK
<1>5. QED
  BY <1>1, <1>2, <1>3, <1>4

LEMMA SumType ==
  ASSUME NEW m \in Nat, NEW n \in Nat
  PROVE  Sum(m, n) \in 0 .. CountSize - 1
BY BufferAssumption DEF Sum

LEMMA InitTypes == Init => TypeOK /\ LockInv
<1> SUFFICES ASSUME Init PROVE TypeOK /\ LockInv
  OBVIOUS
<1>1. <<>> \in Seq(Profiles) /\ 0 \in 0 .. CountSize - 1 /\ 0 \in 0 .. MaxCalls
  BY BufferAssumption
<1>2. Blank \in Replies
  BY <1>1 DEF Blank, Replies
<1>3. settled \in [Devices -> Records]
  BY <1>1 DEF Init, Contents, Records
<1>4. TypeOK
  <2>1. /\ m_vecProfileData \in [Devices -> Seq(Profiles)]
        /\ m_adwCount \in [Devices -> 0 .. CountSize - 1]
        /\ m_adwNotify \in [Devices -> SUBSET Bits]
        /\ m_anBatchNo \in [Devices -> Nat]
        /\ m_csDataAccess \in Threads \cup {NoThread}
    BY <1>1 DEF Init
  <2>2. /\ call \in [Threads -> Calls \cup {NoCall}]
        /\ at \in [Threads -> 0 .. 7]
        /\ pushed \in [Threads -> Nat]
        /\ out \in [Threads -> Replies]
        /\ calls \in 0 .. MaxCalls
        /\ reported \in [Devices -> Nat]
    BY <1>1, <1>2 DEF Init
  <2>3. QED
    BY <1>3, <2>1, <2>2 DEF TypeOK
<1>5. LockInv
  BY BufferAssumption DEF Init, LockInv
<1>6. QED
  BY <1>4, <1>5

LEMMA BeginTypes ==
  ASSUME TypeOK, LockInv, NEW t \in Threads, NEW c \in Calls, Begin(t, c)
  PROVE  TypeOK' /\ LockInv'
<1>1. c.op \in Ops
  BY BufferAssumption
<1>2. 1 \in 1 .. Length[c.op]
  BY <1>1, Lengths DEF Ops
<1>3. /\ at' \in [Threads -> 0 .. 7] /\ at'[t] = 1 /\ call'[t] = c
      /\ call' \in [Threads -> Calls \cup {NoCall}]
      /\ \A u \in Threads \ {t} : at'[u] = at[u] /\ call'[u] = call[u]
      /\ m_csDataAccess' = m_csDataAccess
  BY DEF Begin, TypeOK
<1>4. at[t] = 0 /\ ~(m_csDataAccess = t)
  BY DEF Begin, LockInv
<1>5. LockInv'
  BY <1>2, <1>3, <1>4 DEF LockInv
<1>6. Blank \in Replies
  BY BufferAssumption, EmptySeq DEF Blank, Replies
<1>7. calls' \in 0 .. MaxCalls
  BY BufferAssumption DEF Begin, TypeOK
<1>8. TypeOK'
  BY <1>3, <1>6, <1>7 DEF TypeOK, Begin, data
<1>9. QED
  BY <1>5, <1>8

LEMMA LockTypes ==
  ASSUME TypeOK, LockInv, NEW t \in Threads, Lock(t)
  PROVE  TypeOK' /\ LockInv' /\ at[t] = 1 /\ at'[t] = 2
         /\ \A u \in Threads \ {t} : at'[u] = at[u] /\ ~(at[u] > 1)
<1>1. /\ call[t] \in Calls /\ call[t].op \in Ops /\ Length[call[t].op] \in 5 .. 7
      /\ at[t] \in 1 .. Length[call[t].op] /\ Body[call[t].op][at[t]] = "Lock"
  BY AtStatement DEF Lock
<1>2. at[t] = 1
  BY <1>1, Where
<1>3. at' \in [Threads -> 0 .. 7] /\ at'[t] = 2
      /\ \A u \in Threads \ {t} : at'[u] = at[u]
  BY <1>2 DEF Lock, TypeOK
<1>4. \A u \in Threads : ~(at[u] > 1)
  BY BufferAssumption DEF Lock, Free, LockInv
<1>5. LockInv'
  BY <1>1, <1>2, <1>3, <1>4 DEF LockInv, Lock
<1>6. TypeOK'
  BY <1>3 DEF TypeOK, Lock, data
<1>7. QED
  BY <1>2, <1>3, <1>4, <1>5, <1>6

(* What a statement that goes on to the next one has to show of the types. *)
LEMMA AdvanceTypes ==
  ASSUME TypeOK, LockInv, NEW t \in Threads, NEW s, s \notin {"Lock", "Unlock", "return"},
         At(t, s), Advance(t),
         m_vecProfileData' \in [Devices -> Seq(Profiles)],
         m_adwCount' \in [Devices -> 0 .. CountSize - 1],
         m_adwNotify' \in [Devices -> SUBSET Bits],
         m_anBatchNo' \in [Devices -> Nat],
         pushed' \in [Threads -> Nat],
         out' \in [Threads -> Replies],
         reported' \in [Devices -> Nat]
  PROVE  TypeOK' /\ LockInv'
<1>1. LockInv' /\ at' \in [Threads -> 0 .. 7]
  BY AdvanceStays
<1>2. QED
  BY <1>1 DEF TypeOK, Advance

LEMMA PushTypes ==
  ASSUME TypeOK, LockInv, NEW t \in Threads, Push(t)
  PROVE  TypeOK' /\ LockInv'
<1>1. call[t].dev \in Devices /\ call[t].data \in Seq(Profiles)
  BY AtStatement DEF Push
<1> DEFINE e == call[t].data[pushed[t] + 1]
           more == Append(m_vecProfileData[call[t].dev], e)
<1>2. e \in Profiles
  BY <1>1 DEF Push, TypeOK
<1>3. more \in Seq(Profiles)
  BY <1>1, <1>2 DEF TypeOK
<1>4. m_vecProfileData' = [m_vecProfileData EXCEPT ![call[t].dev] = more]
  BY DEF Push
<1> HIDE DEF more
<1>5. m_vecProfileData' \in [Devices -> Seq(Profiles)]
  BY <1>1, <1>3, <1>4 DEF TypeOK
<1>6. pushed' \in [Threads -> Nat]
  BY DEF Push, TypeOK
<1>7. LockInv'
  BY DEF LockInv, Push
<1>8. TypeOK'
  BY <1>5, <1>6, <1>7 DEF TypeOK, Push
<1>9. QED
  BY <1>7, <1>8

LEMMA CountTypes ==
  ASSUME TypeOK, LockInv, NEW t \in Threads, Count(t)
  PROVE  TypeOK' /\ LockInv'
<1>1. call[t].dev \in Devices /\ call[t].data \in Seq(Profiles) /\ call[t].count \in Nat
  BY AtStatement DEF Count
<1>2. Announced(call[t]) \in Nat
  BY <1>1 DEF Announced
<1> DEFINE n == Sum(m_adwCount[call[t].dev], Announced(call[t]))
<1>3. n \in 0 .. CountSize - 1
  <2>1. m_adwCount[call[t].dev] \in Nat
    BY <1>1 DEF TypeOK
  <2>2. QED
    BY <1>2, <2>1, SumType
<1>4. m_adwCount' = [m_adwCount EXCEPT ![call[t].dev] = n]
  BY DEF Count
<1> HIDE DEF n
<1>5. m_adwCount' \in [Devices -> 0 .. CountSize - 1]
  BY <1>1, <1>3, <1>4 DEF TypeOK
<1>6. At(t, "count") /\ Advance(t)
  BY DEF Count
<1>7. QED
  BY <1>5, <1>6, AdvanceTypes DEF Count, TypeOK

LEMMA BatchTypes ==
  ASSUME TypeOK, LockInv, NEW t \in Threads, Batch(t)
  PROVE  TypeOK' /\ LockInv'
<1>1. call[t].dev \in Devices
  BY AtStatement DEF Batch
<1>2. PICK n \in Nat : m_anBatchNo' = [m_anBatchNo EXCEPT ![call[t].dev] = n]
  <2>1. m_anBatchNo[call[t].dev] \in Nat /\ m_anBatchNo[call[t].dev] + 1 \in Nat
    BY <1>1 DEF TypeOK
  <2>2. \/ m_anBatchNo' = [m_anBatchNo EXCEPT ![call[t].dev] = m_anBatchNo[call[t].dev] + 1]
        \/ m_anBatchNo' = m_anBatchNo
    BY DEF Batch
  <2>3. m_anBatchNo = [m_anBatchNo EXCEPT ![call[t].dev] = m_anBatchNo[call[t].dev]]
    BY <1>1 DEF TypeOK
  <2>4. QED
    BY <2>1, <2>2, <2>3
<1>3. m_anBatchNo' \in [Devices -> Nat]
  BY <1>1, <1>2 DEF TypeOK
<1>4. At(t, "batch") /\ Advance(t)
  BY DEF Batch
<1>5. QED
  BY <1>3, <1>4, AdvanceTypes DEF Batch, TypeOK

LEMMA NotifyTypes ==
  ASSUME TypeOK, LockInv, NEW t \in Threads, Notify(t)
  PROVE  TypeOK' /\ LockInv'
<1>1. call[t].dev \in Devices /\ call[t].notify \in SUBSET Bits
  BY AtStatement DEF Notify
<1> DEFINE flags == m_adwNotify[call[t].dev] \cup call[t].notify
<1>2. flags \in SUBSET Bits
  BY <1>1 DEF TypeOK
<1>3. m_adwNotify' = [m_adwNotify EXCEPT ![call[t].dev] = flags]
  BY DEF Notify
<1> HIDE DEF flags
<1>4. m_adwNotify' \in [Devices -> SUBSET Bits]
  BY <1>1, <1>2, <1>3 DEF TypeOK
<1>5. At(t, "notify") /\ Advance(t)
  BY DEF Notify
<1>6. QED
  BY <1>4, <1>5, AdvanceTypes DEF Notify, TypeOK

(* The statements that copy a field of the data to the reply *)
LEMMA TakeTypes ==
  ASSUME TypeOK, LockInv, NEW t \in Threads, Copy(t) \/ TakeNotify(t) \/ TakeBatch(t)
  PROVE  TypeOK' /\ LockInv'
<1>1. PICK s \in {"copy", "takeNotify", "takeBatch"} : At(t, s) /\ Advance(t)
  BY DEF Copy, TakeNotify, TakeBatch
<1>2. call[t].dev \in Devices
  BY <1>1, AtStatement
<1>3. /\ m_vecProfileData[call[t].dev] \in Seq(Profiles)
      /\ m_adwNotify[call[t].dev] \in SUBSET Bits
      /\ m_anBatchNo[call[t].dev] \in Nat
  BY <1>2 DEF TypeOK
<1>4. PICK r \in Replies : out' = [out EXCEPT ![t] = r]
  <2>1. out[t] \in Replies
    BY DEF TypeOK
  <2>2. /\ [out[t] EXCEPT !.data = m_vecProfileData[call[t].dev]] \in Replies
        /\ [out[t] EXCEPT !.notify = m_adwNotify[call[t].dev]] \in Replies
        /\ [out[t] EXCEPT !.batch = m_anBatchNo[call[t].dev]] \in Replies
    BY <1>3, <2>1 DEF Replies
  <2>3. \/ out' = [out EXCEPT ![t] = [out[t] EXCEPT !.data = m_vecProfileData[call[t].dev]]]
        \/ out' = [out EXCEPT ![t] = [out[t] EXCEPT !.notify = m_adwNotify[call[t].dev]]]
        \/ out' = [out EXCEPT ![t] = [out[t] EXCEPT !.batch = m_anBatchNo[call[t].dev]]]
    BY DEF Copy, TakeNotify, TakeBatch
  <2>4. QED
    BY <2>2, <2>3
<1>5. out' \in [Threads -> Replies]
  BY <1>4 DEF TypeOK
<1>6. reported' \in [Devices -> Nat]
  <2>1. \/ reported' = [reported EXCEPT ![call[t].dev] = m_anBatchNo[call[t].dev]]
        \/ reported' = reported
    BY DEF Copy, TakeNotify, TakeBatch
  <2>2. QED
    BY <1>2, <1>3, <2>1 DEF TypeOK
<1>7. UNCHANGED data /\ UNCHANGED pushed
  BY DEF Copy, TakeNotify, TakeBatch
<1>8. QED
  BY <1>1, <1>5, <1>6, <1>7, AdvanceTypes DEF TypeOK, data

(* The statements that clear a field, and the end of the loop *)
LEMMA ClearTypes ==
  ASSUME TypeOK, LockInv, NEW t \in Threads,
         PushDone(t) \/ Clear(t) \/ ZeroNotify(t) \/ ZeroCount(t) \/ ZeroBatch(t)
  PROVE  TypeOK' /\ LockInv'
<1>1. PICK s \in {"push", "clear", "zeroNotify", "zeroCount", "zeroBatch"} :
         At(t, s) /\ Advance(t)
  BY DEF PushDone, Clear, ZeroNotify, ZeroCount, ZeroBatch
<1>2. call[t].dev \in Devices
  BY <1>1, AtStatement
<1>3. <<>> \in Seq(Profiles) /\ 0 \in 0 .. CountSize - 1 /\ {} \in SUBSET Bits
  BY BufferAssumption
<1>4. m_vecProfileData' \in [Devices -> Seq(Profiles)]
  <2>1. \/ m_vecProfileData' = [m_vecProfileData EXCEPT ![call[t].dev] = <<>>]
        \/ m_vecProfileData' = m_vecProfileData
    BY DEF PushDone, Clear, ZeroNotify, ZeroCount, ZeroBatch, data
  <2>2. QED
    BY <1>2, <1>3, <2>1 DEF TypeOK
<1>5. m_adwCount' \in [Devices -> 0 .. CountSize - 1]
  <2>1. \/ m_adwCount' = [m_adwCount EXCEPT ![call[t].dev] = 0]
        \/ m_adwCount' = m_adwCount
    BY DEF PushDone, Clear, ZeroNotify, ZeroCount, ZeroBatch, data
  <2>2. QED
    BY <1>2, <1>3, <2>1 DEF TypeOK
<1>6. m_adwNotify' \in [Devices -> SUBSET Bits]
  <2>1. \/ m_adwNotify' = [m_adwNotify EXCEPT ![call[t].dev] = {}]
        \/ m_adwNotify' = m_adwNotify
    BY DEF PushDone, Clear, ZeroNotify, ZeroCount, ZeroBatch, data
  <2>2. QED
    BY <1>2, <1>3, <2>1 DEF TypeOK
<1>7. m_anBatchNo' \in [Devices -> Nat] /\ reported' \in [Devices -> Nat]
  <2>1. \/ m_anBatchNo' = [m_anBatchNo EXCEPT ![call[t].dev] = 0]
        \/ m_anBatchNo' = m_anBatchNo
    BY DEF PushDone, Clear, ZeroNotify, ZeroCount, ZeroBatch, data
  <2>2. \/ reported' = [reported EXCEPT ![call[t].dev] = 0]
        \/ reported' = reported
    BY DEF PushDone, Clear, ZeroNotify, ZeroCount, ZeroBatch
  <2>3. m_anBatchNo' \in [Devices -> Nat]
    <3>1. m_anBatchNo \in [Devices -> Nat] /\ 0 \in Nat
      BY DEF TypeOK
    <3>2. QED
      BY <1>2, <2>1, <3>1
  <2>4. reported' \in [Devices -> Nat]
    BY <1>2, <2>2 DEF TypeOK
  <2>5. QED
    BY <2>3, <2>4
<1>8. UNCHANGED <<pushed, out>>
  BY DEF PushDone, Clear, ZeroNotify, ZeroCount, ZeroBatch
<1>9. QED
  BY <1>1, <1>4, <1>5, <1>6, <1>7, <1>8, AdvanceTypes DEF TypeOK

(* The ways out of a call *)
LEMMA LeaveTypes ==
  ASSUME TypeOK, LockInv, NEW t \in Threads, Unlock(t) \/ Return(t) \/ Throw(t)
  PROVE  TypeOK' /\ LockInv' /\ m_csDataAccess = t
<1>1. PICK s \in {"Unlock", "return", "push", "copy"} : At(t, s) /\ Leave(t)
  BY DEF Unlock, Return, Throw
<1>2. call[t].dev \in Devices /\ m_csDataAccess = t
  BY <1>1, AtStatement
<1>3. out' \in [Threads -> Replies]
  <2>1. [Blank EXCEPT !.threw = TRUE] \in Replies
    <3>1. Blank \in Replies
      BY BufferAssumption, EmptySeq DEF Blank, Replies
    <3>2. QED
      BY <3>1 DEF Replies
  <2>2. [out[t] EXCEPT !.count = m_adwCount[call[t].dev]] \in Replies
    BY <1>2 DEF Replies, TypeOK
  <2>3. \/ out' = out
        \/ out' = [out EXCEPT ![t] = [out[t] EXCEPT !.count = m_adwCount[call[t].dev]]]
        \/ out' = [out EXCEPT ![t] = [Blank EXCEPT !.threw = TRUE]]
    BY DEF Unlock, Return, Throw
  <2>4. QED
    BY <2>1, <2>2, <2>3 DEF TypeOK
<1>4. /\ LockInv' /\ at' \in [Threads -> 0 .. 7]
      /\ call' \in [Threads -> Calls \cup {NoCall}]
      /\ settled' \in [Devices -> Records]
      /\ m_csDataAccess' \in Threads \cup {NoThread}
  BY <1>1, <1>2, LeaveStays
<1>5. QED
  BY <1>1, <1>2, <1>3, <1>4 DEF TypeOK, Leave, data

-----------------------------------------------------------------------------
(* What a call has done of its work when it stands at its k-th statement,  *)
(* as a function of the record r of its device when it got the lock.       *)

DataNow(c, k, r, n) ==
  IF c.op = "Add" THEN r.data \o SubSeq(c.data, 1, n)
  ELSE IF (c.op = "Get" /\ k > 3) \/ (c.op = "ClearBuffer" /\ k > 2) THEN <<>>
  ELSE r.data

CountNow(c, k, r) ==
  IF (c.op = "Add" /\ k > 3) \/ (c.op = "AddCount" /\ k > 2)
    THEN Sum(r.count, Announced(c))
  ELSE IF c.op = "ClearBuffer" /\ k > 3 THEN 0
  ELSE r.count

NotifyNow(c, k, r) ==
  IF (c.op = "Add" /\ k > 4) \/ (c.op = "AddCount" /\ k > 3)
    THEN r.notify \cup c.notify
  ELSE IF (c.op \in {"Get", "ClearBuffer"} /\ k > 5) \/ (c.op = "GetCount" /\ k > 3) THEN {}
  ELSE r.notify

BatchNow(c, k, r) ==
  IF BatchOver(c) /\ ((c.op = "Add" /\ k > 5) \/ (c.op = "AddCount" /\ k > 4))
    THEN r.batch + 1
  ELSE IF c.op = "ClearBuffer" /\ k > 4 THEN 0
  ELSE r.batch

(* The part of its reply that it has *)
DataTaken(c, k, r) == IF c.op = "Get" /\ k > 2 THEN r.data ELSE <<>>

NotifyTaken(c, k, r) ==
  IF (c.op = "Get" /\ k > 4) \/ (c.op = "GetCount" /\ k > 2) THEN r.notify ELSE {}

BatchTaken(c, k, r) ==
  IF (c.op = "Get" /\ k > 6) \/ (c.op = "GetCount" /\ k > 4) THEN r.batch ELSE 0

(* The last batch number returned, if p was it before the call *)
ReportedNow(c, k, r, p) ==
  IF (c.op = "Get" /\ k > 6) \/ (c.op = "GetCount" /\ k > 4) THEN r.batch
  ELSE IF c.op = "ClearBuffer" /\ k > 4 THEN 0
  ELSE p

Quiet(d) ==
  /\ m_vecProfileData[d] = settled[d].data
  /\ m_adwCount[d] = settled[d].count
  /\ m_adwNotify[d] = settled[d].notify
  /\ m_anBatchNo[d] = settled[d].batch

Halfway(t, d) ==
  /\ m_vecProfileData[d] = DataNow(call[t], at[t], settled[d], pushed[t])
  /\ m_adwCount[d] = CountNow(call[t], at[t], settled[d])
  /\ m_adwNotify[d] = NotifyNow(call[t], at[t], settled[d])
  /\ m_anBatchNo[d] = BatchNow(call[t], at[t], settled[d])

Answered(t, d) ==
  /\ out[t].data = DataTaken(call[t], at[t], settled[d])
  /\ out[t].notify = NotifyTaken(call[t], at[t], settled[d])
  /\ out[t].batch = BatchTaken(call[t], at[t], settled[d])
  /\ out[t].count = 0 /\ ~out[t].threw

Looped(t) ==
  /\ at[t] = 1 => pushed[t] = 0
  /\ call[t].op = "Add" /\ at[t] = 2 => pushed[t] <= Len(call[t].data)
  /\ call[t].op = "Add" /\ at[t] > 2 => pushed[t] = Len(call[t].data)

Partial ==
  /\ \A d \in Devices : (\A t \in Threads : at[t] > 1 => call[t].dev # d) => Quiet(d)
  /\ \A t \in Threads : at[t] > 1 => Halfway(t, call[t].dev)
  /\ \A t \in Threads : at[t] = 1 => out[t] = Blank
  /\ \A t \in Threads : at[t] > 1 => Answered(t, call[t].dev)
  /\ \A t \in Threads : at[t] > 0 => Looped(t)

(* What the last settled record of a device and the last batch number      *)
(* returned say of each other *)
Told(d, p) ==
  /\ BatchBit \in settled[d].notify <=> settled[d].batch # p
  /\ p <= settled[d].batch

Reporting ==
  \A d \in Devices : \E p \in Nat :
    /\ Told(d, p)
    /\ (\A t \in Threads : at[t] > 1 => call[t].dev # d) => reported[d] = p
    /\ \A t \in Threads : at[t] > 1 /\ call[t].dev = d =>
         reported[d] = ReportedNow(call[t], at[t], settled[d], p)

LEMMA PushOneMore ==
  ASSUME NEW s \in Seq(Profiles), NEW q \in Seq(Profiles), NEW n \in Nat, n < Len(q)
  PROVE  Append(s \o SubSeq(q, 1, n), q[n + 1]) = s \o SubSeq(q, 1, n + 1)
<1> DEFINE b == SubSeq(q, 1, n)
           e == q[n + 1]
<1>1. b \in Seq(Profiles) /\ e \in Profiles /\ <<e>> \in Seq(Profiles)
  BY LenProperties, SubSeqProperties
<1>2. s \o b \in Seq(Profiles)
  BY <1>1, ConcatProperties
<1>3. SubSeq(q, 1, n + 1) = b \o <<e>>
  <2>1. n + 1 \in 1 .. Len(q) /\ 1 \in 1 .. Len(q) /\ n + 1 \in 1 .. Len(q) /\ (n + 1) - 1 = n
    BY LenProperties
  <2>2. SubSeq(q, 1, n + 1) = SubSeq(q, 1, (n + 1) - 1) \o <<q[n + 1]>>
    BY <2>1, SubSeqRecursiveSecond
  <2>3. QED
    BY <2>1, <2>2
<1> HIDE DEF b, e
<1>4. Append(s \o b, e) = (s \o b) \o <<e>>
  BY <1>1, <1>2, AppendIsConcat
<1>5. (s \o b) \o <<e>> = s \o (b \o <<e>>)
  BY <1>1, ConcatAssociative
<1>6. Append(s \o b, e) = s \o SubSeq(q, 1, n + 1)
  BY <1>3, <1>4, <1>5
<1>7. QED
  BY <1>6 DEF b, e

(* A statement of the owner of the lock disturbs nothing but its own call  *)
(* and its own device.                                                     *)
LEMMA OwnerStep ==
  ASSUME LockInv, Partial, NEW t \in Threads, at[t] > 1, at'[t] > 1,
         UNCHANGED <<call, settled>>,
         \A u \in Threads \ {t} : /\ at'[u] = at[u] /\ ~(at[u] > 1)
                                  /\ out'[u] = out[u] /\ pushed'[u] = pushed[u],
         \A d \in Devices \ {call[t].dev} :
            /\ m_vecProfileData'[d] = m_vecProfileData[d]
            /\ m_adwCount'[d] = m_adwCount[d]
            /\ m_adwNotify'[d] = m_adwNotify[d]
            /\ m_anBatchNo'[d] = m_anBatchNo[d],
         Halfway(t, call[t].dev)', Answered(t, call[t].dev)', Looped(t)'
  PROVE  Partial'
<1>1. \A d \in Devices : (\A u \in Threads : at'[u] > 1 => call'[u].dev # d) => Quiet(d)'
  <2> SUFFICES ASSUME NEW d \in Devices, \A u \in Threads : at'[u] > 1 => call'[u].dev # d
               PROVE  Quiet(d)'
    OBVIOUS
  <2>1. d # call[t].dev /\ (\A u \in Threads : at[u] > 1 => call[u].dev # d)
    OBVIOUS
  <2>2. Quiet(d)
    BY <2>1 DEF Partial
  <2>3. QED
    BY <2>1, <2>2 DEF Quiet
<1>2. \A u \in Threads : at'[u] > 1 => u = t
  OBVIOUS
<1>3. \A u \in Threads : at'[u] > 1 => Halfway(u, call[u].dev)' /\ Answered(u, call[u].dev)'
  BY <1>2
<1>4. \A u \in Threads : at'[u] = 1 => out'[u] = Blank
  <2> SUFFICES ASSUME NEW u \in Threads, at'[u] = 1 PROVE out'[u] = Blank
    OBVIOUS
  <2>1. u # t
    OBVIOUS
  <2>2. at[u] = 1 /\ out'[u] = out[u]
    BY <2>1
  <2>3. QED
    BY <2>2 DEF Partial
<1>5. \A u \in Threads : at'[u] > 0 => Looped(u)'
  <2> SUFFICES ASSUME NEW u \in Threads, at'[u] > 0 PROVE Looped(u)'
    OBVIOUS
  <2>1. CASE u = t
    BY <2>1
  <2>2. CASE u # t
    BY <2>2 DEF Partial, Looped
  <2>3. QED
    BY <2>1, <2>2
<1>6. QED
  BY <1>1, <1>3, <1>4, <1>5 DEF Partial

LEMMA CountPartial ==
  ASSUME TypeOK, LockInv, Partial, NEW t \in Threads, Count(t)
  PROVE  Partial'
<1> DEFINE c == call[t]
           d == call[t].dev
<1>1. /\ d \in Devices /\ c.op \in Ops /\ at[t] \in 1 .. Length[c.op]
      /\ Body[c.op][at[t]] = "count"
  BY AtStatement DEF Count
<1>2. (c.op = "Add" /\ at[t] = 3) \/ (c.op = "AddCount" /\ at[t] = 2)
  BY <1>1, Where
<1>3. /\ at'[t] = at[t] + 1 /\ at[t] > 1
      /\ \A u \in Threads \ {t} : at'[u] = at[u] /\ ~(at[u] > 1)
  BY AdvanceStays DEF Count
<1>4. /\ m_adwCount'[d] = Sum(m_adwCount[d], Announced(c))
      /\ \A e \in Devices \ {d} : m_adwCount'[e] = m_adwCount[e]
      /\ UNCHANGED <<m_vecProfileData, m_adwNotify, m_anBatchNo, pushed, out, call, settled>>
  BY <1>1 DEF Count, Advance, TypeOK
<1>5. Halfway(t, d) /\ Answered(t, d) /\ Looped(t)
  BY <1>2, <1>3 DEF Partial
<1>6. Halfway(t, d)'
  BY <1>2, <1>3, <1>4, <1>5 DEF Halfway, DataNow, CountNow, NotifyNow, BatchNow
<1>7. Answered(t, d)'
  BY <1>2, <1>3, <1>4, <1>5 DEF Answered, DataTaken, NotifyTaken, BatchTaken
<1>8. Looped(t)'
  BY <1>2, <1>3, <1>4, <1>5 DEF Looped
<1>9. at'[t] > 1
  BY <1>2, <1>3
<1> HIDE DEF c, d
<1>10. QED
  BY <1>3, <1>4, <1>6, <1>7, <1>8, <1>9, OwnerStep DEF c, d

LEMMA NotifyPartial ==
  ASSUME TypeOK, LockInv, Partial, NEW t \in Threads, Notify(t)
  PROVE  Partial'
<1> DEFINE c == call[t]
           d == call[t].dev
<1>1. /\ d \in Devices /\ c.op \in Ops /\ at[t] \in 1 .. Length[c.op]
      /\ Body[c.op][at[t]] = "notify"
  BY AtStatement DEF Notify
<1>2. (c.op = "Add" /\ at[t] = 4) \/ (c.op = "AddCount" /\ at[t] = 3)
  BY <1>1, Where
<1>3. /\ at'[t] = at[t] + 1 /\ at[t] > 1
      /\ \A u \in Threads \ {t} : at'[u] = at[u] /\ ~(at[u] > 1)
  BY AdvanceStays DEF Notify
<1>4. /\ m_adwNotify'[d] = m_adwNotify[d] \cup c.notify
      /\ \A e \in Devices \ {d} : m_adwNotify'[e] = m_adwNotify[e]
      /\ UNCHANGED <<m_vecProfileData, m_adwCount, m_anBatchNo, pushed, out, call, settled>>
  BY <1>1 DEF Notify, Advance, TypeOK, data
<1>5. Halfway(t, d) /\ Answered(t, d) /\ Looped(t)
  BY <1>2, <1>3 DEF Partial
<1>6. Halfway(t, d)'
  <2>1. m_vecProfileData'[d] = DataNow(c, at[t] + 1, settled[d], pushed[t])
    BY <1>2, <1>4, <1>5 DEF Halfway, DataNow
  <2>2. m_adwCount'[d] = CountNow(c, at[t] + 1, settled[d])
    BY <1>2, <1>4, <1>5 DEF Halfway, CountNow
  <2>3. m_adwNotify'[d] = NotifyNow(c, at[t] + 1, settled[d])
    BY <1>2, <1>4, <1>5 DEF Halfway, NotifyNow
  <2>4. m_anBatchNo'[d] = BatchNow(c, at[t] + 1, settled[d])
    BY <1>2, <1>4, <1>5 DEF Halfway, BatchNow
  <2>5. QED
    BY <1>3, <1>4, <2>1, <2>2, <2>3, <2>4 DEF Halfway
<1>7. Answered(t, d)'
  BY <1>2, <1>3, <1>4, <1>5 DEF Answered, DataTaken, NotifyTaken, BatchTaken
<1>8. Looped(t)'
  BY <1>2, <1>3, <1>4, <1>5 DEF Looped
<1>9. at'[t] > 1
  BY <1>2, <1>3
<1> HIDE DEF c, d
<1>10. QED
  BY <1>3, <1>4, <1>6, <1>7, <1>8, <1>9, OwnerStep DEF c, d

LEMMA ClearPartial ==
  ASSUME TypeOK, LockInv, Partial, NEW t \in Threads, Clear(t)
  PROVE  Partial'
<1> DEFINE c == call[t]
           d == call[t].dev
<1>1. /\ d \in Devices /\ c.op \in Ops /\ at[t] \in 1 .. Length[c.op]
      /\ Body[c.op][at[t]] = "clear"
  BY AtStatement DEF Clear
<1>2. (c.op = "Get" /\ at[t] = 3) \/ (c.op = "ClearBuffer" /\ at[t] = 2)
  BY <1>1, Where
<1>3. /\ at'[t] = at[t] + 1 /\ at[t] > 1
      /\ \A u \in Threads \ {t} : at'[u] = at[u] /\ ~(at[u] > 1)
  BY AdvanceStays DEF Clear
<1>4. /\ m_vecProfileData'[d] = <<>>
      /\ \A e \in Devices \ {d} : m_vecProfileData'[e] = m_vecProfileData[e]
      /\ UNCHANGED <<m_adwCount, m_adwNotify, m_anBatchNo, pushed, out, call, settled>>
  BY <1>1 DEF Clear, Advance, TypeOK, data
<1>5. Halfway(t, d) /\ Answered(t, d) /\ Looped(t)
  BY <1>2, <1>3 DEF Partial
<1>6. Halfway(t, d)'
  BY <1>2, <1>3, <1>4, <1>5 DEF Halfway, DataNow, CountNow, NotifyNow, BatchNow
<1>7. Answered(t, d)'
  BY <1>2, <1>3, <1>4, <1>5 DEF Answered, DataTaken, NotifyTaken, BatchTaken
<1>8. Looped(t)'
  BY <1>2, <1>3, <1>4, <1>5 DEF Looped
<1>9. at'[t] > 1
  BY <1>2, <1>3
<1> HIDE DEF c, d
<1>10. QED
  BY <1>3, <1>4, <1>6, <1>7, <1>8, <1>9, OwnerStep DEF c, d

LEMMA ZeroNotifyPartial ==
  ASSUME TypeOK, LockInv, Partial, NEW t \in Threads, ZeroNotify(t)
  PROVE  Partial'
<1> DEFINE c == call[t]
           d == call[t].dev
<1>1. /\ d \in Devices /\ c.op \in Ops /\ at[t] \in 1 .. Length[c.op]
      /\ Body[c.op][at[t]] = "zeroNotify"
  BY AtStatement DEF ZeroNotify
<1>2. (c.op = "Get" /\ at[t] = 5) \/ (c.op = "GetCount" /\ at[t] = 3) \/ (c.op = "ClearBuffer" /\ at[t] = 5)
  BY <1>1, Where
<1>3. /\ at'[t] = at[t] + 1 /\ at[t] > 1
      /\ \A u \in Threads \ {t} : at'[u] = at[u] /\ ~(at[u] > 1)
  BY AdvanceStays DEF ZeroNotify
<1>4. /\ m_adwNotify'[d] = {}
      /\ \A e \in Devices \ {d} : m_adwNotify'[e] = m_adwNotify[e]
      /\ UNCHANGED <<m_vecProfileData, m_adwCount, m_anBatchNo, pushed, out, call, settled>>
  BY <1>1 DEF ZeroNotify, Advance, TypeOK, data
<1>5. Halfway(t, d) /\ Answered(t, d) /\ Looped(t)
  BY <1>2, <1>3 DEF Partial
<1>6. Halfway(t, d)'
  <2>1. m_vecProfileData'[d] = DataNow(c, at[t] + 1, settled[d], pushed[t])
    BY <1>2, <1>4, <1>5 DEF Halfway, DataNow
  <2>2. m_adwCount'[d] = CountNow(c, at[t] + 1, settled[d])
    BY <1>2, <1>4, <1>5 DEF Halfway, CountNow
  <2>3. m_adwNotify'[d] = NotifyNow(c, at[t] + 1, settled[d])
    BY <1>2, <1>4, <1>5 DEF Halfway, NotifyNow
  <2>4. m_anBatchNo'[d] = BatchNow(c, at[t] + 1, settled[d])
    BY <1>2, <1>4, <1>5 DEF Halfway, BatchNow
  <2>5. QED
    BY <1>3, <1>4, <2>1, <2>2, <2>3, <2>4 DEF Halfway
<1>7. Answered(t, d)'
  BY <1>2, <1>3, <1>4, <1>5 DEF Answered, DataTaken, NotifyTaken, BatchTaken
<1>8. Looped(t)'
  BY <1>2, <1>3, <1>4, <1>5 DEF Looped
<1>9. at'[t] > 1
  BY <1>2, <1>3
<1> HIDE DEF c, d
<1>10. QED
  BY <1>3, <1>4, <1>6, <1>7, <1>8, <1>9, OwnerStep DEF c, d

LEMMA ZeroCountPartial ==
  ASSUME TypeOK, LockInv, Partial, NEW t \in Threads, ZeroCount(t)
  PROVE  Partial'
<1> DEFINE c == call[t]
           d == call[t].dev
<1>1. /\ d \in Devices /\ c.op \in Ops /\ at[t] \in 1 .. Length[c.op]
      /\ Body[c.op][at[t]] = "zeroCount"
  BY AtStatement DEF ZeroCount
<1>2. (c.op = "ClearBuffer" /\ at[t] = 3)
  BY <1>1, Where
<1>3. /\ at'[t] = at[t] + 1 /\ at[t] > 1
      /\ \A u \in Threads \ {t} : at'[u] = at[u] /\ ~(at[u] > 1)
  BY AdvanceStays DEF ZeroCount
<1>4. /\ m_adwCount'[d] = 0
      /\ \A e \in Devices \ {d} : m_adwCount'[e] = m_adwCount[e]
      /\ UNCHANGED <<m_vecProfileData, m_adwNotify, m_anBatchNo, pushed, out, call, settled>>
  BY <1>1 DEF ZeroCount, Advance, TypeOK, data
<1>5. Halfway(t, d) /\ Answered(t, d) /\ Looped(t)
  BY <1>2, <1>3 DEF Partial
<1>6. Halfway(t, d)'
  BY <1>2, <1>3, <1>4, <1>5 DEF Halfway, DataNow, CountNow, NotifyNow, BatchNow
<1>7. Answered(t, d)'
  BY <1>2, <1>3, <1>4, <1>5 DEF Answered, DataTaken, NotifyTaken, BatchTaken
<1>8. Looped(t)'
  BY <1>2, <1>3, <1>4, <1>5 DEF Looped
<1>9. at'[t] > 1
  BY <1>2, <1>3
<1> HIDE DEF c, d
<1>10. QED
  BY <1>3, <1>4, <1>6, <1>7, <1>8, <1>9, OwnerStep DEF c, d

LEMMA ZeroBatchPartial ==
  ASSUME TypeOK, LockInv, Partial, NEW t \in Threads, ZeroBatch(t)
  PROVE  Partial'
<1> DEFINE c == call[t]
           d == call[t].dev
<1>1. /\ d \in Devices /\ c.op \in Ops /\ at[t] \in 1 .. Length[c.op]
      /\ Body[c.op][at[t]] = "zeroBatch"
  BY AtStatement DEF ZeroBatch
<1>2. (c.op = "ClearBuffer" /\ at[t] = 4)
  BY <1>1, Where
<1>3. /\ at'[t] = at[t] + 1 /\ at[t] > 1
      /\ \A u \in Threads \ {t} : at'[u] = at[u] /\ ~(at[u] > 1)
  BY AdvanceStays DEF ZeroBatch
<1>4. /\ m_anBatchNo'[d] = 0
      /\ \A e \in Devices \ {d} : m_anBatchNo'[e] = m_anBatchNo[e]
      /\ UNCHANGED <<m_vecProfileData, m_adwCount, m_adwNotify, pushed, out, call, settled>>
  BY <1>1 DEF ZeroBatch, Advance, TypeOK, data
<1>5. Halfway(t, d) /\ Answered(t, d) /\ Looped(t)
  BY <1>2, <1>3 DEF Partial
<1>6. Halfway(t, d)'
  BY <1>2, <1>3, <1>4, <1>5 DEF Halfway, DataNow, CountNow, NotifyNow, BatchNow
<1>7. Answered(t, d)'
  BY <1>2, <1>3, <1>4, <1>5 DEF Answered, DataTaken, NotifyTaken, BatchTaken
<1>8. Looped(t)'
  BY <1>2, <1>3, <1>4, <1>5 DEF Looped
<1>9. at'[t] > 1
  BY <1>2, <1>3
<1> HIDE DEF c, d
<1>10. QED
  BY <1>3, <1>4, <1>6, <1>7, <1>8, <1>9, OwnerStep DEF c, d

LEMMA BatchPartial ==
  ASSUME TypeOK, LockInv, Partial, NEW t \in Threads, Batch(t)
  PROVE  Partial'
<1> DEFINE c == call[t]
           d == call[t].dev
<1>1. /\ d \in Devices /\ c.op \in Ops /\ at[t] \in 1 .. Length[c.op]
      /\ Body[c.op][at[t]] = "batch"
  BY AtStatement DEF Batch
<1>2. (c.op = "Add" /\ at[t] = 5) \/ (c.op = "AddCount" /\ at[t] = 4)
  BY <1>1, Where
<1>3. /\ at'[t] = at[t] + 1 /\ at[t] > 1
      /\ \A u \in Threads \ {t} : at'[u] = at[u] /\ ~(at[u] > 1)
  BY AdvanceStays DEF Batch
<1>4. /\ m_anBatchNo'[d] = IF BatchOver(c) THEN m_anBatchNo[d] + 1 ELSE m_anBatchNo[d]
      /\ \A e \in Devices \ {d} : m_anBatchNo'[e] = m_anBatchNo[e]
      /\ UNCHANGED <<m_vecProfileData, m_adwCount, m_adwNotify, pushed, out, call, settled>>
  BY <1>1 DEF Batch, Advance, TypeOK, data
<1>5. Halfway(t, d) /\ Answered(t, d) /\ Looped(t)
  BY <1>2, <1>3 DEF Partial
<1>6. Halfway(t, d)'
  BY <1>2, <1>3, <1>4, <1>5 DEF Halfway, DataNow, CountNow, NotifyNow, BatchNow
<1>7. Answered(t, d)'
  BY <1>2, <1>3, <1>4, <1>5 DEF Answered, DataTaken, NotifyTaken, BatchTaken
<1>8. Looped(t)'
  BY <1>2, <1>3, <1>4, <1>5 DEF Looped
<1>9. at'[t] > 1
  BY <1>2, <1>3
<1> HIDE DEF c, d
<1>10. QED
  BY <1>3, <1>4, <1>6, <1>7, <1>8, <1>9, OwnerStep DEF c, d

LEMMA CopyPartial ==
  ASSUME TypeOK, LockInv, Partial, NEW t \in Threads, Copy(t)
  PROVE  Partial'
<1> DEFINE c == call[t]
           d == call[t].dev
<1>1. /\ d \in Devices /\ c.op \in Ops /\ at[t] \in 1 .. Length[c.op]
      /\ Body[c.op][at[t]] = "copy"
  BY AtStatement DEF Copy
<1>2. (c.op = "Get" /\ at[t] = 2)
  BY <1>1, Where
<1>3. /\ at'[t] = at[t] + 1 /\ at[t] > 1
      /\ \A u \in Threads \ {t} : at'[u] = at[u] /\ ~(at[u] > 1)
  BY AdvanceStays DEF Copy
<1>4. /\ out'[t].data = m_vecProfileData[d]
      /\ out'[t].count = out[t].count /\ out'[t].notify = out[t].notify
      /\ out'[t].batch = out[t].batch /\ out'[t].threw = out[t].threw
      /\ \A u \in Threads \ {t} : out'[u] = out[u]
      /\ UNCHANGED <<m_vecProfileData, m_adwCount, m_adwNotify, m_anBatchNo, pushed, call, settled>>
  BY <1>1 DEF Copy, Advance, TypeOK, data
<1>5. Halfway(t, d) /\ Answered(t, d) /\ Looped(t)
  BY <1>2, <1>3 DEF Partial
<1>6. Halfway(t, d)'
  BY <1>2, <1>3, <1>4, <1>5 DEF Halfway, DataNow, CountNow, NotifyNow, BatchNow
<1>7. Answered(t, d)'
  <2>1. ~out'[t].threw
    BY <1>4, <1>5 DEF Answered
  <2>2. out'[t].count = 0
    BY <1>4, <1>5 DEF Answered
  <2>3. out'[t].data = DataTaken(c, at[t] + 1, settled[d])
    BY <1>2, <1>4, <1>5 DEF Answered, DataTaken, Halfway, DataNow
  <2>4. out'[t].notify = NotifyTaken(c, at[t] + 1, settled[d])
    BY <1>2, <1>4, <1>5 DEF Answered, NotifyTaken, Halfway, NotifyNow
  <2>5. out'[t].batch = BatchTaken(c, at[t] + 1, settled[d])
    BY <1>2, <1>4, <1>5 DEF Answered, BatchTaken, Halfway, BatchNow
  <2>6. call' = call /\ settled' = settled /\ at'[t] = at[t] + 1
    BY <1>3, <1>4
  <2>7. QED
    BY <2>1, <2>2, <2>3, <2>4, <2>5, <2>6 DEF Answered
<1>8. Looped(t)'
  BY <1>2, <1>3, <1>4, <1>5 DEF Looped
<1>9. at'[t] > 1
  BY <1>2, <1>3
<1> HIDE DEF c, d
<1>10. QED
  BY <1>3, <1>4, <1>6, <1>7, <1>8, <1>9, OwnerStep DEF c, d

LEMMA TakeNotifyPartial ==
  ASSUME TypeOK, LockInv, Partial, NEW t \in Threads, TakeNotify(t)
  PROVE  Partial'
<1> DEFINE c == call[t]
           d == call[t].dev
<1>1. /\ d \in Devices /\ c.op \in Ops /\ at[t] \in 1 .. Length[c.op]
      /\ Body[c.op][at[t]] = "takeNotify"
  BY AtStatement DEF TakeNotify
<1>2. (c.op = "Get" /\ at[t] = 4) \/ (c.op = "GetCount" /\ at[t] = 2)
  BY <1>1, Where
<1>3. /\ at'[t] = at[t] + 1 /\ at[t] > 1
      /\ \A u \in Threads \ {t} : at'[u] = at[u] /\ ~(at[u] > 1)
  BY AdvanceStays DEF TakeNotify
<1>4. /\ out'[t].notify = m_adwNotify[d]
      /\ out'[t].data = out[t].data /\ out'[t].count = out[t].count
      /\ out'[t].batch = out[t].batch /\ out'[t].threw = out[t].threw
      /\ \A u \in Threads \ {t} : out'[u] = out[u]
      /\ UNCHANGED <<m_vecProfileData, m_adwCount, m_adwNotify, m_anBatchNo, pushed, call, settled>>
  BY <1>1 DEF TakeNotify, Advance, TypeOK, data
<1>5. Halfway(t, d) /\ Answered(t, d) /\ Looped(t)
  BY <1>2, <1>3 DEF Partial
<1>6. Halfway(t, d)'
  BY <1>2, <1>3, <1>4, <1>5 DEF Halfway, DataNow, CountNow, NotifyNow, BatchNow
<1>7. Answered(t, d)'
  <2>1. ~out'[t].threw
    BY <1>4, <1>5 DEF Answered
  <2>2. out'[t].count = 0
    BY <1>4, <1>5 DEF Answered
  <2>3. out'[t].data = DataTaken(c, at[t] + 1, settled[d])
    BY <1>2, <1>4, <1>5 DEF Answered, DataTaken, Halfway, DataNow
  <2>4. out'[t].notify = NotifyTaken(c, at[t] + 1, settled[d])
    BY <1>2, <1>4, <1>5 DEF Answered, NotifyTaken, Halfway, NotifyNow
  <2>5. out'[t].batch = BatchTaken(c, at[t] + 1, settled[d])
    BY <1>2, <1>4, <1>5 DEF Answered, BatchTaken, Halfway, BatchNow
  <2>6. call' = call /\ settled' = settled /\ at'[t] = at[t] + 1
    BY <1>3, <1>4
  <2>7. QED
    BY <2>1, <2>2, <2>3, <2>4, <2>5, <2>6 DEF Answered
<1>8. Looped(t)'
  BY <1>2, <1>3, <1>4, <1>5 DEF Looped
<1>9. at'[t] > 1
  BY <1>2, <1>3
<1> HIDE DEF c, d
<1>10. QED
  BY <1>3, <1>4, <1>6, <1>7, <1>8, <1>9, OwnerStep DEF c, d

LEMMA TakeBatchPartial ==
  ASSUME TypeOK, LockInv, Partial, NEW t \in Threads, TakeBatch(t)
  PROVE  Partial'
<1> DEFINE c == call[t]
           d == call[t].dev
<1>1. /\ d \in Devices /\ c.op \in Ops /\ at[t] \in 1 .. Length[c.op]
      /\ Body[c.op][at[t]] = "takeBatch"
  BY AtStatement DEF TakeBatch
<1>2. (c.op = "Get" /\ at[t] = 6) \/ (c.op = "GetCount" /\ at[t] = 4)
  BY <1>1, Where
<1>3. /\ at'[t] = at[t] + 1 /\ at[t] > 1
      /\ \A u \in Threads \ {t} : at'[u] = at[u] /\ ~(at[u] > 1)
  BY AdvanceStays DEF TakeBatch
<1>4. /\ out'[t].batch = m_anBatchNo[d]
      /\ out'[t].data = out[t].data /\ out'[t].count = out[t].count
      /\ out'[t].notify = out[t].notify /\ out'[t].threw = out[t].threw
      /\ \A u \in Threads \ {t} : out'[u] = out[u]
      /\ UNCHANGED <<m_vecProfileData, m_adwCount, m_adwNotify, m_anBatchNo, pushed, call, settled>>
  BY <1>1 DEF TakeBatch, Advance, TypeOK, data
<1>5. Halfway(t, d) /\ Answered(t, d) /\ Looped(t)
  BY <1>2, <1>3 DEF Partial
<1>6. Halfway(t, d)'
  BY <1>2, <1>3, <1>4, <1>5 DEF Halfway, DataNow, CountNow, NotifyNow, BatchNow
<1>7. Answered(t, d)'
  <2>1. ~out'[t].threw
    BY <1>4, <1>5 DEF Answered
  <2>2. out'[t].count = 0
    BY <1>4, <1>5 DEF Answered
  <2>3. out'[t].data = DataTaken(c, at[t] + 1, settled[d])
    BY <1>2, <1>4, <1>5 DEF Answered, DataTaken, Halfway, DataNow
  <2>4. out'[t].notify = NotifyTaken(c, at[t] + 1, settled[d])
    BY <1>2, <1>4, <1>5 DEF Answered, NotifyTaken, Halfway, NotifyNow
  <2>5. out'[t].batch = BatchTaken(c, at[t] + 1, settled[d])
    BY <1>2, <1>4, <1>5 DEF Answered, BatchTaken, Halfway, BatchNow
  <2>6. call' = call /\ settled' = settled /\ at'[t] = at[t] + 1
    BY <1>3, <1>4
  <2>7. QED
    BY <2>1, <2>2, <2>3, <2>4, <2>5, <2>6 DEF Answered
<1>8. Looped(t)'
  BY <1>2, <1>3, <1>4, <1>5 DEF Looped
<1>9. at'[t] > 1
  BY <1>2, <1>3
<1> HIDE DEF c, d
<1>10. QED
  BY <1>3, <1>4, <1>6, <1>7, <1>8, <1>9, OwnerStep DEF c, d

LEMMA PushDonePartial ==
  ASSUME TypeOK, LockInv, Partial, NEW t \in Threads, PushDone(t)
  PROVE  Partial'
<1> DEFINE c == call[t]
           d == call[t].dev
<1>1. /\ d \in Devices /\ c.op \in Ops /\ at[t] \in 1 .. Length[c.op]
      /\ Body[c.op][at[t]] = "push" /\ c.data \in Seq(Profiles)
  BY AtStatement DEF PushDone
<1>2. c.op = "Add" /\ at[t] = 2
  BY <1>1, Where
<1>3. /\ at'[t] = at[t] + 1 /\ at[t] > 1
      /\ \A u \in Threads \ {t} : at'[u] = at[u] /\ ~(at[u] > 1)
  BY AdvanceStays DEF PushDone
<1>4. UNCHANGED <<m_vecProfileData, m_adwCount, m_adwNotify, m_anBatchNo, pushed, out, call,
                  settled>>
  BY DEF PushDone, Advance, data
<1>5. Halfway(t, d) /\ Answered(t, d) /\ Looped(t)
  BY <1>2, <1>3 DEF Partial
<1>6. Halfway(t, d)'
  <2>1. DataNow(c, 3, settled[d], pushed[t]) = DataNow(c, 2, settled[d], pushed[t])
    BY <1>2 DEF DataNow
  <2>2. CountNow(c, 3, settled[d]) = CountNow(c, 2, settled[d])
    BY <1>2 DEF CountNow
  <2>3. NotifyNow(c, 3, settled[d]) = NotifyNow(c, 2, settled[d])
    BY <1>2 DEF NotifyNow
  <2>4. BatchNow(c, 3, settled[d]) = BatchNow(c, 2, settled[d])
    BY <1>2 DEF BatchNow
  <2>5. at[t] = 2 /\ at'[t] = 3
    BY <1>2, <1>3
  <2>6. QED
    BY <1>4, <1>5, <2>1, <2>2, <2>3, <2>4, <2>5 DEF Halfway
<1>7. Answered(t, d)'
  BY <1>2, <1>3, <1>4, <1>5 DEF Answered, DataTaken, NotifyTaken, BatchTaken
<1>8. Looped(t)'
  <2>1. pushed[t] \in Nat /\ Len(c.data) \in Nat
    BY <1>1, LenProperties DEF TypeOK
  <2>2. pushed[t] = Len(c.data)
    BY <1>2, <1>5, <2>1 DEF PushDone, Looped
  <2>3. QED
    BY <1>2, <1>3, <1>4, <2>2 DEF Looped
<1>9. at'[t] > 1
  BY <1>2, <1>3
<1> HIDE DEF c, d
<1>10. QED
  BY <1>3, <1>4, <1>6, <1>7, <1>8, <1>9, OwnerStep DEF c, d

LEMMA PushPartial ==
  ASSUME TypeOK, LockInv, Partial, NEW t \in Threads, Push(t)
  PROVE  Partial'
<1> DEFINE c == call[t]
           d == call[t].dev
           n == pushed[t]
<1>1. /\ d \in Devices /\ c.op \in Ops /\ at[t] \in 1 .. Length[c.op]
      /\ Body[c.op][at[t]] = "push" /\ c.data \in Seq(Profiles)
      /\ at[t] > 1 /\ m_csDataAccess = t
  BY AtStatement DEF Push
<1>2. c.op = "Add" /\ at[t] = 2 /\ n \in Nat /\ n < Len(c.data) /\ Len(c.data) \in Nat
  <2>1. c.op = "Add" /\ at[t] = 2
    BY <1>1, Where
  <2>2. Len(c.data) \in Nat
    BY <1>1, LenProperties
  <2>3. n \in Nat /\ n < Len(c.data)
    BY DEF Push, TypeOK
  <2>4. QED
    BY <2>1, <2>2, <2>3
<1>3. \A u \in Threads \ {t} : ~(at[u] > 1)
  BY <1>1 DEF LockInv
<1>4. /\ m_vecProfileData'[d] = Append(m_vecProfileData[d], c.data[n + 1])
      /\ \A e \in Devices \ {d} : m_vecProfileData'[e] = m_vecProfileData[e]
      /\ pushed'[t] = n + 1
      /\ \A u \in Threads \ {t} : pushed'[u] = pushed[u]
      /\ UNCHANGED <<m_adwCount, m_adwNotify, m_anBatchNo, out, call, settled, at>>
  BY <1>1 DEF Push, TypeOK
<1>5. Halfway(t, d) /\ Answered(t, d) /\ Looped(t)
  BY <1>2, <1>3 DEF Partial
<1>6. Halfway(t, d)'
  <2>1. m_vecProfileData[d] = settled[d].data \o SubSeq(c.data, 1, n)
    BY <1>2, <1>5 DEF Halfway, DataNow
  <2>2. settled[d].data \in Seq(Profiles)
    BY <1>1 DEF TypeOK, Records
  <2>3. Append(settled[d].data \o SubSeq(c.data, 1, n), c.data[n + 1]) =
          settled[d].data \o SubSeq(c.data, 1, n + 1)
    BY <1>1, <1>2, <2>2, PushOneMore
  <2>4. m_vecProfileData'[d] = settled[d].data \o SubSeq(c.data, 1, n + 1)
    BY <1>4, <2>1, <2>3
  <2>5. m_vecProfileData'[d] = DataNow(c, at[t], settled[d], n + 1)
    BY <1>2, <2>4 DEF DataNow
  <2>6. QED
    BY <1>4, <1>5, <2>5 DEF Halfway
<1>7. Answered(t, d)'
  BY <1>4, <1>5 DEF Answered
<1>8. Looped(t)'
  BY <1>2, <1>4 DEF Looped
<1> HIDE DEF c, d, n
<1>9. at'[t] > 1 /\ UNCHANGED <<call, settled>>
  BY <1>1, <1>4
<1>10. \A u \in Threads \ {t} : /\ at'[u] = at[u] /\ ~(at[u] > 1)
                               /\ out'[u] = out[u] /\ pushed'[u] = pushed[u]
  BY <1>3, <1>4
<1>11. \A e \in Devices \ {d} : /\ m_vecProfileData'[e] = m_vecProfileData[e]
                              /\ m_adwCount'[e] = m_adwCount[e]
                              /\ m_adwNotify'[e] = m_adwNotify[e]
                              /\ m_anBatchNo'[e] = m_anBatchNo[e]
  BY <1>4
<1>12. QED
  BY <1>1, <1>6, <1>7, <1>8, <1>9, <1>10, <1>11, OwnerStep DEF c, d

LEMMA InitPartial == Init => Partial
<1> SUFFICES ASSUME Init PROVE Partial
  OBVIOUS
<1>1. \A t \in Threads : ~(at[t] > 1) /\ at[t] # 1 /\ ~(at[t] > 0)
  <2>1. \A t \in Threads : at[t] = 0
    BY DEF Init
  <2> TAKE t \in Threads
  <2>2. at[t] = 0
    BY <2>1
  <2>3. QED
    BY <2>2
<1>2. \A d \in Devices : Quiet(d)
  BY DEF Init, Contents, Quiet
<1>3. QED
  BY <1>1, <1>2 DEF Partial

LEMMA BeginPartial ==
  ASSUME TypeOK, LockInv, Partial, NEW t \in Threads, NEW c \in Calls, Begin(t, c)
  PROVE  Partial'
<1>1. /\ at[t] = 0 /\ at'[t] = 1 /\ out'[t] = Blank /\ pushed'[t] = 0
      /\ \A u \in Threads \ {t} : /\ at'[u] = at[u] /\ call'[u] = call[u]
                                /\ out'[u] = out[u] /\ pushed'[u] = pushed[u]
      /\ UNCHANGED <<m_vecProfileData, m_adwCount, m_adwNotify, m_anBatchNo, settled>>
  BY DEF Begin, TypeOK, data
<1>2. \A u \in Threads : at'[u] > 1 => u # t /\ at[u] > 1
  BY <1>1
<1>3. ASSUME NEW d \in Devices, \A u \in Threads : at'[u] > 1 => call'[u].dev # d
      PROVE  Quiet(d)'
  <2>1. \A u \in Threads : at[u] > 1 => call[u].dev # d
    BY <1>1, <1>3
  <2>2. Quiet(d)
    BY <2>1 DEF Partial
  <2>3. QED
    BY <1>1, <2>2 DEF Quiet
<1>4. ASSUME NEW u \in Threads, at'[u] > 1
      PROVE  Halfway(u, call[u].dev)' /\ Answered(u, call[u].dev)'
  <2>1. Halfway(u, call[u].dev) /\ Answered(u, call[u].dev) /\ u # t
    BY <1>2, <1>4 DEF Partial
  <2>2. QED
    BY <1>1, <2>1 DEF Halfway, Answered
<1>5. ASSUME NEW u \in Threads, at'[u] = 1 PROVE out'[u] = Blank
  BY <1>1, <1>5 DEF Partial
<1>6. ASSUME NEW u \in Threads, at'[u] > 0 PROVE Looped(u)'
  <2>1. CASE u = t
    BY <1>1, <2>1 DEF Looped
  <2>2. CASE u # t
    BY <1>1, <1>6, <2>2 DEF Partial, Looped
  <2>3. QED
    BY <2>1, <2>2
<1>7. QED
  BY <1>3, <1>4, <1>5, <1>6 DEF Partial

LEMMA LockPartial ==
  ASSUME TypeOK, LockInv, Partial, NEW t \in Threads, Lock(t)
  PROVE  Partial'
<1> DEFINE c == call[t]
           d == call[t].dev
<1>1. c.op \in Ops /\ d \in Devices /\ c.data \in Seq(Profiles)
  BY AtStatement DEF Lock
<1>2. /\ at[t] = 1 /\ at'[t] = 2
      /\ \A u \in Threads \ {t} : at'[u] = at[u] /\ ~(at[u] > 1)
  BY LockTypes
<1>3. UNCHANGED <<m_vecProfileData, m_adwCount, m_adwNotify, m_anBatchNo, settled, pushed, out,
                  call>>
  BY DEF Lock, data
<1>4. \A e \in Devices : Quiet(e)
  <2>1. \A u \in Threads : ~(at[u] > 1)
    BY <1>2
  <2>2. QED
    BY <2>1 DEF Partial
<1>5. out[t] = Blank /\ pushed[t] = 0
  BY <1>2 DEF Partial, Looped
<1>6. Halfway(t, d)'
  <2>1. settled[d].data \o SubSeq(c.data, 1, 0) = settled[d].data
    <3>1. SubSeq(c.data, 1, 0) = <<>>
      BY SubSeqEmpty
    <3>2. settled[d].data \in Seq(Profiles)
      BY <1>1 DEF TypeOK, Records
    <3>3. QED
      BY <3>1, <3>2, ConcatEmptySeq
  <2>2. m_vecProfileData[d] = DataNow(c, 2, settled[d], 0)
    <3>1. m_vecProfileData[d] = settled[d].data
      BY <1>1, <1>4 DEF Quiet
    <3>2. CASE c.op = "Add"
      BY <3>1, <3>2, <2>1 DEF DataNow
    <3>3. CASE c.op # "Add"
      BY <3>1, <3>3 DEF DataNow
    <3>4. QED
      BY <3>2, <3>3
  <2>3. m_adwCount[d] = CountNow(c, 2, settled[d])
    BY <1>1, <1>4 DEF Quiet, CountNow
  <2>4. m_adwNotify[d] = NotifyNow(c, 2, settled[d])
    BY <1>1, <1>4 DEF Quiet, NotifyNow
  <2>5. m_anBatchNo[d] = BatchNow(c, 2, settled[d])
    BY <1>1, <1>4 DEF Quiet, BatchNow
  <2>6. QED
    BY <1>2, <1>3, <1>5, <2>2, <2>3, <2>4, <2>5 DEF Halfway
<1>7. Answered(t, d)'
  <2>1. /\ DataTaken(c, 2, settled[d]) = <<>> /\ NotifyTaken(c, 2, settled[d]) = {}
        /\ BatchTaken(c, 2, settled[d]) = 0
    BY DEF DataTaken, NotifyTaken, BatchTaken
  <2>2. /\ out[t].data = <<>> /\ out[t].notify = {} /\ out[t].batch = 0
        /\ out[t].count = 0 /\ ~out[t].threw
    BY <1>5 DEF Blank
  <2>3. QED
    BY <1>2, <1>3, <2>1, <2>2 DEF Answered
<1>8. Looped(t)'
  <2>1. Len(c.data) \in Nat
    BY <1>1, LenProperties
  <2>2. QED
    BY <1>2, <1>3, <1>5, <2>1 DEF Looped
<1> HIDE DEF c, d
<1>9. ASSUME NEW e \in Devices, \A u \in Threads : at'[u] > 1 => call'[u].dev # e
      PROVE  Quiet(e)'
  BY <1>3, <1>4 DEF Quiet
<1>10. ASSUME NEW u \in Threads, at'[u] > 1
       PROVE  Halfway(u, call[u].dev)' /\ Answered(u, call[u].dev)'
  <2>1. u = t
    BY <1>2, <1>10
  <2>2. QED
    BY <1>6, <1>7, <2>1 DEF c, d
<1>11. ASSUME NEW u \in Threads, at'[u] = 1 PROVE out'[u] = Blank
  BY <1>2, <1>3, <1>11 DEF Partial
<1>12. ASSUME NEW u \in Threads, at'[u] > 0 PROVE Looped(u)'
  <2>1. CASE u = t
    BY <1>8, <2>1
  <2>2. CASE u # t
    BY <1>2, <1>3, <1>12, <2>2 DEF Partial, Looped
  <2>3. QED
    BY <2>1, <2>2
<1>13. QED
  BY <1>9, <1>10, <1>11, <1>12 DEF Partial

LEMMA LeavePartial ==
  ASSUME TypeOK, LockInv, Partial, NEW t \in Threads, m_csDataAccess = t, Leave(t),
         \A u \in Threads \ {t} : out'[u] = out[u]
  PROVE  Partial'
<1>1. /\ at'[t] = 0
      /\ \A u \in Threads \ {t} : at'[u] = at[u] /\ ~(at[u] > 1) /\ call'[u] = call[u]
      /\ UNCHANGED <<m_vecProfileData, m_adwCount, m_adwNotify, m_anBatchNo, pushed>>
  BY DEF Leave, TypeOK, LockInv, data
<1>2. \A d \in Devices : Quiet(d)'
  BY <1>1 DEF Leave, Contents, Quiet
<1>3. \A u \in Threads : ~(at'[u] > 1)
  BY <1>1
<1>4. ASSUME NEW u \in Threads, at'[u] = 1 PROVE out'[u] = Blank
  BY <1>1, <1>4 DEF Partial
<1>5. ASSUME NEW u \in Threads, at'[u] > 0 PROVE Looped(u)'
  <2>1. u # t /\ at[u] > 0
    BY <1>1, <1>5
  <2>2. QED
    BY <1>1, <2>1 DEF Partial, Looped
<1>6. QED
  BY <1>2, <1>3, <1>4, <1>5 DEF Partial

-----------------------------------------------------------------------------
(* The inductive invariant *)
IInv == TypeOK /\ LockInv /\ Partial

LEMMA WayOut ==
  ASSUME TypeOK, NEW t \in Threads, Unlock(t) \/ Return(t) \/ Throw(t)
  PROVE  Leave(t) /\ (\A u \in Threads \ {t} : out'[u] = out[u])
<1>1. Leave(t)
  BY DEF Unlock, Return, Throw
<1>2. \/ out' = out
      \/ out' = [out EXCEPT ![t] = [out[t] EXCEPT !.count = m_adwCount[call[t].dev]]]
      \/ out' = [out EXCEPT ![t] = [Blank EXCEPT !.threw = TRUE]]
  BY DEF Unlock, Return, Throw
<1>3. QED
  BY <1>1, <1>2 DEF TypeOK

LEMMA Inductive == IInv /\ [Next]_vars => IInv'
<1> SUFFICES ASSUME TypeOK, LockInv, Partial, [Next]_vars
             PROVE  TypeOK' /\ LockInv' /\ Partial'
  BY DEF IInv
<1>1. CASE UNCHANGED vars
  BY <1>1 DEF vars, data, TypeOK, LockInv, Partial, Quiet, Halfway, Answered, Looped
<1>2. ASSUME NEW t \in Threads, NEW c \in Calls, Begin(t, c)
      PROVE  TypeOK' /\ LockInv' /\ Partial'
  BY <1>2, BeginTypes, BeginPartial
<1>3. ASSUME NEW t \in Threads, Unlock(t) \/ Return(t) \/ Throw(t)
      PROVE  TypeOK' /\ LockInv' /\ Partial'
  BY <1>3, LeaveTypes, WayOut, LeavePartial
<1>4. ASSUME NEW t \in Threads, Statement(t)
      PROVE  TypeOK' /\ LockInv' /\ Partial'
  <2>1. TypeOK' /\ LockInv'
    BY <1>4, LockTypes, LeaveTypes, PushTypes, CountTypes, NotifyTypes, BatchTypes,
       TakeTypes, ClearTypes DEF Statement
  <2>2. Partial'
    BY <1>3, <1>4, LockPartial, PushPartial, PushDonePartial, CountPartial, NotifyPartial,
       BatchPartial, CopyPartial, ClearPartial, TakeNotifyPartial, ZeroNotifyPartial,
       TakeBatchPartial, ZeroCountPartial, ZeroBatchPartial DEF Statement
  <2>3. QED
    BY <2>1, <2>2
<1>5. QED
  BY <1>1, <1>2, <1>3, <1>4 DEF Next

LEMMA Invariant == Spec => []IInv
<1>1. Init => IInv
  BY InitTypes, InitPartial DEF IInv
<1>2. QED
  BY <1>1, Inductive, PTL DEF Spec

(* The vectors, counts, flags and batch numbers of every device and the    *)
(* replies keep their types; a count stays below 2^32 by wrapping around.  *)
THEOREM Typing == Spec => []TypeOK
<1>1. IInv => TypeOK
  BY DEF IInv
<1>2. QED
  BY <1>1, Invariant, PTL

-----------------------------------------------------------------------------
(* The effect of a whole call *)

LEMMA SameRecord ==
  ASSUME NEW a \in Records, NEW b \in Records,
         a.data = b.data, a.count = b.count, a.notify = b.notify, a.batch = b.batch
  PROVE  a = b
BY DEF Records

LEMMA SameReply ==
  ASSUME NEW a \in Replies, NEW b \in Replies,
         a.data = b.data, a.count = b.count, a.notify = b.notify, a.batch = b.batch,
         a.threw <=> b.threw
  PROVE  a = b
BY DEF Replies

(* The atomic effect of the abstract store, field by field, is what each   *)
(* operation has done when it stands at its last statement.                *)
LEMMA AppliedIsNow ==
  ASSUME NEW c \in Calls, NEW r \in Records
  PROVE  LET a == Store!Applied(c, r)
             k == Length[c.op]
         IN  /\ a \in Records
             /\ a.data = DataNow(c, k, r, Len(c.data))
             /\ a.count = CountNow(c, k, r)
             /\ a.notify = NotifyNow(c, k, r)
             /\ a.batch = BatchNow(c, k, r)
<1> DEFINE a == Store!Applied(c, r)
           k == Length[c.op]
<1>1. /\ c.op \in Ops /\ c.data \in Seq(Profiles) /\ c.count \in Nat
      /\ c.notify \in SUBSET Bits
  BY BufferAssumption
<1>2. /\ r.data \in Seq(Profiles) /\ r.count \in 0 .. CountSize - 1 /\ r.count \in Nat
      /\ r.notify \in SUBSET Bits /\ r.batch \in Nat /\ r.batch + 1 \in Nat
  BY BufferAssumption DEF Records
<1>3. Len(c.data) \in Nat
  BY <1>1, LenProperties
<1>4. /\ Announced(c) \in Nat /\ Announced(c) = Store!Added(c)
      /\ Sum(r.count, Announced(c)) \in 0 .. CountSize - 1
      /\ Sum(r.count, Announced(c)) = (r.count + Store!Added(c)) % CountSize
  <2>1. Announced(c) \in Nat /\ Announced(c) = Store!Added(c)
    BY <1>1, <1>3 DEF Announced, Store!Added
  <2>2. QED
    BY <1>2, <2>1, SumType DEF Sum
<1>5. LET b == Store!Counted(c, r)
      IN  /\ b \in Records /\ b.data = r.data
          /\ b.count = Sum(r.count, Announced(c))
          /\ b.notify = r.notify \cup c.notify
          /\ b.batch = IF BatchOver(c) THEN r.batch + 1 ELSE r.batch
  <2> DEFINE n == (r.count + Store!Added(c)) % CountSize
             f == r.notify \cup c.notify
             m == IF BatchOver(c) THEN r.batch + 1 ELSE r.batch
  <2>1. n \in 0 .. CountSize - 1 /\ n = Sum(r.count, Announced(c))
    BY <1>4
  <2>2. f \in SUBSET Bits /\ m \in Nat
    BY <1>1, <1>2
  <2>3. Store!Counted(c, r) = [r EXCEPT !.count = n, !.notify = f, !.batch = m]
    BY DEF Store!Counted, BatchOver
  <2> HIDE DEF n, f, m
  <2>4. Store!Counted(c, r) \in Records
    BY <2>1, <2>2, <2>3 DEF Records
  <2>5. /\ Store!Counted(c, r).data = r.data /\ Store!Counted(c, r).count = n
        /\ Store!Counted(c, r).notify = f /\ Store!Counted(c, r).batch = m
    BY <2>3 DEF Records
  <2>6. QED
    BY <2>1, <2>4, <2>5 DEF f, m
<1>6. CASE c.op = "Add"
  <2> DEFINE b == Store!Counted(c, r)
             s == r.data \o c.data
  <2>1. s \in Seq(Profiles) /\ s = r.data \o SubSeq(c.data, 1, Len(c.data))
    BY <1>1, <1>2, ConcatProperties, SubSeqFull
  <2>2. a = [b EXCEPT !.data = s]
    <3>1. b.data = r.data
      BY <1>5
    <3>2. a = [b EXCEPT !.data = b.data \o c.data]
      BY <1>6 DEF Store!Applied
    <3>3. QED
      BY <3>1, <3>2
  <2>3. b \in Records
    BY <1>5
  <2> HIDE DEF s, b
  <2>4. /\ a \in Records /\ a.data = s /\ a.count = b.count /\ a.notify = b.notify
        /\ a.batch = b.batch
    BY <2>1, <2>2, <2>3 DEF Records
  <2>5. DataNow(c, k, r, Len(c.data)) = s
    BY <1>6, <2>1 DEF DataNow
  <2>6. k = 6
    BY <1>6, Lengths
  <2>7. CountNow(c, k, r) = b.count /\ NotifyNow(c, k, r) = b.notify
    BY <1>5, <1>6, <2>6 DEF CountNow, NotifyNow, b
  <2>8. BatchNow(c, k, r) = b.batch
    BY <1>5, <1>6, <2>6 DEF BatchNow, b
  <2>9. QED
    BY <2>4, <2>5, <2>7, <2>8
<1>7. CASE c.op = "AddCount"
  <2>1. a = Store!Counted(c, r) /\ k = 5
    BY <1>7, Lengths DEF Store!Applied
  <2>2. DataNow(c, k, r, Len(c.data)) = r.data
    BY <1>7, <2>1 DEF DataNow
  <2>3. /\ CountNow(c, k, r) = Sum(r.count, Announced(c))
        /\ NotifyNow(c, k, r) = r.notify \cup c.notify
    BY <1>7, <2>1 DEF CountNow, NotifyNow
  <2>4. BatchNow(c, k, r) = IF BatchOver(c) THEN r.batch + 1 ELSE r.batch
    BY <1>7, <2>1 DEF BatchNow
  <2>5. QED
    BY <1>5, <2>1, <2>2, <2>3, <2>4
<1>8. CASE c.op = "Get"
  <2>1. a = [r EXCEPT !.data = <<>>, !.notify = {}] /\ k = 7
    BY <1>8, Lengths DEF Store!Applied
  <2>2. <<>> \in Seq(Profiles) /\ {} \in SUBSET Bits
    BY EmptySeq
  <2>3. a \in Records
    BY <2>1, <2>2 DEF Records
  <2>4. a.data = <<>> /\ a.count = r.count /\ a.notify = {} /\ a.batch = r.batch
    BY <2>1 DEF Records
  <2>5. QED
    BY <1>8, <2>1, <2>3, <2>4 DEF DataNow, CountNow, NotifyNow, BatchNow
<1>9. CASE c.op = "GetCount"
  <2>1. a = [r EXCEPT !.notify = {}] /\ k = 5
    BY <1>9, Lengths DEF Store!Applied
  <2>2. /\ a \in Records /\ a.data = r.data /\ a.count = r.count /\ a.notify = {}
        /\ a.batch = r.batch
    BY <2>1 DEF Records
  <2>3. QED
    BY <1>9, <2>1, <2>2 DEF DataNow, CountNow, NotifyNow, BatchNow
<1>10. CASE c.op = "ClearBuffer"
  <2>1. a = Store!Empty /\ k = 6
    BY <1>10, Lengths DEF Store!Applied
  <2>2. a \in Records /\ a.data = <<>> /\ a.count = 0 /\ a.notify = {} /\ a.batch = 0
    BY <2>1, BufferAssumption, EmptySeq DEF Records, Store!Empty
  <2>3. QED
    BY <1>10, <2>1, <2>2 DEF DataNow, CountNow, NotifyNow, BatchNow
<1>11. QED
  BY <1>1, <1>6, <1>7, <1>8, <1>9, <1>10 DEF Ops

(* Giving the lock back changes the settled record of no other device, and *)
(* settles what the call has done of its own.                              *)
LEMMA Settles ==
  ASSUME TypeOK, LockInv, Partial, NEW t \in Threads, at[t] > 1, call[t].dev \in Devices,
         Leave(t)
  PROVE  LET d == call[t].dev
             w == [data |-> m_vecProfileData[d], count |-> m_adwCount[d],
                   notify |-> m_adwNotify[d], batch |-> m_anBatchNo[d]]
         IN  w \in Records /\ settled' = [settled EXCEPT ![d] = w]
<1> DEFINE d == call[t].dev
           Now(e) == [data |-> m_vecProfileData[e], count |-> m_adwCount[e],
                      notify |-> m_adwNotify[e], batch |-> m_anBatchNo[e]]
<1>1. \A e \in Devices : Now(e) \in Records /\ settled[e] \in Records
  BY DEF TypeOK, Records
<1>2. \A u \in Threads \ {t} : ~(at[u] > 1)
  BY DEF LockInv
<1>3. ASSUME NEW e \in Devices, e # d PROVE Now(e) = settled[e]
  <2>1. \A u \in Threads : at[u] > 1 => call[u].dev # e
    BY <1>2, <1>3
  <2>2. Quiet(e)
    BY <2>1 DEF Partial
  <2>3. /\ Now(e).data = settled[e].data /\ Now(e).count = settled[e].count
        /\ Now(e).notify = settled[e].notify /\ Now(e).batch = settled[e].batch
    BY <2>2 DEF Quiet
  <2> HIDE DEF Now
  <2>4. QED
    BY <1>1, <2>3, SameRecord
<1>4. settled' = [e \in Devices |-> Now(e)]
  BY DEF Leave, Contents
<1> HIDE DEF Now
<1>5. settled' = [settled EXCEPT ![d] = Now(d)]
  BY <1>3, <1>4 DEF TypeOK
<1>6. QED
  BY <1>1, <1>5 DEF Now

(* What the threads see of the answers *)
Seen == [t \in Threads |-> IF at[t] = 0 THEN out[t] ELSE Blank]

LEMMA SeenOne ==
  ASSUME TypeOK, NEW t \in Threads, NEW r,
         \A u \in Threads \ {t} : at'[u] = at[u] /\ out'[u] = out[u],
         r = IF at'[t] = 0 THEN out'[t] ELSE Blank
  PROVE  Seen' = [Seen EXCEPT ![t] = r]
BY DEF Seen

(* The reply of a call that returns *)
LEMMA ReplyIsOut ==
  ASSUME TypeOK, LockInv, Partial, NEW t \in Threads, Unlock(t) \/ Return(t)
  PROVE  out'[t] = Store!Reply(call[t], settled[call[t].dev])
<1> DEFINE c == call[t]
           r == settled[call[t].dev]
           b == Store!Reply(c, r)
<1>1. /\ c \in Calls /\ c.op \in Ops /\ call[t].dev \in Devices
      /\ at[t] \in 1 .. Length[c.op] /\ at[t] > 1
      /\ Body[c.op][at[t]] \in {"Unlock", "return"}
  BY AtStatement DEF Unlock, Return
<1>2. at[t] = Length[c.op] /\ (c.op = "GetCount" <=> Body[c.op][at[t]] = "return")
  BY <1>1, Where, Lengths
<1>3. /\ r \in Records /\ r.data \in Seq(Profiles) /\ r.count \in 0 .. CountSize - 1
      /\ r.notify \in SUBSET Bits /\ r.batch \in Nat
  BY <1>1 DEF TypeOK, Records
<1>4. /\ Store!Blank \in Replies /\ Store!Blank.data = <<>> /\ Store!Blank.count = 0
      /\ Store!Blank.notify = {} /\ Store!Blank.batch = 0 /\ ~Store!Blank.threw
  BY BufferAssumption, EmptySeq DEF Store!Blank, Replies
<1>5. /\ out[t] \in Replies /\ Answered(t, call[t].dev) /\ Halfway(t, call[t].dev)
  BY <1>1 DEF TypeOK, Partial
<1>6. CASE c.op = "GetCount"
  <2>1. at[t] = 5 /\ Return(t)
    BY <1>1, <1>2, <1>6, Lengths DEF Unlock, At
  <2>2. m_adwCount[call[t].dev] = r.count
    BY <1>5, <1>6 DEF Halfway, CountNow
  <2>3. out'[t] = [out[t] EXCEPT !.count = r.count]
    BY <2>1, <2>2 DEF Return, TypeOK
  <2>4. /\ out'[t] \in Replies /\ out'[t].count = r.count /\ out'[t].data = out[t].data
        /\ out'[t].notify = out[t].notify /\ out'[t].batch = out[t].batch
        /\ (out'[t].threw <=> out[t].threw)
    BY <1>3, <1>5, <2>3 DEF Replies
  <2>5. out[t].data = <<>> /\ out[t].notify = r.notify /\ out[t].batch = r.batch
        /\ ~out[t].threw
    BY <1>5, <1>6, <2>1 DEF Answered, DataTaken, NotifyTaken, BatchTaken
  <2>6. b = [Store!Blank EXCEPT !.count = r.count, !.notify = r.notify, !.batch = r.batch]
    BY <1>6 DEF Store!Reply
  <2> HIDE DEF b
  <2>7. b \in Replies
    BY <1>3, <1>4, <2>6 DEF Replies
  <2>8. /\ b.data = <<>> /\ b.count = r.count /\ b.notify = r.notify /\ b.batch = r.batch
        /\ ~b.threw
    BY <1>4, <2>6 DEF Replies
  <2>9. out'[t] = b
    BY <2>4, <2>5, <2>7, <2>8, SameReply
  <2>10. QED
    BY <2>9 DEF b
<1>7. CASE c.op = "Get"
  <2>1. at[t] = 7 /\ out'[t] = out[t]
    BY <1>1, <1>2, <1>7, Lengths DEF Unlock, Return, At
  <2>2. /\ out[t].data = r.data /\ out[t].notify = r.notify /\ out[t].batch = r.batch
        /\ out[t].count = 0 /\ ~out[t].threw
    BY <1>5, <1>7, <2>1 DEF Answered, DataTaken, NotifyTaken, BatchTaken
  <2>3. b = [Store!Blank EXCEPT !.data = r.data, !.notify = r.notify, !.batch = r.batch]
    BY <1>7 DEF Store!Reply
  <2> HIDE DEF b
  <2>4. b \in Replies
    BY <1>3, <1>4, <2>3 DEF Replies
  <2>5. /\ b.data = r.data /\ b.count = 0 /\ b.notify = r.notify /\ b.batch = r.batch
        /\ ~b.threw
    BY <1>4, <2>3 DEF Replies
  <2>6. out'[t] = b
    BY <1>5, <2>1, <2>2, <2>4, <2>5, SameReply
  <2>7. QED
    BY <2>6 DEF b
<1>8. CASE c.op \notin {"Get", "GetCount"}
  <2>1. out'[t] = out[t]
    BY <1>1, <1>2, <1>8 DEF Unlock, Return, At
  <2>2. /\ out[t].data = <<>> /\ out[t].notify = {} /\ out[t].batch = 0
        /\ out[t].count = 0 /\ ~out[t].threw
    BY <1>5, <1>8 DEF Answered, DataTaken, NotifyTaken, BatchTaken
  <2>3. b = Store!Blank
    BY <1>8 DEF Store!Reply
  <2> HIDE DEF b
  <2>4. out'[t] = b
    BY <1>4, <1>5, <2>1, <2>2, <2>3, SameReply
  <2>5. QED
    BY <2>4 DEF b
<1>9. QED
  BY <1>6, <1>7, <1>8

(* The record of the device of a call that returns *)
LEMMA EffectIsApplied ==
  ASSUME TypeOK, LockInv, Partial, NEW t \in Threads, Unlock(t) \/ Return(t)
  PROVE  settled' = [settled EXCEPT ![call[t].dev] =
                       Store!Applied(call[t], settled[call[t].dev])]
<1> DEFINE c == call[t]
           d == call[t].dev
           r == settled[call[t].dev]
           a == Store!Applied(c, r)
           w == [data |-> m_vecProfileData[d], count |-> m_adwCount[d],
                 notify |-> m_adwNotify[d], batch |-> m_anBatchNo[d]]
<1>1. /\ c \in Calls /\ c.op \in Ops /\ d \in Devices
      /\ at[t] \in 1 .. Length[c.op] /\ at[t] > 1
      /\ Body[c.op][at[t]] \in {"Unlock", "return"} /\ Leave(t)
  BY AtStatement DEF Unlock, Return
<1>2. at[t] = Length[c.op]
  BY <1>1, Where, Lengths
<1>3. w \in Records /\ settled' = [settled EXCEPT ![d] = w]
  BY <1>1, Settles
<1>4. r \in Records
  BY <1>1 DEF TypeOK
<1>5. Halfway(t, d)
  BY <1>1 DEF Partial
<1>6. m_vecProfileData[d] = DataNow(c, at[t], r, Len(c.data))
  <2>1. CASE c.op = "Add"
    <3>1. at[t] = 6
      BY <1>2, <2>1, Lengths
    <3>2. pushed[t] = Len(c.data)
      BY <2>1, <3>1 DEF Partial, Looped
    <3>3. QED
      BY <1>5, <3>2 DEF Halfway
  <2>2. CASE c.op # "Add"
    BY <1>5, <2>2 DEF Halfway, DataNow
  <2>3. QED
    BY <2>1, <2>2
<1>7. /\ w.data = DataNow(c, at[t], r, Len(c.data)) /\ w.count = CountNow(c, at[t], r)
      /\ w.notify = NotifyNow(c, at[t], r) /\ w.batch = BatchNow(c, at[t], r)
  BY <1>5, <1>6 DEF Halfway
<1>8. /\ a \in Records
      /\ a.data = DataNow(c, at[t], r, Len(c.data)) /\ a.count = CountNow(c, at[t], r)
      /\ a.notify = NotifyNow(c, at[t], r) /\ a.batch = BatchNow(c, at[t], r)
  BY <1>1, <1>2, <1>4, AppliedIsNow
<1> HIDE DEF a, w
<1>9. w = a
  BY <1>3, <1>7, <1>8, SameRecord
<1>10. QED
  BY <1>3, <1>9 DEF a

(* A throw leaves what Add has pushed, or nothing.                         *)
LEMMA ThrowIsFail ==
  ASSUME TypeOK, LockInv, Partial, NEW t \in Threads, Throw(t)
  PROVE  Store!Fail(t)
<1> DEFINE c == call[t]
           d == call[t].dev
           r == settled[call[t].dev]
           w == [data |-> m_vecProfileData[d], count |-> m_adwCount[d],
                 notify |-> m_adwNotify[d], batch |-> m_anBatchNo[d]]
<1>1. Leave(t) /\ \A u \in Threads \ {t} : out'[u] = out[u]
  BY WayOut
<1>2. /\ c \in Calls /\ c.op \in Ops /\ d \in Devices /\ c.data \in Seq(Profiles)
      /\ at[t] \in 1 .. Length[c.op] /\ at[t] > 1
      /\ \/ Body[c.op][at[t]] = "copy"
         \/ Body[c.op][at[t]] = "push" /\ pushed[t] < Len(c.data)
  BY AtStatement DEF Throw
<1>3. c \in Calls /\ c # NoCall
  BY <1>2, BufferAssumption
<1>4. \/ c.op = "Get" /\ at[t] = 2
      \/ c.op = "Add" /\ at[t] = 2 /\ pushed[t] < Len(c.data)
  BY <1>2, Where
<1>5. w \in Records /\ settled' = [settled EXCEPT ![d] = w]
  BY <1>1, <1>2, Settles
<1>6. r \in Records /\ r.data \in Seq(Profiles)
  BY <1>2 DEF TypeOK, Records
<1>7. Halfway(t, d)
  BY <1>2 DEF Partial
<1>8. w.data = DataNow(c, 2, r, pushed[t]) /\ w.count = r.count /\ w.notify = r.notify
      /\ w.batch = r.batch
  BY <1>4, <1>7 DEF Halfway, CountNow, NotifyNow, BatchNow
<1>9. \/ c.op = "Get" /\ UNCHANGED settled
      \/ /\ c.op = "Add"
         /\ \E n \in 0 .. Len(c.data) :
              settled' = [settled EXCEPT ![d].data = @ \o SubSeq(c.data, 1, n)]
  <2>1. CASE c.op = "Get"
    <3>1. w.data = r.data
      BY <1>8, <2>1 DEF DataNow
    <3> HIDE DEF w
    <3>2. w = r
      BY <1>5, <1>6, <1>8, <3>1, SameRecord
    <3>3. settled' = settled
      BY <1>2, <1>5, <3>2 DEF TypeOK
    <3>4. QED
      BY <2>1, <3>3
  <2>2. CASE c.op = "Add"
    <3>1. pushed[t] \in 0 .. Len(c.data) /\ pushed[t] \in Nat
      <4>1. Len(c.data) \in Nat
        BY <1>2, LenProperties
      <4>2. pushed[t] \in Nat /\ pushed[t] < Len(c.data)
        BY <1>4, <2>2 DEF TypeOK
      <4>3. QED
        BY <4>1, <4>2
    <3> DEFINE more == r.data \o SubSeq(c.data, 1, pushed[t])
               x == [r EXCEPT !.data = more]
    <3>2. w.data = more
      BY <1>8, <2>2 DEF DataNow
    <3>3. more \in Seq(Profiles)
      BY <1>5, <3>2 DEF Records
    <3> HIDE DEF w, more
    <3>4. x \in Records /\ x.data = more /\ x.count = r.count /\ x.notify = r.notify
          /\ x.batch = r.batch
      BY <1>6, <3>3 DEF Records
    <3> HIDE DEF x
    <3>5. w = x
      BY <1>5, <1>8, <3>2, <3>4, SameRecord
    <3>6. settled' = [settled EXCEPT ![d] = x]
      BY <1>5, <3>5
    <3>7. settled' = [settled EXCEPT ![d].data = @ \o SubSeq(c.data, 1, pushed[t])]
      BY <3>6 DEF x, more
    <3>8. QED
      BY <2>2, <3>1, <3>7
  <2>3. QED
    BY <1>4, <2>1, <2>2
<1>10. Seen' = [Seen EXCEPT ![t] = Store!Thrown]
  <2>1. Blank = Store!Blank
    BY DEF Blank, Store!Blank
  <2>2. out'[t] = Store!Thrown
    BY <2>1 DEF Throw, Store!Thrown, TypeOK
  <2>3. at'[t] = 0 /\ \A u \in Threads \ {t} : at'[u] = at[u]
    BY <1>1 DEF Leave, TypeOK
  <2>4. QED
    BY <1>1, <2>2, <2>3, SeenOne
<1>11. call' = [call EXCEPT ![t] = NoCall]
  BY <1>1 DEF Leave
<1>12. QED
  BY <1>3, <1>9, <1>10, <1>11 DEF Store!Fail, Seen

LEMMA EndIsPerform ==
  ASSUME TypeOK, LockInv, Partial, NEW t \in Threads, Unlock(t) \/ Return(t)
  PROVE  Store!Perform(t)
<1>1. call[t] \in Calls /\ Leave(t) /\ \A u \in Threads \ {t} : out'[u] = out[u]
  BY WayOut, AtStatement DEF Unlock, Return
<1>2. call[t] # NoCall
  BY <1>1, BufferAssumption
<1>3. out'[t] = Store!Reply(call[t], settled[call[t].dev])
  BY ReplyIsOut
<1>4. settled' = [settled EXCEPT ![call[t].dev] = Store!Applied(call[t], settled[call[t].dev])]
  BY EffectIsApplied
<1>5. at'[t] = 0 /\ \A u \in Threads \ {t} : at'[u] = at[u]
  BY <1>1 DEF Leave, TypeOK
<1>6. Seen' = [Seen EXCEPT ![t] = Store!Reply(call[t], settled[call[t].dev])]
  BY <1>1, <1>3, <1>5, SeenOne
<1>7. call' = [call EXCEPT ![t] = NoCall]
  BY <1>1 DEF Leave
<1>8. QED
  BY <1>2, <1>4, <1>6, <1>7 DEF Store!Perform, Seen

LEMMA BeginIsCall ==
  ASSUME TypeOK, LockInv, NEW t \in Threads, NEW c \in Calls, Begin(t, c)
  PROVE  Store!Call(t, c)
<1>1. /\ at[t] = 0 /\ at'[t] = 1 /\ UNCHANGED settled
      /\ call' = [call EXCEPT ![t] = c]
      /\ \A u \in Threads \ {t} : at'[u] = at[u] /\ out'[u] = out[u]
  BY DEF Begin, TypeOK
<1>2. call[t] = NoCall
  BY <1>1 DEF LockInv
<1>3. Blank = Store!Blank
  BY DEF Blank, Store!Blank
<1>4. Seen' = [Seen EXCEPT ![t] = Store!Blank]
  BY <1>1, <1>3, SeenOne
<1>5. QED
  BY <1>1, <1>2, <1>4 DEF Store!Call, Seen

(* Between Lock and the end nothing is seen of a call.                     *)
LEMMA InsideIsHidden ==
  ASSUME TypeOK, LockInv, NEW t \in Threads, Statement(t), ~Unlock(t), ~Return(t)
  PROVE  UNCHANGED <<settled, call, Seen>>
<1>1. UNCHANGED <<settled, call>>
  BY DEF Statement, Lock, Push, PushDone, Count, Notify, Batch, Copy, Clear, TakeNotify,
         ZeroNotify, TakeBatch, ZeroCount, ZeroBatch, Advance
<1>2. at[t] # 0
  BY DEF Statement, Lock, Push, PushDone, Count, Notify, Batch, Copy, Clear, TakeNotify,
         ZeroNotify, TakeBatch, ZeroCount, ZeroBatch, At
<1>3. at' = [at EXCEPT ![t] = at[t] + 1] \/ at' = at
  BY DEF Statement, Lock, Push, PushDone, Count, Notify, Batch, Copy, Clear, TakeNotify,
         ZeroNotify, TakeBatch, ZeroCount, ZeroBatch, Advance
<1>4. at'[t] # 0 /\ \A u \in Threads \ {t} : at'[u] = at[u]
  <2>1. at[t] \in 0 .. 7 /\ at[t] + 1 # 0
    BY DEF TypeOK
  <2>2. at'[t] \in {at[t], at[t] + 1} /\ \A u \in Threads \ {t} : at'[u] = at[u]
    BY <1>3 DEF TypeOK
  <2>3. QED
    BY <1>2, <2>1, <2>2
<1>5. \A u \in Threads \ {t} : out'[u] = out[u]
  <2>1. \/ out' = out
        \/ out' = [out EXCEPT ![t] = [out[t] EXCEPT !.data = m_vecProfileData[call[t].dev]]]
        \/ out' = [out EXCEPT ![t] = [out[t] EXCEPT !.notify = m_adwNotify[call[t].dev]]]
        \/ out' = [out EXCEPT ![t] = [out[t] EXCEPT !.batch = m_anBatchNo[call[t].dev]]]
    BY DEF Statement, Lock, Push, PushDone, Count, Notify, Batch, Copy, Clear, TakeNotify,
           ZeroNotify, TakeBatch, ZeroCount, ZeroBatch
  <2>2. QED
    BY <2>1 DEF TypeOK
<1>6. Seen' = Seen
  <2>1. \A u \in Threads : (IF at'[u] = 0 THEN out'[u] ELSE Blank) =
                           (IF at[u] = 0 THEN out[u] ELSE Blank)
    BY <1>2, <1>4, <1>5
  <2>2. QED
    BY <2>1 DEF Seen
<1>7. QED
  BY <1>1, <1>6

(* Whatever number of threads, devices and calls there is, the buffer      *)
(* implements the store whose calls take effect at once.                   *)
THEOREM Atomicity == Spec => ActsAtomically
<1>1. Init => Store!Init
  <2> SUFFICES ASSUME Init PROVE Store!Init
    OBVIOUS
  <2>1. settled = [d \in Devices |-> Store!Empty]
    BY DEF Init, Contents, Store!Empty
  <2>2. \A t \in Threads : (IF at[t] = 0 THEN out[t] ELSE Blank) = Store!Blank
    BY DEF Init, Blank, Store!Blank
  <2>3. call = [t \in Threads |-> NoCall]
    BY DEF Init
  <2>4. QED
    BY <2>1, <2>2, <2>3 DEF Store!Init
<1>2. IInv /\ [Next]_vars => [Store!Next]_(Store!vars)
  <2> SUFFICES ASSUME TypeOK, LockInv, Partial, [Next]_vars PROVE [Store!Next]_(Store!vars)
    BY DEF IInv
  <2>1. CASE UNCHANGED vars
    BY <2>1 DEF vars, Store!vars
  <2>2. ASSUME NEW t \in Threads, NEW c \in Calls, Begin(t, c) PROVE Store!Next
    BY <2>2, BeginIsCall DEF Store!Next
  <2>3. ASSUME NEW t \in Threads, Unlock(t) \/ Return(t) PROVE Store!Next
    BY <2>3, EndIsPerform DEF Store!Next
  <2>4. ASSUME NEW t \in Threads, Throw(t) PROVE Store!Next
    BY <2>4, ThrowIsFail DEF Store!Next
  <2>5. ASSUME NEW t \in Threads, Statement(t), ~Unlock(t), ~Return(t)
        PROVE  UNCHANGED Store!vars
    BY <2>5, InsideIsHidden DEF Store!vars, Seen
  <2>6. QED
    BY <2>1, <2>2, <2>3, <2>4, <2>5 DEF Next
<1>3. Spec => []IInv
  BY Invariant
<1>4. QED
  BY <1>1, <1>2, <1>3, PTL DEF Spec, ActsAtomically, Store!Spec

-----------------------------------------------------------------------------
(* The notification of a batch *)

(* A step that leaves the calls, the settled records and the device of the *)
(* owner's call where they are leaves Reporting.                           *)
LEMMA ReportingInside ==
  ASSUME LockInv, Reporting, NEW t \in Threads, at[t] > 1, at'[t] > 1,
         call[t].dev \in Devices,
         UNCHANGED <<call, settled>>,
         \A u \in Threads \ {t} : at'[u] = at[u] /\ ~(at[u] > 1),
         \A d \in Devices \ {call[t].dev} : reported'[d] = reported[d],
         \A p \in Nat :
           reported[call[t].dev] = ReportedNow(call[t], at[t], settled[call[t].dev], p) =>
           reported'[call[t].dev] = ReportedNow(call[t], at'[t], settled[call[t].dev], p)
  PROVE  Reporting'
<1> SUFFICES ASSUME NEW d \in Devices
             PROVE  \E p \in Nat :
                      /\ Told(d, p)'
                      /\ (\A u \in Threads : at'[u] > 1 => call'[u].dev # d) =>
                           reported'[d] = p
                      /\ \A u \in Threads : at'[u] > 1 /\ call'[u].dev = d =>
                           reported'[d] = ReportedNow(call[u], at[u], settled[d], p)'
  BY DEF Reporting
<1>1. PICK p \in Nat :
        /\ Told(d, p)
        /\ (\A u \in Threads : at[u] > 1 => call[u].dev # d) => reported[d] = p
        /\ \A u \in Threads : at[u] > 1 /\ call[u].dev = d =>
             reported[d] = ReportedNow(call[u], at[u], settled[d], p)
  BY DEF Reporting
<1>2. Told(d, p)'
  BY <1>1 DEF Told
<1>3. \A u \in Threads : (at'[u] > 1 <=> u = t) /\ (at[u] > 1 <=> u = t)
  OBVIOUS
<1>4. CASE d = call[t].dev
  <2>1. reported[d] = ReportedNow(call[t], at[t], settled[d], p)
    BY <1>1, <1>4
  <2>2. reported'[d] = ReportedNow(call[t], at[t], settled[d], p)'
    BY <1>4, <2>1 DEF ReportedNow
  <2>3. QED
    BY <1>2, <1>3, <1>4, <2>2
<1>5. CASE d # call[t].dev
  <2>1. reported'[d] = p
    BY <1>1, <1>3, <1>5
  <2>2. QED
    BY <1>2, <1>3, <1>5, <2>1
<1>6. QED
  BY <1>4, <1>5

LEMMA ReportingStatement ==
  ASSUME TypeOK, LockInv, Partial, Reporting, NEW t \in Threads, Statement(t),
         ~Lock(t), ~Unlock(t), ~Return(t)
  PROVE  Reporting'
<1> DEFINE c == call[t]
           d == call[t].dev
           r == settled[call[t].dev]
<1>1. PICK s \in {"push", "count", "notify", "batch", "copy", "clear", "takeNotify",
                  "zeroNotify", "takeBatch", "zeroCount", "zeroBatch"} : At(t, s)
  BY DEF Statement, Push, PushDone, Count, Notify, Batch, Copy, Clear, TakeNotify,
         ZeroNotify, TakeBatch, ZeroCount, ZeroBatch
<1>2. /\ c.op \in Ops /\ d \in Devices /\ at[t] \in 1 .. Length[c.op]
      /\ Body[c.op][at[t]] = s /\ at[t] > 1 /\ m_csDataAccess = t /\ Length[c.op] \in 5 .. 7
  BY <1>1, AtStatement
<1>3. \A u \in Threads \ {t} : ~(at[u] > 1)
  BY <1>2 DEF LockInv
<1>4. UNCHANGED <<call, settled>>
  BY DEF Statement, Push, PushDone, Count, Notify, Batch, Copy, Clear, TakeNotify,
         ZeroNotify, TakeBatch, ZeroCount, ZeroBatch, Advance
<1>5. at'[t] > 1 /\ \A u \in Threads \ {t} : at'[u] = at[u]
  <2>1. at' = [at EXCEPT ![t] = at[t] + 1] \/ at' = at
    BY DEF Statement, Push, PushDone, Count, Notify, Batch, Copy, Clear, TakeNotify,
           ZeroNotify, TakeBatch, ZeroCount, ZeroBatch, Advance
  <2>2. at'[t] \in {at[t], at[t] + 1} /\ \A u \in Threads \ {t} : at'[u] = at[u]
    BY <2>1 DEF TypeOK
  <2>3. QED
    BY <1>2, <2>2
<1>6. CASE TakeBatch(t)
  <2>1. (c.op = "Get" /\ at[t] = 6) \/ (c.op = "GetCount" /\ at[t] = 4)
    <3>1. /\ c.op \in Ops /\ at[t] \in 1 .. Length[c.op] /\ Body[c.op][at[t]] = "takeBatch"
      BY <1>6, AtStatement DEF TakeBatch
    <3>2. QED
      BY <3>1, Where
  <2>2. m_anBatchNo[d] = r.batch
    BY <1>2, <2>1 DEF Partial, Halfway, BatchNow
  <2>3. /\ reported'[d] = m_anBatchNo[d] /\ at'[t] = at[t] + 1
        /\ \A e \in Devices \ {d} : reported'[e] = reported[e]
    BY <1>2, <1>6 DEF TakeBatch, Advance, TypeOK
  <2>4. \A p \in Nat : reported'[d] = ReportedNow(c, at'[t], r, p)
    BY <2>1, <2>2, <2>3 DEF ReportedNow
  <2> HIDE DEF c, d, r
  <2>5. QED
    BY <1>2, <1>3, <1>4, <1>5, <2>3, <2>4, ReportingInside DEF c, d, r
<1>7. CASE ZeroBatch(t)
  <2>1. c.op = "ClearBuffer" /\ at[t] = 4
    <3>1. /\ c.op \in Ops /\ at[t] \in 1 .. Length[c.op] /\ Body[c.op][at[t]] = "zeroBatch"
      BY <1>7, AtStatement DEF ZeroBatch
    <3>2. QED
      BY <3>1, Where
  <2>2. /\ reported'[d] = 0 /\ at'[t] = at[t] + 1
        /\ \A e \in Devices \ {d} : reported'[e] = reported[e]
    BY <1>2, <1>7 DEF ZeroBatch, Advance, TypeOK
  <2>3. \A p \in Nat : reported'[d] = ReportedNow(c, at'[t], r, p)
    BY <2>1, <2>2 DEF ReportedNow
  <2> HIDE DEF c, d, r
  <2>4. QED
    BY <1>2, <1>3, <1>4, <1>5, <2>2, <2>3, ReportingInside DEF c, d, r
<1>8. CASE ~TakeBatch(t) /\ ~ZeroBatch(t)
  <2>1. PICK q \in {"push", "count", "notify", "batch", "copy", "clear", "takeNotify",
                    "zeroNotify", "zeroCount"} : At(t, q)
    BY <1>8 DEF Statement, Push, PushDone, Count, Notify, Batch, Copy, Clear, TakeNotify,
           ZeroNotify, ZeroCount
  <2>2. /\ Body[c.op][at[t]] = q /\ at[t] \in 1 .. Length[c.op] /\ c.op \in Ops
    BY <2>1, AtStatement
  <2>3. \/ c.op \in {"Add", "AddCount"}
        \/ c.op = "Get" /\ at[t] \in 1 .. 5
        \/ c.op = "GetCount" /\ at[t] \in 1 .. 3
        \/ c.op = "ClearBuffer" /\ at[t] \in {2, 3, 5}
    BY <2>2, Where
  <2>4. UNCHANGED reported /\ at'[t] \in {at[t], at[t] + 1}
    <3>1. at' = [at EXCEPT ![t] = at[t] + 1] \/ at' = at
      BY <1>8 DEF Statement, Push, PushDone, Count, Notify, Batch, Copy, Clear, TakeNotify,
             ZeroNotify, ZeroCount, Advance
    <3>2. UNCHANGED reported
      BY <1>8 DEF Statement, Push, PushDone, Count, Notify, Batch, Copy, Clear, TakeNotify,
             ZeroNotify, ZeroCount
    <3>3. QED
      BY <3>1, <3>2 DEF TypeOK
  <2>5. \A p \in Nat : ReportedNow(c, at'[t], r, p) = ReportedNow(c, at[t], r, p)
    BY <2>3, <2>4 DEF ReportedNow
  <2> HIDE DEF c, d, r
  <2>6. QED
    BY <1>2, <1>3, <1>4, <1>5, <2>4, <2>5, ReportingInside DEF c, d, r
<1>9. QED
  BY <1>6, <1>7, <1>8

LEMMA ReportingOutside ==
  ASSUME LockInv, Reporting, UNCHANGED <<settled, reported>>,
         \A u \in Threads : at[u] > 1 \/ at'[u] > 1 => /\ call'[u] = call[u]
                                                     /\ call[u].dev \in Devices,
         \A u \in Threads : at[u] > 1 => at'[u] = at[u],
         \A u \in Threads : ~(at[u] > 1) /\ at'[u] > 1 =>
           /\ at'[u] = 2
           /\ \A v \in Threads : ~(at[v] > 1) /\ (v # u => ~(at'[v] > 1))
  PROVE  Reporting'
<1> SUFFICES ASSUME NEW d \in Devices
             PROVE  \E p \in Nat :
                      /\ Told(d, p)'
                      /\ (\A u \in Threads : at'[u] > 1 => call'[u].dev # d) =>
                           reported'[d] = p
                      /\ \A u \in Threads : at'[u] > 1 /\ call'[u].dev = d =>
                           reported'[d] = ReportedNow(call[u], at[u], settled[d], p)'
  BY DEF Reporting
<1>1. PICK p \in Nat :
        /\ Told(d, p)
        /\ (\A u \in Threads : at[u] > 1 => call[u].dev # d) => reported[d] = p
        /\ \A u \in Threads : at[u] > 1 /\ call[u].dev = d =>
             reported[d] = ReportedNow(call[u], at[u], settled[d], p)
  BY DEF Reporting
<1>2. Told(d, p)'
  BY <1>1 DEF Told
<1>3. ASSUME \A u \in Threads : at'[u] > 1 => call'[u].dev # d
      PROVE  reported'[d] = p
  BY <1>1, <1>3
<1>4. ASSUME NEW u \in Threads, at'[u] > 1, call'[u].dev = d
      PROVE  reported'[d] = ReportedNow(call[u], at[u], settled[d], p)'
  <2>1. CASE at[u] > 1
    <3>1. at'[u] = at[u] /\ call'[u] = call[u] /\ reported'[d] = reported[d]
          /\ settled'[d] = settled[d]
      BY <2>1
    <3>2. reported[d] = ReportedNow(call[u], at[u], settled[d], p)
      BY <1>1, <1>4, <2>1, <3>1
    <3>3. QED
      BY <3>1, <3>2 DEF ReportedNow
  <2>2. CASE ~(at[u] > 1)
    <3>1. reported[d] = p
      BY <1>1, <1>4, <2>2
    <3>2. at'[u] = 2
      BY <1>4, <2>2
    <3>3. QED
      BY <3>1, <3>2 DEF ReportedNow
  <2>3. QED
    BY <2>1, <2>2
<1>5. QED
  BY <1>2, <1>3, <1>4

LEMMA ReportingLeave ==
  ASSUME TypeOK, LockInv, Partial, Reporting, NEW t \in Threads,
         Unlock(t) \/ Return(t) \/ Throw(t)
  PROVE  Reporting'
<1> DEFINE c == call[t]
           r == settled[call[t].dev]
<1>1. Leave(t) /\ reported' = reported
  BY WayOut DEF Leave
<1>2. PICK s \in {"Unlock", "return", "push", "copy"} :
        /\ At(t, s)
        /\ s \in {"Unlock", "return"} \/ (s \in {"push", "copy"} /\ Throw(t))
  BY DEF Unlock, Return, Throw
<1>3. /\ c.op \in Ops /\ c.dev \in Devices /\ at[t] \in 1 .. Length[c.op]
      /\ Body[c.op][at[t]] = s /\ at[t] > 1 /\ c.notify \in SUBSET Bits
  BY <1>2, AtStatement
<1>4. \/ at[t] = Length[c.op]
      \/ at[t] = 2 /\ c.op \in {"Add", "Get"}
  BY <1>2, <1>3, Where, Lengths
<1>5. /\ settled'[c.dev].notify = m_adwNotify[c.dev]
      /\ settled'[c.dev].batch = m_anBatchNo[c.dev]
      /\ \A e \in Devices \ {c.dev} : settled'[e] = settled[e]
  <2> DEFINE w == [data |-> m_vecProfileData[c.dev], count |-> m_adwCount[c.dev],
                   notify |-> m_adwNotify[c.dev], batch |-> m_anBatchNo[c.dev]]
  <2>1. settled' = [settled EXCEPT ![c.dev] = w]
    BY <1>1, <1>3, Settles
  <2>2. w.notify = m_adwNotify[c.dev] /\ w.batch = m_anBatchNo[c.dev]
    OBVIOUS
  <2> HIDE DEF w
  <2>3. settled'[c.dev] = w /\ \A e \in Devices \ {c.dev} : settled'[e] = settled[e]
    BY <1>3, <2>1 DEF TypeOK
  <2>4. QED
    BY <2>2, <2>3
<1>6. \A u \in Threads : ~(at'[u] > 1) /\ (u # t => ~(at[u] > 1))
  BY <1>1, <1>3 DEF Leave, TypeOK, LockInv
<1>7. ASSUME NEW d \in Devices
      PROVE  \E p \in Nat : Told(d, p)' /\ reported'[d] = p
  <2>1. PICK p \in Nat :
          /\ Told(d, p)
          /\ (\A u \in Threads : at[u] > 1 => call[u].dev # d) => reported[d] = p
          /\ \A u \in Threads : at[u] > 1 /\ call[u].dev = d =>
               reported[d] = ReportedNow(call[u], at[u], settled[d], p)
    BY DEF Reporting
  <2>2. CASE d # c.dev
    <3>1. reported[d] = p
      BY <1>6, <2>1, <2>2
    <3>2. QED
      BY <1>1, <1>5, <2>1, <2>2, <3>1 DEF Told
  <2>3. CASE d = c.dev
    <3>1. reported[d] = ReportedNow(c, at[t], r, p)
      BY <1>3, <2>1, <2>3
    <3>2. /\ settled'[d].notify = NotifyNow(c, at[t], r)
          /\ settled'[d].batch = BatchNow(c, at[t], r)
      BY <1>3, <1>5, <2>3 DEF Partial, Halfway
    <3>3. r.batch \in Nat /\ (BatchBit \in r.notify <=> r.batch # p) /\ p <= r.batch
      BY <1>3, <2>1, <2>3 DEF Told, TypeOK, Records
    <3>4. CASE at[t] = 2 /\ c.op \in {"Add", "Get"}
      <4>1. /\ reported[d] = p /\ settled'[d].notify = r.notify /\ settled'[d].batch = r.batch
        BY <3>1, <3>2, <3>4 DEF ReportedNow, NotifyNow, BatchNow
      <4>2. QED
        BY <1>1, <3>3, <4>1 DEF Told
    <3>5. CASE at[t] = Length[c.op]
      <4>1. CASE c.op \in {"Add", "AddCount"}
        <5>1. at[t] = IF c.op = "Add" THEN 6 ELSE 5
          BY <3>5, <4>1, Lengths
        <5>2. reported[d] = p /\ settled'[d].notify = r.notify \cup c.notify
          BY <3>1, <3>2, <4>1, <5>1 DEF ReportedNow, NotifyNow
        <5>3. settled'[d].batch = IF BatchBit \in c.notify THEN r.batch + 1 ELSE r.batch
          BY <3>2, <4>1, <5>1 DEF BatchNow, BatchOver
        <5>4. /\ BatchBit \in settled'[d].notify <=> settled'[d].batch # p
              /\ p <= settled'[d].batch
          BY <3>3, <5>2, <5>3
        <5>5. QED
          BY <1>1, <5>2, <5>4 DEF Told
      <4>2. CASE c.op \in {"Get", "GetCount"}
        <5>1. at[t] = IF c.op = "Get" THEN 7 ELSE 5
          BY <3>5, <4>2, Lengths
        <5>2. /\ reported[d] = r.batch /\ settled'[d].notify = {}
              /\ settled'[d].batch = r.batch
          BY <3>1, <3>2, <4>2, <5>1 DEF ReportedNow, NotifyNow, BatchNow
        <5>3. QED
          BY <1>1, <3>3, <5>2 DEF Told
      <4>3. CASE c.op = "ClearBuffer"
        <5>1. at[t] = 6
          BY <3>5, <4>3, Lengths
        <5>2. reported[d] = 0 /\ settled'[d].notify = {} /\ settled'[d].batch = 0
          BY <3>1, <3>2, <4>3, <5>1 DEF ReportedNow, NotifyNow, BatchNow
        <5>3. QED
          BY <1>1, <5>2 DEF Told
      <4>4. QED
        BY <1>3, <4>1, <4>2, <4>3 DEF Ops
    <3>6. QED
      BY <1>4, <3>4, <3>5
  <2>4. QED
    BY <2>2, <2>3
<1>8. QED
  BY <1>6, <1>7 DEF Reporting

(* While nobody holds the lock, the flag of a device says that a batch is  *)
(* over exactly when no reader has been given its present batch number.    *)
THEOREM Notification == Spec => []FlagTellsOfBatch
<1>1. Init => Reporting
  <2> SUFFICES ASSUME Init PROVE Reporting
    OBVIOUS
  <2>1. \A t \in Threads : at[t] = 0
    BY DEF Init
  <2>2. \A d \in Devices : reported[d] = 0 /\ settled[d].notify = {} /\ settled[d].batch = 0
    BY DEF Init, Contents
  <2>3. \A t \in Threads : ~(at[t] > 1)
    <3> TAKE t \in Threads
    <3>1. at[t] = 0
      BY <2>1
    <3>2. QED
      BY <3>1
  <2>4. QED
    BY <2>2, <2>3 DEF Reporting, Told
<1>2. IInv /\ Reporting /\ [Next]_vars => Reporting'
  <2> SUFFICES ASSUME TypeOK, LockInv, Partial, Reporting, [Next]_vars PROVE Reporting'
    BY DEF IInv
  <2>1. CASE UNCHANGED vars
    <3>1. UNCHANGED <<settled, reported, at, call>>
      BY <2>1 DEF vars
    <3>2. QED
      BY <3>1 DEF Reporting, Told, ReportedNow
  <2>2. ASSUME NEW t \in Threads, NEW c \in Calls, Begin(t, c) PROVE Reporting'
    <3>1. /\ UNCHANGED <<settled, reported>> /\ at[t] = 0 /\ at'[t] = 1
          /\ \A u \in Threads \ {t} : at'[u] = at[u] /\ call'[u] = call[u]
      BY <2>2 DEF Begin, TypeOK
    <3>2. \A u \in Threads : at[u] > 1 => call[u].dev \in Devices
      <4> TAKE u \in Threads
      <4>1. HAVE at[u] > 1
      <4>2. call[u] \in Calls
        BY <4>1 DEF LockInv
      <4>3. QED
        BY <4>2, BufferAssumption
    <3>3. \A u \in Threads : at[u] > 1 \/ at'[u] > 1 => u # t
      BY <3>1
    <3>4. \A u \in Threads : (at[u] > 1 <=> at'[u] > 1)
      BY <3>1
    <3>5. QED
      BY <3>1, <3>2, <3>3, <3>4, ReportingOutside
  <2>3. ASSUME NEW t \in Threads, Lock(t) PROVE Reporting'
    <3>1. /\ UNCHANGED <<settled, reported, call>> /\ at[t] = 1 /\ at'[t] = 2
          /\ \A u \in Threads \ {t} : at'[u] = at[u] /\ ~(at[u] > 1)
      BY <2>3, LockTypes DEF Lock
    <3>2. call[t].dev \in Devices
      BY <2>3, AtStatement DEF Lock
    <3>3. \A u \in Threads : ~(at[u] > 1)
      BY <3>1
    <3>4. \A u \in Threads : at'[u] > 1 => u = t
      BY <3>1
    <3>5. QED
      BY <3>1, <3>2, <3>3, <3>4, ReportingOutside
  <2>4. ASSUME NEW t \in Threads, Unlock(t) \/ Return(t) \/ Throw(t) PROVE Reporting'
    BY <2>4, ReportingLeave
  <2>5. ASSUME NEW t \in Threads, Statement(t), ~Lock(t), ~Unlock(t), ~Return(t)
        PROVE  Reporting'
    BY <2>5, ReportingStatement
  <2>6. QED
    BY <2>1, <2>2, <2>3, <2>4, <2>5 DEF Next
<1>3. IInv /\ Reporting => FlagTellsOfBatch
  <2> SUFFICES ASSUME LockInv, Partial, Reporting, Free, NEW d \in Devices
               PROVE  BatchBit \in m_adwNotify[d] <=> m_anBatchNo[d] # reported[d]
    BY DEF IInv, FlagTellsOfBatch
  <2>1. \A t \in Threads : ~(at[t] > 1)
    BY BufferAssumption DEF Free, LockInv
  <2>2. Quiet(d)
    BY <2>1 DEF Partial
  <2>3. Told(d, reported[d])
    BY <2>1 DEF Reporting
  <2>4. QED
    BY <2>2, <2>3 DEF Quiet, Told
<1>4. Spec => []IInv
  BY Invariant
<1>5. QED
  BY <1>1, <1>2, <1>3, <1>4, PTL DEF Spec
==============================================================================
