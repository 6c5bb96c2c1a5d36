-------------------------- MODULE ThreadSafeBuffer --------------------------
(* CThreadSafeBuffer (ThreadSafeBuffer.cpp), statement by statement: any   *)
(* number of threads call its operations, each of which takes the critical *)
(* section m_csDataAccess through a CSingleLock and gives it back by       *)
(* Unlock, by its return or by a throw (the destructor of the lock).       *)
EXTENDS Naturals, Sequences

CONSTANTS
  Threads, NoThread,
  Devices,
  Profiles,
  Bits, BatchBit,  (* bits of a notification; bit 16 says a batch is over   *)
  Calls, NoCall,   (* operations with their arguments                       *)
  CountSize,       (* 2^32: a DWORD count wraps around                      *)
  MemoryRunsOut,   (* may push_back or the copy of a vector throw?          *)
  MaxCalls         (* bound: calls made in a behaviour                      *)

Ops == {"Add", "AddCount", "Get", "GetCount", "ClearBuffer"}

ASSUME BufferAssumption ==
  /\ NoThread \notin Threads
  /\ NoCall \notin Calls
  /\ Calls \subseteq [op : Ops, dev : Devices, data : Seq(Profiles),
                      count : Nat, notify : SUBSET Bits]
  /\ CountSize \in Nat \ {0}
  /\ MemoryRunsOut \in BOOLEAN
  /\ MaxCalls \in Nat

VARIABLES
  m_vecProfileData, m_adwCount, m_adwNotify, m_anBatchNo,   (* by device   *)
  m_csDataAccess,   (* the thread that owns the critical section           *)
  call,             (* per thread: the call it is making                   *)
  at,               (* per thread: its next statement, 0 between calls     *)
  pushed,           (* per thread: i of the loop in Add                    *)
  out,              (* per thread: what the call returns                   *)
  calls,            (* how many calls were made                            *)
  settled,          (* history: the data when it was last given back       *)
  reported          (* history: per device, the last batch number returned *)

data    == <<m_vecProfileData, m_adwCount, m_adwNotify, m_anBatchNo>>
vars    == <<data, m_csDataAccess, call, at, pushed, out, calls, settled, reported>>

-----------------------------------------------------------------------------
(* The statements of each operation, in order.  GetCount has no Unlock: it *)
(* returns before the one it ends with.                                    *)
Body ==
  [Add         |-> <<"Lock", "push", "count", "notify", "batch", "Unlock">>,
   AddCount    |-> <<"Lock", "count", "notify", "batch", "Unlock">>,
   Get         |-> <<"Lock", "copy", "clear", "takeNotify", "zeroNotify", "takeBatch",
                     "Unlock">>,
   GetCount    |-> <<"Lock", "takeNotify", "zeroNotify", "takeBatch", "return">>,
   ClearBuffer |-> <<"Lock", "clear", "zeroCount", "zeroBatch", "zeroNotify", "Unlock">>]

At(t, statement) == at[t] # 0 /\ Body[call[t].op][at[t]] = statement

Blank == [data |-> <<>>, count |-> 0, notify |-> {}, batch |-> 0, threw |-> FALSE]

Contents(vec, cnt, flags, no) ==
  [d \in Devices |-> [data |-> vec[d], count |-> cnt[d], notify |-> flags[d], batch |-> no[d]]]

Init ==
  /\ m_vecProfileData = [d \in Devices |-> <<>>]
  /\ m_adwCount = [d \in Devices |-> 0]
  /\ m_adwNotify = [d \in Devices |-> {}]
  /\ m_anBatchNo = [d \in Devices |-> 0]
  /\ m_csDataAccess = NoThread
  /\ call = [t \in Threads |-> NoCall]
  /\ at = [t \in Threads |-> 0]
  /\ pushed = [t \in Threads |-> 0]
  /\ out = [t \in Threads |-> Blank]
  /\ calls = 0
  /\ settled = Contents(m_vecProfileData, m_adwCount, m_adwNotify, m_anBatchNo)
  /\ reported = [d \in Devices |-> 0]

Begin(t, c) ==
  /\ at[t] = 0 /\ calls < MaxCalls
  /\ call' = [call EXCEPT ![t] = c]
  /\ at' = [at EXCEPT ![t] = 1]
  /\ pushed' = [pushed EXCEPT ![t] = 0]
  /\ out' = [out EXCEPT ![t] = Blank]
  /\ calls' = calls + 1
  /\ UNCHANGED <<data, m_csDataAccess, settled, reported>>

(* Mutant: the critical section lets everyone in. *)
AlwaysFree == TRUE
Free == m_csDataAccess = NoThread

(* singleLock.Lock() *)
Lock(t) ==
  /\ At(t, "Lock") /\ Free
  /\ m_csDataAccess' = t
  /\ at' = [at EXCEPT ![t] = @ + 1]
  /\ UNCHANGED <<data, call, pushed, out, calls, settled, reported>>

(* The operation is over, by whatever way, and its lock is given back. *)
Leave(t) ==
  /\ m_csDataAccess' = NoThread
  /\ at' = [at EXCEPT ![t] = 0]
  /\ call' = [call EXCEPT ![t] = NoCall]
  /\ settled' = Contents(m_vecProfileData, m_adwCount, m_adwNotify, m_anBatchNo)
  /\ UNCHANGED <<data, pushed, calls, reported>>

Unlock(t) == At(t, "Unlock") /\ Leave(t) /\ UNCHANGED out

(* Mutant: no destructor gives the lock back. *)
ReturnLocked(t) ==
  /\ At(t, "return")
  /\ at' = [at EXCEPT ![t] = 0] /\ call' = [call EXCEPT ![t] = NoCall]
  /\ UNCHANGED <<data, m_csDataAccess, pushed, out, calls, settled, reported>>

(* return m_adwCount[dwIndex], and the destructor of singleLock. *)
Return(t) ==
  /\ At(t, "return") /\ Leave(t)
  /\ out' = [out EXCEPT ![t].count = m_adwCount[call[t].dev]]

Throw(t) ==
  /\ MemoryRunsOut
  /\ At(t, "copy") \/ (At(t, "push") /\ pushed[t] < Len(call[t].data))
  /\ Leave(t)
  /\ out' = [out EXCEPT ![t] = [Blank EXCEPT !.threw = TRUE]]

-----------------------------------------------------------------------------
(* The statements between Lock and Unlock *)

Advance(t) ==
  /\ at' = [at EXCEPT ![t] = @ + 1]
  /\ UNCHANGED <<m_csDataAccess, call, calls, settled>>

Push(t) ==
  /\ At(t, "push") /\ pushed[t] < Len(call[t].data)
  /\ m_vecProfileData' = [m_vecProfileData EXCEPT ![call[t].dev] =
                            Append(@, call[t].data[pushed[t] + 1])]
  /\ pushed' = [pushed EXCEPT ![t] = @ + 1]
  /\ UNCHANGED <<m_adwCount, m_adwNotify, m_anBatchNo, m_csDataAccess, call, at, out,
                 calls, settled, reported>>

PushDone(t) ==
  /\ At(t, "push") /\ pushed[t] >= Len(call[t].data)
  /\ Advance(t)
  /\ UNCHANGED <<data, pushed, out, reported>>

Announced(c) == IF c.op = "Add" THEN Len(c.data) ELSE c.count

(* Mutant: a count that does not wrap around. *)
SumUnbounded(m, n) == m + n
Sum(m, n) == (m + n) % CountSize

Count(t) ==
  /\ At(t, "count") /\ Advance(t)
  /\ m_adwCount' = [m_adwCount EXCEPT ![call[t].dev] = Sum(@, Announced(call[t]))]
  /\ UNCHANGED <<m_vecProfileData, m_adwNotify, m_anBatchNo, pushed, out, reported>>

Notify(t) ==
  /\ At(t, "notify") /\ Advance(t)
  /\ m_adwNotify' = [m_adwNotify EXCEPT ![call[t].dev] = @ \cup call[t].notify]
  /\ UNCHANGED <<m_vecProfileData, m_adwCount, m_anBatchNo, pushed, out, reported>>

(* Mutant: any flag is taken for the end of a batch. *)
BatchOverOnAnyFlag(c) == c.notify # {}
BatchOver(c) == BatchBit \in c.notify

Batch(t) ==
  /\ At(t, "batch") /\ Advance(t)
  /\ m_anBatchNo' = IF BatchOver(call[t])
                    THEN [m_anBatchNo EXCEPT ![call[t].dev] = @ + 1]
                    ELSE m_anBatchNo
  /\ UNCHANGED <<m_vecProfileData, m_adwCount, m_adwNotify, pushed, out, reported>>

Copy(t) ==
  /\ At(t, "copy") /\ Advance(t)
  /\ out' = [out EXCEPT ![t].data = m_vecProfileData[call[t].dev]]
  /\ UNCHANGED <<data, pushed, reported>>

Clear(t) ==
  /\ At(t, "clear") /\ Advance(t)
  /\ m_vecProfileData' = [m_vecProfileData EXCEPT ![call[t].dev] = <<>>]
  /\ UNCHANGED <<m_adwCount, m_adwNotify, m_anBatchNo, pushed, out, reported>>

TakeNotify(t) ==
  /\ At(t, "takeNotify") /\ Advance(t)
  /\ out' = [out EXCEPT ![t].notify = m_adwNotify[call[t].dev]]
  /\ UNCHANGED <<data, pushed, reported>>

ZeroNotify(t) ==
  /\ At(t, "zeroNotify") /\ Advance(t)
  /\ m_adwNotify' = [m_adwNotify EXCEPT ![call[t].dev] = {}]
  /\ UNCHANGED <<m_vecProfileData, m_adwCount, m_anBatchNo, pushed, out, reported>>

TakeBatch(t) ==
  /\ At(t, "takeBatch") /\ Advance(t)
  /\ out' = [out EXCEPT ![t].batch = m_anBatchNo[call[t].dev]]
  /\ reported' = [reported EXCEPT ![call[t].dev] = m_anBatchNo[call[t].dev]]
  /\ UNCHANGED <<data, pushed>>

ZeroCount(t) ==
  /\ At(t, "zeroCount") /\ Advance(t)
  /\ m_adwCount' = [m_adwCount EXCEPT ![call[t].dev] = 0]
  /\ UNCHANGED <<m_vecProfileData, m_adwNotify, m_anBatchNo, pushed, out, reported>>

ZeroBatch(t) ==
  /\ At(t, "zeroBatch") /\ Advance(t)
  /\ m_anBatchNo' = [m_anBatchNo EXCEPT ![call[t].dev] = 0]
  /\ reported' = [reported EXCEPT ![call[t].dev] = 0]
  /\ UNCHANGED <<m_vecProfileData, m_adwCount, m_adwNotify, pushed, out>>

Statement(t) ==
  \/ Lock(t) \/ Unlock(t) \/ Return(t)
  \/ Push(t) \/ PushDone(t) \/ Count(t) \/ Notify(t) \/ Batch(t)
  \/ Copy(t) \/ Clear(t) \/ TakeNotify(t) \/ ZeroNotify(t) \/ TakeBatch(t)
  \/ ZeroCount(t) \/ ZeroBatch(t)

Next == \E t \in Threads :
  \/ \E c \in Calls : Begin(t, c)
  \/ Statement(t)
  \/ Throw(t)

(* The scheduler runs every thread that can go on. *)
Spec == Init /\ [][Next]_vars /\ \A t \in Threads : WF_vars(Statement(t))

-----------------------------------------------------------------------------
(* Properties *)

Records == [data : Seq(Profiles), count : 0 .. CountSize - 1,
            notify : SUBSET Bits, batch : Nat]
Replies == [data : Seq(Profiles), count : 0 .. CountSize - 1,
            notify : SUBSET Bits, batch : Nat, threw : BOOLEAN]

TypeOK ==
  /\ m_vecProfileData \in [Devices -> Seq(Profiles)]
  /\ m_adwCount \in [Devices -> 0 .. CountSize - 1]
  /\ m_adwNotify \in [Devices -> SUBSET Bits]
  /\ m_anBatchNo \in [Devices -> Nat]
  /\ m_csDataAccess \in Threads \cup {NoThread}
  /\ call \in [Threads -> Calls \cup {NoCall}]
  /\ at \in [Threads -> 0 .. 7]
  /\ pushed \in [Threads -> Nat]
  /\ out \in [Threads -> Replies]
  /\ calls \in 0 .. MaxCalls
  /\ settled \in [Devices -> Records]
  /\ reported \in [Devices -> Nat]

(* Every operation takes effect at once: seen from the moments the data is *)
(* given back, the threads share the atomic buffer of ProfileStore.        *)
Store == INSTANCE ProfileStore WITH
  store   <- settled,
  request <- call,
  answer  <- [t \in Threads |-> IF at[t] = 0 THEN out[t] ELSE Blank]

ActsAtomically == Store!Spec

(* A reader that is told of a new batch number is also told by the flag    *)
(* that a batch is over, and the other way round: no reader eats the flag  *)
(* of a batch another one gets the number of, and no clear leaves one.     *)
FlagTellsOfBatch ==
  Free =>
    \A d \in Devices : BatchBit \in m_adwNotify[d] <=> m_anBatchNo[d] # reported[d]

(* Whoever gets the lock gives it back, also by the return in GetCount     *)
(* that comes before the Unlock and by a throw.                            *)
LockIsGivenBack == \A t \in Threads : m_csDataAccess = t ~> m_csDataAccess # t
==============================================================================
