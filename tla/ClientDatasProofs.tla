-------------------------- MODULE ClientDatasProofs --------------------------
(* Proofs about the upload client: its types, and that without an overlap  *)
(* of its two threads the service gets what is typed in order and at most  *)
(* once, for any number of messages and of broken connections.             *)
EXTENDS ClientDatas, SequenceTheorems, TLAPS

-----------------------------------------------------------------------------
(* Increasing sequences *)

Increasing(s) == \A i, j \in 1 .. Len(s) : i < j => s[i] < s[j]

(* Everything in s is less than b. *)
Under(s, b) == \A i \in 1 .. Len(s) : s[i] < b

(* Everything in s is less than everything in t. *)
Below(s, t) == \A i \in 1 .. Len(s), j \in 1 .. Len(t) : s[i] < t[j]

LEMMA Appended ==
  ASSUME NEW S, NEW s \in Seq(S), NEW e \in S
  PROVE  /\ Append(s, e) \in Seq(S) /\ Len(Append(s, e)) = Len(s) + 1 /\ Len(s) \in Nat
         /\ \A i \in 1 .. Len(s) : Append(s, e)[i] = s[i]
         /\ Append(s, e)[Len(s) + 1] = e
BY AppendProperties, LenProperties

LEMMA Tailed ==
  ASSUME NEW S, NEW s \in Seq(S), s # <<>>
  PROVE  /\ Tail(s) \in Seq(S) /\ Len(Tail(s)) = Len(s) - 1 /\ Len(s) \in Nat \ {0}
         /\ \A i \in 1 .. Len(s) - 1 : Tail(s)[i] = s[i + 1]
         /\ Head(s) = s[1] /\ Head(s) \in S
<1>1. Len(s) \in Nat /\ Len(s) # 0
  BY LenProperties, EmptySeq
<1>2. /\ Tail(s) \in Seq(S) /\ Len(Tail(s)) = Len(s) - 1
      /\ \A i \in 1 .. Len(Tail(s)) : Tail(s)[i] = s[i + 1]
  BY HeadTailProperties
<1>3. Head(s) = s[1] /\ Head(s) \in S
  BY HeadTailProperties, <1>1, ElementOfSeq
<1>4. QED
  BY <1>1, <1>2, <1>3

LEMMA Pair ==
  ASSUME NEW a \in Nat, NEW b \in Nat
  PROVE  <<a>> \o <<b>> = <<a, b>>
<1> DEFINE r == Append(<<a>>, b)  p == <<a, b>>
<1>1. <<a>> \in Seq(Nat) /\ Len(<<a>>) = 1 /\ <<a>>[1] = a
  OBVIOUS
<1>2. /\ r \in Seq(Nat) /\ Len(r) = 1 + 1 /\ (\A i \in 1 .. 1 : r[i] = <<a>>[i])
      /\ r[1 + 1] = b
  BY <1>1, Appended
<1>3. p \in Seq(Nat) /\ Len(p) = 2 /\ p[1] = a /\ p[2] = b
  OBVIOUS
<1> HIDE DEF r, p
<1>4. \A i \in 1 .. 2 : i = 1 \/ i = 2
  OBVIOUS
<1>5. Len(r) = Len(p) /\ \A i \in 1 .. Len(r) : r[i] = p[i]
  BY <1>1, <1>2, <1>3, <1>4
<1>6. r = p
  BY <1>2, <1>3, <1>5, SeqEqual
<1>7. <<a>> \o <<b>> = r
  BY <1>1, AppendIsConcat DEF r
<1>8. QED
  BY <1>6, <1>7 DEF p

LEMMA AppendIncreasing ==
  ASSUME NEW s \in Seq(Nat), NEW e \in Nat, Increasing(s), Under(s, e)
  PROVE  Increasing(Append(s, e))
<1> DEFINE t == Append(s, e)  n == Len(s)
<1>1. Len(t) = n + 1 /\ n \in Nat /\ (\A i \in 1 .. n : t[i] = s[i]) /\ t[n + 1] = e
  BY Appended
<1> HIDE DEF t, n
<1> SUFFICES ASSUME NEW i \in 1 .. n + 1, NEW j \in 1 .. n + 1, i < j
             PROVE  t[i] < t[j]
  BY <1>1 DEF Increasing, t
<1>2. i \in 1 .. n /\ t[i] = s[i]
  BY <1>1
<1>3. CASE j = n + 1
  BY <1>1, <1>2, <1>3 DEF Under, n
<1>4. CASE j # n + 1
  BY <1>1, <1>2, <1>4 DEF Increasing, n
<1>5. QED
  BY <1>3, <1>4

LEMMA TailIncreasing ==
  ASSUME NEW s \in Seq(Nat), s # <<>>, Increasing(s)
  PROVE  Increasing(Tail(s)) /\ Below(<<Head(s)>>, Tail(s))
<1> DEFINE t == Tail(s)  n == Len(s)
<1>1. /\ Len(t) = n - 1 /\ n \in Nat \ {0} /\ (\A i \in 1 .. n - 1 : t[i] = s[i + 1])
      /\ Head(s) = s[1]
  BY Tailed
<1> HIDE DEF t, n
<1>2. Increasing(t)
  <2> SUFFICES ASSUME NEW i \in 1 .. n - 1, NEW j \in 1 .. n - 1, i < j
               PROVE  t[i] < t[j]
    BY <1>1 DEF Increasing
  <2>1. i + 1 \in 1 .. n /\ j + 1 \in 1 .. n /\ i + 1 < j + 1
    BY <1>1
  <2>2. QED
    BY <1>1, <2>1 DEF Increasing, n
<1>3. ASSUME NEW j \in 1 .. n - 1 PROVE Head(s) < t[j]
  <2>1. 1 \in 1 .. n /\ j + 1 \in 1 .. n /\ 1 < j + 1
    BY <1>1
  <2>2. QED
    BY <1>1, <2>1 DEF Increasing, n
<1>4. Below(<<Head(s)>>, t)
  BY <1>1, <1>3 DEF Below
<1>5. QED
  BY <1>2, <1>4 DEF t

LEMMA AppendBelow ==
  ASSUME NEW s \in Seq(Nat), NEW t \in Seq(Nat), NEW e \in Nat, Below(s, t)
  PROVE  /\ (\A j \in 1 .. Len(t) : e < t[j]) => Below(Append(s, e), t)
         /\ Under(s, e) => Below(s, Append(t, e))
<1> DEFINE u == Append(s, e)  v == Append(t, e)  m == Len(s)  n == Len(t)
<1>1. Len(u) = m + 1 /\ m \in Nat /\ (\A i \in 1 .. m : u[i] = s[i]) /\ u[m + 1] = e
  BY Appended
<1>2. Len(v) = n + 1 /\ n \in Nat /\ (\A i \in 1 .. n : v[i] = t[i]) /\ v[n + 1] = e
  BY Appended
<1> HIDE DEF u, v, m, n
<1>3. \A i \in 1 .. m, j \in 1 .. n : s[i] < t[j]
  BY DEF Below, m, n
<1>4. ASSUME \A j \in 1 .. n : e < t[j] PROVE Below(u, t)
  <2>1. ASSUME NEW i \in 1 .. m + 1, NEW j \in 1 .. n PROVE u[i] < t[j]
    <3>1. CASE i = m + 1
      BY <1>1, <1>4, <3>1
    <3>2. CASE i # m + 1
      <4>1. i \in 1 .. m
        BY <1>1, <3>2
      <4>2. QED
        BY <1>1, <1>3, <4>1
    <3>3. QED
      BY <3>1, <3>2
  <2>2. QED
    BY <1>1, <2>1 DEF Below, n
<1>5. ASSUME Under(s, e) PROVE Below(s, v)
  <2>1. ASSUME NEW i \in 1 .. m, NEW j \in 1 .. n + 1 PROVE s[i] < v[j]
    <3>1. CASE j = n + 1
      BY <1>2, <1>5, <3>1 DEF Under, m
    <3>2. CASE j # n + 1
      <4>1. j \in 1 .. n
        BY <1>2, <3>2
      <4>2. QED
        BY <1>2, <1>3, <4>1
    <3>3. QED
      BY <3>1, <3>2
  <2>2. QED
    BY <1>2, <2>1 DEF Below, m
<1>6. QED
  BY <1>4, <1>5 DEF u, v, n

LEMMA TailBelow ==
  ASSUME NEW s \in Seq(Nat), NEW t \in Seq(Nat), Below(s, t)
  PROVE  /\ s # <<>> => Below(Tail(s), t) /\ \A j \in 1 .. Len(t) : Head(s) < t[j]
         /\ t # <<>> => Below(s, Tail(t)) /\ Under(s, Head(t))
<1> DEFINE u == Tail(s)  v == Tail(t)  m == Len(s)  n == Len(t)
<1>1. s # <<>> => /\ Len(u) = m - 1 /\ m \in Nat \ {0} /\ Head(s) = s[1]
                  /\ \A i \in 1 .. m - 1 : u[i] = s[i + 1]
  BY Tailed
<1>2. t # <<>> => /\ Len(v) = n - 1 /\ n \in Nat \ {0} /\ Head(t) = t[1]
                  /\ \A i \in 1 .. n - 1 : v[i] = t[i + 1]
  BY Tailed
<1> HIDE DEF u, v, m, n
<1>3. \A i \in 1 .. m, j \in 1 .. n : s[i] < t[j]
  BY DEF Below, m, n
<1>4. ASSUME s # <<>> PROVE Below(u, t) /\ \A j \in 1 .. n : Head(s) < t[j]
  <2>1. \A i \in 1 .. m - 1 : i + 1 \in 1 .. m /\ u[i] = s[i + 1]
    BY <1>1, <1>4
  <2>2. 1 \in 1 .. m /\ Len(u) = m - 1 /\ Head(s) = s[1]
    BY <1>1, <1>4
  <2>3. Below(u, t)
    BY <1>3, <2>1, <2>2 DEF Below, n
  <2>4. QED
    BY <1>3, <2>2, <2>3
<1>5. ASSUME t # <<>> PROVE Below(s, v) /\ Under(s, Head(t))
  <2>1. \A j \in 1 .. n - 1 : j + 1 \in 1 .. n /\ v[j] = t[j + 1]
    BY <1>2, <1>5
  <2>2. 1 \in 1 .. n /\ Len(v) = n - 1 /\ Head(t) = t[1]
    BY <1>2, <1>5
  <2>3. Below(s, v)
    BY <1>3, <2>1, <2>2 DEF Below, m
  <2>4. QED
    BY <1>3, <2>2, <2>3 DEF Under, m
<1>6. QED
  BY <1>4, <1>5 DEF u, v, n

-----------------------------------------------------------------------------
(* Types *)

LEMMA PiecesTyped ==
  ASSUME NEW m \in Entries \cup {Blank}
  PROVE  /\ m \in Entries => /\ PiecesOf(m) = <<2 * m - 1, 2 * m>>
                              /\ 2 * m - 1 \in Pieces /\ 2 * m \in Pieces
         /\ PiecesOf(m) \in Seq(Pieces)
<1>1. ASSUME m \in Entries PROVE 2 * m - 1 \in Pieces /\ 2 * m \in Pieces
  BY <1>1, ClientAssumption DEF Entries, Pieces
<1>2. m \in Entries => PiecesOf(m) = <<2 * m - 1, 2 * m>>
  BY ClientAssumption DEF PiecesOf
<1>3. m = Blank => PiecesOf(m) = <<>>
  BY DEF PiecesOf
<1>4. <<>> \in Seq(Pieces)
  OBVIOUS
<1>5. \A a, b \in Pieces : <<a, b>> \in Seq(Pieces)
  OBVIOUS
<1>6. QED
  BY <1>1, <1>2, <1>3, <1>4, <1>5

LEMMA CompletesTyped ==
  ASSUME TypeOK, NEW q \in Seq(Entries \cup {Blank}), Completes(q)
  PROVE  /\ running' \in BOOLEAN /\ races' \in 0 .. MaxRaces
         /\ writeQueue' \in Seq(Entries \cup {Blank})
<1>1. CASE writeQueue' = q /\ UNCHANGED <<running, races>>
  BY <1>1 DEF TypeOK
<1>2. CASE /\ adding /\ using /\ races < MaxRaces /\ races' = races + 1
           /\ \/ running' = FALSE /\ UNCHANGED writeQueue
              \/ writeQueue' \in Spoilt /\ UNCHANGED running
  <2>1. races' \in 0 .. MaxRaces
    BY <1>2, ClientAssumption DEF TypeOK
  <2>2. Spoilt \subseteq Seq(Entries \cup {Blank})
    <3>1. <<>> \in Seq(Entries \cup {Blank})
      OBVIOUS
    <3>2. \A m \in Entries \cup {Blank} : <<m>> \in Seq(Entries \cup {Blank})
      OBVIOUS
    <3>3. QED
      BY <3>1, <3>2 DEF Spoilt
  <2>3. QED
    BY <1>2, <2>1, <2>2 DEF TypeOK
<1>3. QED
  BY <1>1, <1>2 DEF Completes

(* The message that is being added was typed. *)
TypeInv == TypeOK /\ (adding => typed \in Entries)

LEMMA TypeInit == ASSUME Init PROVE TypeInv
<1>1. <<>> \in Seq(Entries \cup {Blank}) /\ <<>> \in Seq(Pieces)
  OBVIOUS
<1>2. 0 \in 0 .. MaxTyped /\ 0 \in 0 .. MaxDrops /\ 0 \in 0 .. MaxRaces /\ 0 \in 0 .. TimeOut
  BY ClientAssumption
<1>3. QED
  BY <1>1, <1>2 DEF Init, TypeOK, TypeInv

LEMMA TypeStep == ASSUME TypeInv, [Next]_vars PROVE TypeOK'
<1> USE DEF TypeOK, TypeInv
<1>1. CASE PushBegins
  <2>1. typed + 1 \in 0 .. MaxTyped
    BY <1>1, ClientAssumption DEF PushBegins
  <2>2. overlapped' \in BOOLEAN
    BY <1>1 DEF PushBegins
  <2>3. QED
    BY <1>1, <2>1, <2>2 DEF PushBegins, linkVars, streamVars
<1>2. CASE PushEnds
  <2>1. typed \in Entries
    BY <1>2 DEF PushEnds
  <2>2. Append(writeQueue, typed) \in Seq(Entries \cup {Blank})
    BY <2>1, Appended
  <2>3. Completes(Append(writeQueue, typed))
    BY <1>2 DEF PushEnds
  <2>4. QED
    BY <1>2, <2>2, <2>3, CompletesTyped DEF PushEnds, linkVars, streamVars
<1>3. CASE write_cb
  <2>1. Head(writeQueue) \in Entries \cup {Blank}
    BY <1>3, Tailed DEF write_cb
  <2>2. PiecesOf(Head(writeQueue)) \in Seq(Pieces)
    BY <2>1, PiecesTyped
  <2>3. output' \in Seq(Pieces)
    BY <1>3, <2>2, ConcatProperties DEF write_cb
  <2>4. overlapped' \in BOOLEAN
    BY <1>3 DEF write_cb
  <2>5. QED
    BY <1>3, <2>3, <2>4 DEF write_cb, terminalVars, linkVars, streamVars
<1>4. CASE EraseEnds
  <2>1. erase(writeQueue) \in Seq(Entries \cup {Blank})
    <3>1. writeQueue # <<>> => Tail(writeQueue) \in Seq(Entries \cup {Blank})
      BY Tailed
    <3>2. erase(writeQueue) = writeQueue
          \/ (writeQueue # <<>> /\ erase(writeQueue) = Tail(writeQueue))
      BY DEF erase
    <3>3. QED
      BY <3>1, <3>2
  <2>2. Completes(erase(writeQueue))
    BY <1>4 DEF EraseEnds
  <2>3. QED
    BY <1>4, <2>1, <2>2, CompletesTyped DEF EraseEnds, terminalVars, linkVars, streamVars
<1>5. CASE Connected
  BY <1>5 DEF Connected, terminalVars, queueVars, streamVars
<1>6. CASE Flush
  <2>1. Tail(output) \in Seq(Pieces) /\ Head(output) \in Pieces
    BY <1>6, Tailed DEF Flush
  <2>2. Append(wire, Head(output)) \in Seq(Pieces)
    BY <2>1, Appended
  <2>3. QED
    BY <1>6, <2>1, <2>2 DEF Flush, terminalVars, queueVars, linkVars
<1>7. CASE Arrive
  <2>1. Tail(wire) \in Seq(Pieces) /\ Head(wire) \in Pieces
    BY <1>7, Tailed DEF Arrive
  <2>2. Append(received, Head(wire)) \in Seq(Pieces)
    BY <2>1, Appended
  <2>3. QED
    BY <1>7, <2>1, <2>2 DEF Arrive, terminalVars, queueVars, linkVars
<1>8. CASE Drop
  <2>1. drops + 1 \in 0 .. MaxDrops
    BY <1>8, ClientAssumption DEF Drop
  <2>2. {wire[i] : i \in DOMAIN wire} \subseteq Pieces
    BY ElementOfSeq, LenProperties
  <2>3. <<>> \in Seq(Pieces)
    OBVIOUS
  <2>4. QED
    BY <1>8, <2>1, <2>2, <2>3 DEF Drop, terminalVars, queueVars
<1>9. CASE EofEvent
  BY <1>9 DEF EofEvent, terminalVars, queueVars, streamVars
<1>10. CASE ErrorEvent
  <2>1. TimeOut \in 0 .. TimeOut /\ TimeOut # 0
    BY ClientAssumption
  <2>2. QED
    BY <1>10, <2>1 DEF ErrorEvent, terminalVars, queueVars, streamVars
<1>11. CASE Reconnected
  BY <1>11 DEF Reconnected, terminalVars, queueVars, streamVars
<1>12. CASE ConnectFails
  <2>1. timeOut - 1 \in 0 .. TimeOut
    BY <1>12, ClientAssumption DEF ConnectFails
  <2>2. bev' = "freed" \/ (bev' = bev /\ timeOut' # 0)
    BY <1>12 DEF ConnectFails
  <2>3. QED
    BY <1>12, <2>1, <2>2 DEF ConnectFails, terminalVars, queueVars, streamVars
<1>13. CASE LoopEnds
  BY <1>13 DEF LoopEnds, terminalVars, queueVars, streamVars
<1>14. CASE UNCHANGED vars
  BY <1>14 DEF vars, terminalVars, queueVars, linkVars, streamVars
<1>15. QED
  BY <1>1, <1>2, <1>3, <1>4, <1>5, <1>6, <1>7, <1>8, <1>9, <1>10, <1>11, <1>12, <1>13,
     <1>14 DEF Next, Loop

LEMMA TypeInvStep == ASSUME TypeInv, [Next]_vars PROVE TypeInv'
<1>1. TypeOK'
  BY TypeStep
<1>2. CASE PushBegins
  BY <1>2, <1>1, ClientAssumption DEF PushBegins, TypeInv, TypeOK, Entries
<1>3. CASE PushEnds
  BY <1>1, <1>3 DEF PushEnds, TypeInv
<1>4. CASE UNCHANGED <<typed, adding>>
  BY <1>1, <1>4 DEF TypeInv
<1>5. Loop \/ LoopEnds \/ Arrive \/ Drop => UNCHANGED <<typed, adding>>
  BY DEF Loop, LoopEnds, Arrive, Drop, write_cb, EraseEnds, Connected, Flush, EofEvent,
         ErrorEvent, Reconnected, ConnectFails, terminalVars
<1>6. QED
  BY <1>2, <1>3, <1>4, <1>5 DEF Next, vars, terminalVars

(* Every variable keeps its type, the pieces in every buffer are pieces of *)
(* messages, no count leaves its bound, and a reconnection that goes on has*)
(* a connect left (ClientDatas.cpp).                                       *)
THEOREM Typing == Spec => []TypeOK
<1>1. TypeInv => TypeOK
  BY DEF TypeInv
<1>2. QED
  BY <1>1, TypeInit, TypeInvStep, PTL DEF Spec

-----------------------------------------------------------------------------
(* In order and at most once *)

(* The messages that writeQueue has still to give to the bufferevent. *)
Queued == IF using THEN Tail(writeQueue) ELSE writeQueue

(* The last message whose push_back is over. *)
Pushed == IF adding THEN typed - 1 ELSE typed

(* Every piece in s was pushed, and none belongs to a message in q. *)
Before(s, q, last) ==
  \A i \in 1 .. Len(s) :
    s[i] <= 2 * last /\ \A k \in 1 .. Len(q) : s[i] < 2 * q[k] - 1

QueueInv ==
  /\ writeQueue \in Seq(Entries)
  /\ Increasing(writeQueue)
  /\ \A k \in 1 .. Len(writeQueue) : writeQueue[k] <= Pushed
  /\ ~(adding /\ using)
  /\ using => writeQueue # <<>>

StreamInv ==
  /\ Increasing(received) /\ Increasing(wire) /\ Increasing(output)
  /\ Below(received, wire) /\ Below(received, output) /\ Below(wire, output)

(* As long as nothing overlapped, what the service has got, what is on the *)
(* wire, what waits in the output and what waits in writeQueue increase,   *)
(* one after the other.                                                    *)
OrderInv ==
  ~overlapped =>
    /\ QueueInv /\ StreamInv
    /\ Before(received, Queued, Pushed) /\ Before(wire, Queued, Pushed)
    /\ Before(output, Queued, Pushed)

Inv == TypeInv /\ OrderInv

LEMMA OrderInit == ASSUME Init PROVE OrderInv
<1>1. <<>> \in Seq(Entries) /\ Len(<<>>) = 0
  OBVIOUS
<1>2. QueueInv
  BY <1>1 DEF Init, QueueInv, Increasing
<1>3. StreamInv
  BY <1>1 DEF Init, StreamInv, Increasing, Below
<1>4. \A q, last : Before(<<>>, q, last)
  BY <1>1 DEF Before
<1>5. QED
  BY <1>2, <1>3, <1>4 DEF Init, OrderInv

(* Numbers *)
LEMMA Numbers ==
  ASSUME TypeInv
  PROVE  /\ Entries \subseteq Nat /\ Pieces \subseteq Nat /\ typed \in Nat
         /\ Pushed \in Nat /\ (~adding => Pushed = typed) /\ (adding => Pushed = typed - 1)
         /\ received \in Seq(Nat) /\ wire \in Seq(Nat) /\ output \in Seq(Nat)
<1>1. Entries \subseteq Nat /\ Pieces \subseteq Nat
  BY ClientAssumption DEF Entries, Pieces
<1>2. typed \in Nat /\ (adding => typed - 1 \in Nat)
  BY <1>1, ClientAssumption DEF TypeInv, TypeOK, Entries
<1>3. \A s : s \in Seq(Pieces) => s \in Seq(Nat)
  BY <1>1, SeqMonotonic
<1>4. (~adding => Pushed = typed) /\ (adding => Pushed = typed - 1)
  BY DEF Pushed
<1>5. QED
  BY <1>1, <1>2, <1>3, <1>4 DEF TypeInv, TypeOK

(* While the threads do not overlap, an operation on writeQueue has its    *)
(* effect.                                                                 *)
LEMMA CompletesAlone ==
  ASSUME NEW q, Completes(q), ~(adding /\ using)
  PROVE  writeQueue' = q
BY DEF Completes

LEMMA AfterPushBegins == ASSUME Inv, PushBegins PROVE OrderInv'
<1> SUFFICES ASSUME ~overlapped' PROVE OrderInv'
  BY DEF OrderInv
<1>1. ~overlapped /\ ~using /\ ~using' /\ ~adding /\ adding' /\ typed' = typed + 1
  BY DEF PushBegins
<1>2. UNCHANGED <<writeQueue, received, wire, output>>
  BY DEF PushBegins, streamVars
<1>3. Queued' = Queued
  BY <1>1, <1>2 DEF Queued
<1>4. Pushed' = Pushed
  <2>1. Pushed = typed /\ typed \in Nat
    BY <1>1, Numbers DEF Inv
  <2>2. Pushed' = typed' - 1
    BY <1>1 DEF Pushed
  <2>3. QED
    BY <1>1, <2>1, <2>2
<1>5. QueueInv'
  BY <1>1, <1>2, <1>4 DEF Inv, OrderInv, QueueInv
<1>6. QED
  BY <1>1, <1>2, <1>3, <1>4, <1>5 DEF Inv, OrderInv, StreamInv

LEMMA BeforePush ==
  ASSUME NEW s \in Seq(Nat), NEW q \in Seq(Nat), NEW last \in Nat, Before(s, q, last)
  PROVE  Before(s, Append(q, last + 1), last + 1)
<1> DEFINE r == Append(q, last + 1)  n == Len(q)
<1>1. /\ Len(r) = n + 1 /\ n \in Nat /\ (\A k \in 1 .. n : r[k] = q[k])
      /\ r[n + 1] = last + 1
  BY Appended
<1> HIDE DEF r, n
<1> SUFFICES ASSUME NEW i \in 1 .. Len(s)
             PROVE  /\ s[i] <= 2 * (last + 1)
                    /\ \A k \in 1 .. n + 1 : s[i] < 2 * r[k] - 1
  BY <1>1 DEF Before, r
<1>2. s[i] \in Nat /\ s[i] <= 2 * last
  BY ElementOfSeq DEF Before
<1>3. s[i] < 2 * (last + 1) - 1
  BY <1>2
<1>4. ASSUME NEW k \in 1 .. n + 1 PROVE s[i] < 2 * r[k] - 1
  <2>1. CASE k = n + 1
    BY <1>1, <1>3, <2>1
  <2>2. CASE k # n + 1
    <3>1. k \in 1 .. n /\ r[k] = q[k]
      BY <1>1, <2>2
    <3>2. QED
      BY <3>1 DEF Before, n
  <2>3. QED
    BY <2>1, <2>2
<1>5. QED
  BY <1>2, <1>4

LEMMA AfterPushEnds == ASSUME Inv, PushEnds PROVE OrderInv'
<1> SUFFICES ASSUME ~overlapped PROVE OrderInv'
  BY DEF OrderInv, PushEnds
<1>1. /\ adding /\ ~adding' /\ typed' = typed /\ using' = using
      /\ UNCHANGED <<overlapped, received, wire, output>>
  BY DEF PushEnds, streamVars
<1>2. ~using /\ QueueInv
  BY <1>1 DEF Inv, OrderInv, QueueInv
<1>3. typed \in Entries /\ Entries \subseteq Nat /\ Pushed = typed - 1 /\ Pushed \in Nat
  BY <1>1, Numbers DEF Inv, TypeInv
<1>4. writeQueue' = Append(writeQueue, typed)
  BY <1>1, <1>2, CompletesAlone DEF PushEnds
<1>5. Queued = writeQueue /\ Queued' = Append(writeQueue, typed)
  BY <1>1, <1>2, <1>4 DEF Queued
<1>6. Pushed' = typed /\ typed = Pushed + 1
  BY <1>1, <1>3 DEF Pushed
<1>7. writeQueue \in Seq(Entries) /\ writeQueue \in Seq(Nat)
  <2>1. \A s : s \in Seq(Entries) => s \in Seq(Nat)
    BY <1>3, SeqMonotonic
  <2>2. QED
    BY <1>2, <2>1 DEF QueueInv
<1>8. QueueInv'
  <2> DEFINE q == writeQueue  r == Append(q, typed)  n == Len(q)
  <2>1. /\ r \in Seq(Entries) /\ Len(r) = n + 1 /\ n \in Nat
        /\ (\A k \in 1 .. n : r[k] = q[k]) /\ r[n + 1] = typed
    BY <1>3, <1>7, Appended
  <2>2. \A k \in 1 .. n : q[k] <= Pushed /\ q[k] \in Nat
    BY <1>2, <1>7, ElementOfSeq DEF QueueInv
  <2> HIDE DEF q, r, n
  <2>3. Under(writeQueue, typed)
    BY <1>3, <2>2 DEF Under, q, n
  <2>4. Increasing(r)
    BY <1>2, <1>3, <1>7, <2>3, AppendIncreasing DEF QueueInv, q, r
  <2>5. \A k \in 1 .. n + 1 : r[k] <= typed
    <3> SUFFICES ASSUME NEW k \in 1 .. n + 1 PROVE r[k] <= typed
      OBVIOUS
    <3>1. k \in 1 .. n => r[k] <= typed
      BY <1>3, <2>1, <2>2
    <3>2. k = n + 1 => r[k] <= typed
      BY <1>3, <2>1
    <3>3. QED
      BY <2>1, <3>1, <3>2
  <2>6. QED
    BY <1>1, <1>2, <1>4, <1>6, <2>1, <2>4, <2>5 DEF QueueInv, q, r
<1>9. ASSUME NEW s \in Seq(Nat), Before(s, Queued, Pushed)
      PROVE  Before(s, Queued', Pushed')
  BY <1>3, <1>5, <1>6, <1>7, <1>9, BeforePush
<1>10. received \in Seq(Nat) /\ wire \in Seq(Nat) /\ output \in Seq(Nat)
  BY Numbers DEF Inv
<1>11. QED
  BY <1>1, <1>8, <1>9, <1>10 DEF Inv, OrderInv, StreamInv

LEMMA QueueNumbers ==
  ASSUME TypeInv, QueueInv
  PROVE  writeQueue \in Seq(Nat) /\ \A k \in 1 .. Len(writeQueue) : writeQueue[k] \in Nat
<1>1. Entries \subseteq Nat
  BY Numbers
<1>2. writeQueue \in Seq(Nat)
  BY <1>1, SeqMonotonic DEF QueueInv
<1>3. QED
  BY <1>2, ElementOfSeq

LEMMA AfterWrite == ASSUME Inv, write_cb PROVE OrderInv'
<1> SUFFICES ASSUME ~overlapped' PROVE OrderInv'
  BY DEF OrderInv
<1>1. /\ ~overlapped /\ ~adding /\ ~adding' /\ ~using /\ using' /\ writeQueue # <<>>
      /\ UNCHANGED <<typed, writeQueue, received, wire>>
      /\ output' = output \o PiecesOf(Head(writeQueue))
  BY DEF write_cb, terminalVars, streamVars
<1>2. QueueInv /\ StreamInv
  BY <1>1 DEF Inv, OrderInv
<1> DEFINE m == Head(writeQueue)  q == Tail(writeQueue)
<1>3. /\ m \in Entries /\ m \in Nat /\ m = writeQueue[1] /\ 1 \in 1 .. Len(writeQueue)
      /\ q \in Seq(Entries) /\ Len(q) = Len(writeQueue) - 1
      /\ \A k \in 1 .. Len(writeQueue) - 1 : q[k] = writeQueue[k + 1]
  BY <1>1, <1>2, Tailed, Numbers DEF Inv, QueueInv
<1>4. Queued = writeQueue /\ Queued' = q /\ Pushed' = Pushed /\ Pushed \in Nat
  BY <1>1, Numbers DEF Queued, Pushed, Inv
<1>5. m <= Pushed
  BY <1>2, <1>3 DEF QueueInv
<1>6. QueueInv'
  BY <1>1, <1>2, <1>4 DEF QueueInv
<1>7. writeQueue \in Seq(Nat) /\ \A k \in 1 .. Len(writeQueue) : writeQueue[k] \in Nat
  BY <1>2, QueueNumbers DEF Inv
<1>8. ASSUME NEW k \in 1 .. Len(q) PROVE q[k] \in Nat /\ m < q[k] /\ k + 1 \in 1 .. Len(writeQueue)
  <2>1. k + 1 \in 1 .. Len(writeQueue) /\ 1 < k + 1 /\ q[k] = writeQueue[k + 1]
    BY <1>3
  <2>2. writeQueue[1] < writeQueue[k + 1]
    BY <1>2, <1>3, <2>1 DEF QueueInv, Increasing
  <2>3. QED
    BY <1>3, <1>7, <2>1, <2>2
<1> HIDE DEF m, q
<1> DEFINE a == 2 * m - 1  b == 2 * m  once == Append(output, a)  twice == Append(once, b)
<1>9. m # 0 /\ a \in Nat /\ b \in Nat /\ a < b
  BY <1>3, ClientAssumption DEF Entries
<1>10. received \in Seq(Nat) /\ wire \in Seq(Nat) /\ output \in Seq(Nat)
  BY Numbers DEF Inv
<1>11. output' = twice
  <2>1. output' = output \o <<a, b>>
    BY <1>1, <1>3, PiecesTyped DEF m
  <2>2. once = output \o <<a>> /\ once \in Seq(Nat)
    BY <1>9, <1>10, AppendIsConcat, Appended
  <2>3. twice = once \o <<b>>
    BY <1>9, <2>2, AppendIsConcat
  <2>4. <<a>> \in Seq(Nat) /\ <<b>> \in Seq(Nat) /\ <<a>> \o <<b>> = <<a, b>>
    <3>1. <<a>> \in Seq(Nat) /\ <<b>> \in Seq(Nat)
      BY <1>9
    <3>2. QED
      BY <1>9, <3>1, Pair
  <2>5. QED
    BY <1>10, <2>1, <2>2, <2>3, <2>4, ConcatAssociative
<1>12. Under(received, a) /\ Under(wire, a) /\ Under(output, a)
  BY <1>1, <1>3, <1>4 DEF Inv, OrderInv, Before, Under, m
<1> HIDE DEF a, b
<1>13. /\ once \in Seq(Nat) /\ Len(once) = Len(output) + 1 /\ Len(output) \in Nat
       /\ (\A i \in 1 .. Len(output) : once[i] = output[i]) /\ once[Len(output) + 1] = a
  BY <1>9, <1>10, Appended
<1> DEFINE n == Len(output)
<1>14. \A s : s \in Seq(Nat) /\ Under(s, a) => Under(s, b)
  <2> SUFFICES ASSUME NEW s \in Seq(Nat), Under(s, a), NEW i \in 1 .. Len(s) PROVE s[i] < b
    BY DEF Under
  <2>1. s[i] \in Nat /\ s[i] < a
    BY ElementOfSeq DEF Under
  <2>2. QED
    BY <1>9, <2>1
<1>15. Under(once, b)
  <2> SUFFICES ASSUME NEW i \in 1 .. n + 1 PROVE once[i] < b
    BY <1>13 DEF Under
  <2>1. i = n + 1 => once[i] < b
    BY <1>9, <1>13
  <2>2. i # n + 1 => once[i] < b
    <3>1. Under(output, b)
      BY <1>10, <1>12, <1>14
    <3>2. i # n + 1 => i \in 1 .. Len(output)
      BY <1>13
    <3>3. QED
      BY <1>13, <3>1, <3>2 DEF Under
  <2>3. QED
    BY <2>1, <2>2
<1>16. Increasing(once) /\ Increasing(twice)
  BY <1>2, <1>9, <1>10, <1>12, <1>13, <1>15, AppendIncreasing DEF StreamInv
<1>17. /\ Below(received, once) /\ Below(wire, once)
       /\ Below(received, twice) /\ Below(wire, twice)
  <2>1. Below(received, once) /\ Below(wire, once)
    BY <1>2, <1>9, <1>10, <1>12, AppendBelow DEF StreamInv
  <2>2. Below(received, twice) /\ Below(wire, twice)
    BY <1>9, <1>10, <1>12, <1>13, <1>14, <2>1, AppendBelow
  <2>3. QED
    BY <2>1, <2>2
<1>18. StreamInv'
  BY <1>1, <1>2, <1>11, <1>16, <1>17 DEF StreamInv
<1>19. ASSUME NEW s \in Seq(Nat), Before(s, writeQueue, Pushed)
       PROVE  Before(s, q, Pushed)
  BY <1>3, <1>8, <1>19 DEF Before
<1>20. Before(twice, q, Pushed)
  <2>1. /\ Len(twice) = (n + 1) + 1 /\ twice[(n + 1) + 1] = b
        /\ \A i \in 1 .. n + 1 : twice[i] = once[i]
    BY <1>9, <1>13, Appended
  <2>2. \A i \in 1 .. n : twice[i] = output[i]
    BY <1>13, <2>1
  <2>3. twice[n + 1] = a
    BY <1>13, <2>1
  <2>4. \A i \in 1 .. (n + 1) + 1 : i \in 1 .. n \/ i = n + 1 \/ i = (n + 1) + 1
    BY <1>13
  <2>5. Before(output, q, Pushed)
    BY <1>1, <1>4, <1>10, <1>19 DEF Inv, OrderInv
  <2>6. a <= 2 * Pushed /\ \A k \in 1 .. Len(q) : a < 2 * q[k] - 1
    BY <1>3, <1>4, <1>5, <1>8 DEF a
  <2>7. b <= 2 * Pushed /\ \A k \in 1 .. Len(q) : b < 2 * q[k] - 1
    BY <1>3, <1>4, <1>5, <1>8 DEF b
  <2> HIDE DEF twice, n
  <2>8. QED
    BY <2>1, <2>2, <2>3, <2>4, <2>5, <2>6, <2>7 DEF Before, n
<1>21. /\ Before(received, Queued, Pushed)' /\ Before(wire, Queued, Pushed)'
       /\ Before(output, Queued, Pushed)'
  BY <1>1, <1>4, <1>10, <1>11, <1>19, <1>20 DEF Inv, OrderInv
<1>22. QED
  BY <1>6, <1>18, <1>21 DEF OrderInv

LEMMA AfterErase == ASSUME Inv, EraseEnds PROVE OrderInv'
<1> SUFFICES ASSUME ~overlapped PROVE OrderInv'
  BY DEF OrderInv, EraseEnds
<1>1. using /\ ~using' /\ UNCHANGED <<typed, adding, received, wire, output>>
  BY DEF EraseEnds, terminalVars, streamVars
<1>2. QueueInv /\ ~adding /\ writeQueue # <<>>
  BY <1>1 DEF Inv, OrderInv, QueueInv
<1>3. writeQueue' = Tail(writeQueue)
  BY <1>1, <1>2, CompletesAlone DEF EraseEnds, erase
<1>4. Queued' = Queued /\ Pushed' = Pushed
  BY <1>1, <1>3 DEF Queued, Pushed
<1>5. writeQueue \in Seq(Nat)
  BY <1>2, QueueNumbers DEF Inv
<1>6. QueueInv'
  <2>1. /\ Tail(writeQueue) \in Seq(Entries) /\ Len(Tail(writeQueue)) = Len(writeQueue) - 1
        /\ Len(writeQueue) \in Nat \ {0}
        /\ \A i \in 1 .. Len(writeQueue) - 1 : Tail(writeQueue)[i] = writeQueue[i + 1]
    BY <1>2, Tailed DEF QueueInv
  <2>2. \A i \in 1 .. Len(writeQueue) - 1 : i + 1 \in 1 .. Len(writeQueue)
    BY <2>1
  <2>3. Increasing(Tail(writeQueue))
    BY <1>2, <1>5, TailIncreasing DEF QueueInv
  <2>4. QED
    BY <1>1, <1>2, <1>3, <1>4, <2>1, <2>2, <2>3 DEF QueueInv
<1>7. QED
  BY <1>1, <1>4, <1>6 DEF Inv, OrderInv, StreamInv

LEMMA BeforeTail ==
  ASSUME NEW s \in Seq(Nat), s # <<>>, NEW q, NEW last, Before(s, q, last)
  PROVE  /\ Before(Tail(s), q, last)
         /\ Head(s) <= 2 * last /\ \A k \in 1 .. Len(q) : Head(s) < 2 * q[k] - 1
<1>1. /\ Len(Tail(s)) = Len(s) - 1 /\ Len(s) \in Nat \ {0} /\ Head(s) = s[1]
      /\ \A i \in 1 .. Len(s) - 1 : Tail(s)[i] = s[i + 1]
  BY Tailed
<1>2. 1 \in 1 .. Len(s) /\ \A i \in 1 .. Len(s) - 1 : i + 1 \in 1 .. Len(s)
  BY <1>1
<1>3. QED
  BY <1>1, <1>2 DEF Before

LEMMA BeforeAppend ==
  ASSUME NEW s \in Seq(Nat), NEW e \in Nat, NEW q, NEW last, Before(s, q, last),
         e <= 2 * last /\ \A k \in 1 .. Len(q) : e < 2 * q[k] - 1
  PROVE  Before(Append(s, e), q, last)
<1> DEFINE t == Append(s, e)  n == Len(s)
<1>1. Len(t) = n + 1 /\ n \in Nat /\ (\A i \in 1 .. n : t[i] = s[i]) /\ t[n + 1] = e
  BY Appended
<1>2. \A i \in 1 .. n + 1 : i \in 1 .. n \/ i = n + 1
  BY <1>1
<1> HIDE DEF t, n
<1>3. QED
  BY <1>1, <1>2 DEF Before, t, n

(* A piece that moves from the front of t to the end of s. *)
LEMMA Moved ==
  ASSUME NEW s \in Seq(Nat), NEW t \in Seq(Nat), t # <<>>, NEW q, NEW last,
         Increasing(s), Increasing(t), Below(s, t), Before(s, q, last), Before(t, q, last)
  PROVE  /\ Increasing(Append(s, Head(t))) /\ Increasing(Tail(t))
         /\ Below(Append(s, Head(t)), Tail(t))
         /\ Before(Append(s, Head(t)), q, last) /\ Before(Tail(t), q, last)
<1>1. Tail(t) \in Seq(Nat) /\ Head(t) \in Nat
  BY Tailed
<1>2. Under(s, Head(t)) /\ Below(s, Tail(t))
  BY TailBelow
<1>3. Increasing(Append(s, Head(t)))
  BY <1>1, <1>2, AppendIncreasing
<1>4. Increasing(Tail(t)) /\ Below(<<Head(t)>>, Tail(t))
  BY TailIncreasing
<1>5. \A j \in 1 .. Len(Tail(t)) : Head(t) < Tail(t)[j]
  <2>1. Len(<<Head(t)>>) = 1 /\ <<Head(t)>>[1] = Head(t) /\ 1 \in 1 .. 1
    BY <1>1
  <2>2. QED
    BY <1>4, <2>1 DEF Below
<1>6. Below(Append(s, Head(t)), Tail(t))
  BY <1>1, <1>2, <1>5, AppendBelow
<1>7. Before(Append(s, Head(t)), q, last) /\ Before(Tail(t), q, last)
  BY <1>1, BeforeTail, BeforeAppend
<1>8. QED
  BY <1>3, <1>4, <1>6, <1>7

LEMMA AfterFlush == ASSUME Inv, Flush PROVE OrderInv'
<1> SUFFICES ASSUME ~overlapped PROVE OrderInv'
  BY DEF OrderInv, Flush, queueVars
<1>1. /\ UNCHANGED <<typed, adding, using, writeQueue, received>>
      /\ wire' = Append(wire, Head(output)) /\ output' = Tail(output) /\ output # <<>>
  BY DEF Flush, terminalVars, queueVars
<1>2. Queued' = Queued /\ Pushed' = Pushed /\ QueueInv'
  BY <1>1 DEF Queued, Pushed, QueueInv, Inv, OrderInv
<1>3. received \in Seq(Nat) /\ wire \in Seq(Nat) /\ output \in Seq(Nat) /\ Head(output) \in Nat
  BY <1>1, Numbers, Tailed DEF Inv
<1>4. StreamInv /\ Before(wire, Queued, Pushed) /\ Before(output, Queued, Pushed)
      /\ Before(received, Queued, Pushed)
  BY DEF Inv, OrderInv
<1>5. /\ Increasing(wire') /\ Increasing(output') /\ Below(wire', output')
      /\ Before(wire', Queued, Pushed) /\ Before(output', Queued, Pushed)
  BY <1>1, <1>3, <1>4, Moved DEF StreamInv
<1>6. Under(received, Head(output)) /\ Below(received, output')
  BY <1>1, <1>3, <1>4, TailBelow DEF StreamInv
<1>7. Below(received, wire')
  BY <1>1, <1>3, <1>4, <1>6, AppendBelow DEF StreamInv
<1>8. StreamInv'
  BY <1>1, <1>4, <1>5, <1>6, <1>7 DEF StreamInv
<1>9. QED
  BY <1>1, <1>2, <1>4, <1>5, <1>8 DEF OrderInv

LEMMA AfterArrive == ASSUME Inv, Arrive PROVE OrderInv'
<1> SUFFICES ASSUME ~overlapped PROVE OrderInv'
  BY DEF OrderInv, Arrive, queueVars
<1>1. /\ UNCHANGED <<typed, adding, using, writeQueue, output>>
      /\ received' = Append(received, Head(wire)) /\ wire' = Tail(wire) /\ wire # <<>>
  BY DEF Arrive, terminalVars, queueVars
<1>2. Queued' = Queued /\ Pushed' = Pushed /\ QueueInv'
  BY <1>1 DEF Queued, Pushed, QueueInv, Inv, OrderInv
<1>3. received \in Seq(Nat) /\ wire \in Seq(Nat) /\ output \in Seq(Nat) /\ Head(wire) \in Nat
  BY <1>1, Numbers, Tailed DEF Inv
<1>4. StreamInv /\ Before(wire, Queued, Pushed) /\ Before(output, Queued, Pushed)
      /\ Before(received, Queued, Pushed)
  BY DEF Inv, OrderInv
<1>5. /\ Increasing(received') /\ Increasing(wire') /\ Below(received', wire')
      /\ Before(received', Queued, Pushed) /\ Before(wire', Queued, Pushed)
  BY <1>1, <1>3, <1>4, Moved DEF StreamInv
<1>6. Below(wire', output) /\ \A j \in 1 .. Len(output) : Head(wire) < output[j]
  BY <1>1, <1>3, <1>4, TailBelow DEF StreamInv
<1>7. Below(received', output)
  BY <1>1, <1>3, <1>4, <1>6, AppendBelow DEF StreamInv
<1>8. StreamInv'
  BY <1>1, <1>4, <1>5, <1>6, <1>7 DEF StreamInv
<1>9. QED
  BY <1>1, <1>2, <1>4, <1>5, <1>8 DEF OrderInv

LEMMA AfterDrop == ASSUME Inv, Drop PROVE OrderInv'
<1> SUFFICES ASSUME ~overlapped PROVE OrderInv'
  BY DEF OrderInv, Drop, queueVars
<1>1. UNCHANGED <<typed, adding, using, writeQueue, received, output>> /\ wire' = <<>>
  BY DEF Drop, terminalVars, queueVars
<1>2. Queued' = Queued /\ Pushed' = Pushed /\ QueueInv'
  BY <1>1 DEF Queued, Pushed, QueueInv, Inv, OrderInv
<1>3. Len(<<>>) = 0
  OBVIOUS
<1>4. Increasing(<<>>) /\ Below(received, <<>>) /\ Below(<<>>, output)
      /\ Before(<<>>, Queued, Pushed)
  BY <1>3 DEF Increasing, Below, Before
<1>5. QED
  BY <1>1, <1>2, <1>4 DEF Inv, OrderInv, StreamInv

LEMMA OrderStep == ASSUME Inv, [Next]_vars PROVE OrderInv'
<1>1. ASSUME UNCHANGED <<typed, adding, using, writeQueue, overlapped, received, wire, output>>
      PROVE  OrderInv'
  BY <1>1 DEF Inv, OrderInv, QueueInv, StreamInv, Queued, Pushed
<1>2. CASE Connected \/ EofEvent \/ ErrorEvent \/ Reconnected \/ ConnectFails \/ LoopEnds
  BY <1>1, <1>2 DEF Connected, EofEvent, ErrorEvent, Reconnected, ConnectFails, LoopEnds,
                    terminalVars, queueVars, streamVars
<1>3. CASE UNCHANGED vars
  BY <1>1, <1>3 DEF vars, terminalVars, queueVars, streamVars
<1>4. QED
  BY <1>2, <1>3, AfterPushBegins, AfterPushEnds, AfterWrite, AfterErase, AfterFlush,
     AfterArrive, AfterDrop DEF Next, Loop

(* Over all connections together the service gets the bytes in the order   *)
(* they were typed and none of them twice, whatever is lost, unless a push *)
(* overlaps write_cb (ClientDatas.cpp, SendMsg, write_cb and error_cb).    *)
THEOREM InOrder == Spec => []InOrderOnce
<1>1. Inv => InOrderOnce
  <2> SUFFICES ASSUME Inv, ~overlapped PROVE InOrderOnce
    BY DEF InOrderOnce
  <2>1. received \in Seq(Nat)
    BY Numbers DEF Inv
  <2>2. DOMAIN received = 1 .. Len(received)
    BY <2>1, LenProperties
  <2>3. Increasing(received)
    BY DEF Inv, OrderInv, StreamInv
  <2>4. QED
    BY <2>2, <2>3 DEF Increasing, InOrderOnce
<1>2. Init => Inv
  BY TypeInit, OrderInit DEF Inv
<1>3. Inv /\ [Next]_vars => Inv'
  BY TypeInvStep, OrderStep DEF Inv
<1>4. QED
  BY <1>1, <1>2, <1>3, PTL DEF Spec

=============================================================================
