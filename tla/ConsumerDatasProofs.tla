------------------------- MODULE ConsumerDatasProofs -------------------------
(* Proofs about the consumers: their types, and that over a directory that *)
(* exists only a second consumer can make one of them fail, for any files  *)
(* and any number of presses of Start.                                     *)
EXTENDS ConsumerDatas, SequenceTheorems, FiniteSetTheorems, TLAPS

(* A consumer that has names to take in this round. *)
Taking(c) == at[c] \in {"take", "read", "erase"}

(* Consumers are made one after the other, and one that is in a round has  *)
(* names left to take.                                                     *)
TypeInv ==
  /\ TypeOK
  /\ starter = "create" => started < MaxStarts
  /\ \A c \in Consumers : c > started => at[c] = "none"
  /\ \A c \in Consumers : Taking(c) => LoopSize[c] > 0

LEMMA Numbers ==
  /\ MaxStarts \in Nat /\ Consumers \subseteq Nat /\ 0 \in 0 .. MaxStarts
  /\ Cardinality(Files) \in Nat \ {0}
  /\ Files \subseteq Names /\ Garbage \in Names
<1>1. Cardinality(Files) \in Nat /\ Cardinality(Files) # 0
  BY ConsumerAssumption, FS_CardinalityType, FS_EmptySet
<1>2. QED
  BY <1>1, ConsumerAssumption DEF Consumers, Names

(* A listing names at most as many files as there are. *)
LEMMA ListingsTyped ==
  ASSUME NEW s \in Listings
  PROVE  s \in Seq(Names) /\ Len(s) \in 0 .. Cardinality(Files)
<1>1. CASE s \in {<<>>} \cup {<<n>> : n \in Names}
  <2>1. CASE s = <<>>
    BY <2>1, Numbers
  <2>2. CASE s \in {<<n>> : n \in Names}
    <3>1. PICK n \in Names : s = <<n>>
      BY <2>2
    <3>2. s \in Seq(Names) /\ Len(s) = 1
      BY <3>1
    <3>3. 1 \in 0 .. Cardinality(Files)
      BY Numbers
    <3>4. QED
      BY <3>2, <3>3
  <2>3. QED
    BY <1>1, <2>1, <2>2
<1>2. CASE s \in Orders(Present)
  <2> DEFINE n == Cardinality(Present)
  <2>1. Present \subseteq Files
    BY DEF Present
  <2>2. n \in Nat /\ n <= Cardinality(Files)
    BY <2>1, ConsumerAssumption, FS_Subset, FS_CardinalityType
  <2>3. s \in [1 .. n -> Present]
    BY <1>2 DEF Orders
  <2> HIDE DEF n
  <2>4. s \in [1 .. n -> Names]
    BY <2>1, <2>3, Numbers
  <2>5. s \in Seq(Names) /\ Len(s) = n
    BY <2>2, <2>4
  <2>6. QED
    BY <2>2, <2>5, Numbers
<1>3. QED
  BY <1>1, <1>2 DEF Listings

LEMMA TypeInit == ASSUME Init PROVE TypeInv
<1>1. <<>> \in Seq(Names)
  OBVIOUS
<1>2. 0 \in 0 .. Cardinality(Files)
  BY Numbers
<1>3. TypeOK
  BY <1>1, <1>2, Numbers DEF Init, TypeOK
<1>4. QED
  BY <1>3 DEF Init, TypeInv, Taking

(* What a consumer that goes on keeps. *)
LEMMA GotoTyped ==
  ASSUME TypeInv, NEW c \in Consumers,
         NEW w \in {"lock", "list", "take", "read", "erase"}, at[c] # "none", Goto(c, w)
  PROVE  /\ at' \in [Consumers -> {"none", "lock", "list", "take", "read", "erase"}]
         /\ at'[c] = w /\ \A d \in Consumers \ {c} : at'[d] = at[d]
         /\ \A d \in Consumers : d > started => at'[d] = "none"
<1>1. at' = [at EXCEPT ![c] = w]
  BY DEF Goto
<1>2. at \in [Consumers -> {"none", "lock", "list", "take", "read", "erase"}]
  BY DEF TypeInv, TypeOK
<1>3. at'[c] = w /\ \A d \in Consumers \ {c} : at'[d] = at[d]
  BY <1>1, <1>2
<1>4. at' \in [Consumers -> {"none", "lock", "list", "take", "read", "erase"}]
  BY <1>1, <1>2
<1>5. \A d \in Consumers : d > started => at'[d] = "none"
  BY <1>3 DEF TypeInv
<1>6. QED
  BY <1>3, <1>4, <1>5

LEMMA TypeStep == ASSUME TypeInv, [Next]_vars PROVE TypeInv'
<1> USE DEF TypeOK
<1> DEFINE K == 0 .. Cardinality(Files)
<1>1. CASE InitMutex
  <2>1. started + 1 \in 0 .. MaxStarts
    BY <1>1, Numbers DEF InitMutex, TypeInv
  <2>2. QED
    BY <1>1, <2>1 DEF InitMutex, consumerVars, diskVars, TypeInv, Taking
<1>2. CASE Create
  <2>1. CASE /\ started' = started + 1 /\ at' = [at EXCEPT ![started + 1] = "lock"]
             /\ starter' = "destroy" /\ UNCHANGED process
    <3>1. started + 1 \in Consumers /\ started + 1 \in 0 .. MaxStarts
      BY <1>2, Numbers DEF Create, TypeInv, Consumers
    <3>2. at \in [Consumers -> {"none", "lock", "list", "take", "read", "erase"}]
      BY DEF TypeInv
    <3>3. /\ at' \in [Consumers -> {"none", "lock", "list", "take", "read", "erase"}]
          /\ at'[started + 1] = "lock"
          /\ \A d \in Consumers \ {started + 1} : at'[d] = at[d]
      BY <2>1, <3>1, <3>2
    <3>4. \A c \in Consumers : c > started + 1 => at'[c] = "none"
      <4> SUFFICES ASSUME NEW c \in Consumers, c > started + 1 PROVE at'[c] = "none"
        OBVIOUS
      <4>1. c # started + 1 /\ c > started
        BY Numbers DEF TypeInv
      <4>2. QED
        BY <3>3, <4>1 DEF TypeInv
    <3>5. \A c \in Consumers : at'[c] \in {"take", "read", "erase"} => LoopSize[c] > 0
      BY <3>3 DEF TypeInv, Taking
    <3>6. QED
      BY <1>2, <2>1, <3>1, <3>3, <3>4, <3>5 DEF Create, diskVars, TypeInv, Taking
  <2>2. CASE process' = "exit" /\ UNCHANGED <<starter, started, at>>
    BY <1>2, <2>2 DEF Create, diskVars, TypeInv, Taking
  <2>3. QED
    BY <1>2, <2>1, <2>2 DEF Create
<1>3. CASE Destroy
  <2>1. myMutex' \in 0 .. MaxStarts
    <3>1. myMutex' = myMutex \/ myMutex' = 0
      BY <1>3 DEF Destroy
    <3>2. QED
      BY <3>1, Numbers DEF TypeInv
  <2>2. QED
    BY <1>3, <2>1 DEF Destroy, consumerVars, diskVars, TypeInv, Taking
<1>4. ASSUME NEW c \in Consumers, Lock(c) PROVE TypeInv'
  <2>1. at[c] # "none" /\ Goto(c, "list")
    BY <1>4 DEF Lock
  <2>2. /\ at' \in [Consumers -> {"none", "lock", "list", "take", "read", "erase"}]
        /\ at'[c] = "list" /\ \A d \in Consumers \ {c} : at'[d] = at[d]
        /\ \A d \in Consumers : d > started => at'[d] = "none"
    BY <2>1, GotoTyped
  <2>3. owner' \in [Consumers -> 0 .. MaxStarts]
    <3>1. owner' = owner \/ owner' = [owner EXCEPT ![myMutex] = c]
      BY <1>4 DEF Lock
    <3>2. c \in 0 .. MaxStarts
      BY Numbers DEF Consumers
    <3>3. owner \in [Consumers -> 0 .. MaxStarts]
      BY DEF TypeInv
    <3>4. QED
      BY <3>1, <3>2, <3>3
  <2>4. \A d \in Consumers : at'[d] \in {"take", "read", "erase"} => LoopSize[d] > 0
    BY <2>2 DEF TypeInv, Taking
  <2>5. QED
    BY <1>4, <2>2, <2>3, <2>4 DEF Lock, starterVars, diskVars, TypeInv, Taking
<1>5. ASSUME NEW c \in Consumers, List(c) PROVE TypeInv'
  <2>1. CASE /\ Buffers' \in Listings
             /\ LoopSize' = [LoopSize EXCEPT ![c] = Rounds(Len(Buffers'))]
             /\ Goto(c, IF Rounds(Len(Buffers')) = 0 THEN "list" ELSE "take")
             /\ UNCHANGED process
    <3>1. PICK w \in {"list", "take"} : Goto(c, w) /\ (w = "take" => Len(Buffers') # 0)
      BY <2>1 DEF Rounds
    <3>2. /\ at' \in [Consumers -> {"none", "lock", "list", "take", "read", "erase"}]
          /\ at'[c] = w /\ \A d \in Consumers \ {c} : at'[d] = at[d]
          /\ \A d \in Consumers : d > started => at'[d] = "none"
      BY <1>5, <3>1, GotoTyped DEF List
    <3>3. Buffers' \in Seq(Names) /\ Len(Buffers') \in K
      BY <2>1, ListingsTyped
    <3>4. LoopSize' = [LoopSize EXCEPT ![c] = Len(Buffers')]
      BY <2>1 DEF Rounds
    <3>5. LoopSize \in [Consumers -> K]
      BY DEF TypeInv
    <3> HIDE DEF K
    <3>6. /\ LoopSize' \in [Consumers -> K] /\ LoopSize'[c] = Len(Buffers')
          /\ \A d \in Consumers \ {c} : LoopSize'[d] = LoopSize[d]
      BY <3>3, <3>4, <3>5
    <3>7. \A d \in Consumers : at'[d] \in {"take", "read", "erase"} => LoopSize'[d] > 0
      <4> SUFFICES ASSUME NEW d \in Consumers, at'[d] \in {"take", "read", "erase"}
                   PROVE  LoopSize'[d] > 0
        OBVIOUS
      <4>1. CASE d = c
        BY <3>1, <3>2, <3>3, <3>6, <4>1, Numbers DEF K
      <4>2. CASE d # c
        BY <3>2, <3>6, <4>2 DEF TypeInv, Taking
      <4>3. QED
        BY <4>1, <4>2
    <3>8. QED
      BY <1>5, <3>2, <3>3, <3>6, <3>7 DEF List, starterVars, diskVars, TypeInv, Taking, K
  <2>2. CASE ~dirExists /\ process' = "crash" /\ UNCHANGED <<Buffers, LoopSize, at>>
    BY <1>5, <2>2 DEF List, starterVars, diskVars, TypeInv, Taking
  <2>3. QED
    BY <1>5, <2>1, <2>2 DEF List
<1>6. ASSUME NEW c \in Consumers, Take(c) PROVE TypeInv'
  <2>1. CASE Buffers = <<>>
    BY <1>6, <2>1 DEF Take, consumerVars, starterVars, diskVars, TypeInv, Taking
  <2>2. CASE Buffers # <<>>
    <3>1. /\ FileNames' = [FileNames EXCEPT ![c] = Head(Buffers)]
          /\ Goto(c, "read") /\ UNCHANGED <<process, LoopSize>>
      BY <1>6, <2>2 DEF Take
    <3>2. Head(Buffers) \in Names
      BY <2>2, HeadTailProperties, ElementOfSeq, LenProperties DEF TypeInv
    <3>3. FileNames' \in [Consumers -> Names]
      BY <3>1, <3>2 DEF TypeInv
    <3>4. /\ at' \in [Consumers -> {"none", "lock", "list", "take", "read", "erase"}]
          /\ at'[c] = "read" /\ \A d \in Consumers \ {c} : at'[d] = at[d]
          /\ \A d \in Consumers : d > started => at'[d] = "none"
      BY <1>6, <3>1, GotoTyped DEF Take
    <3>5. \A d \in Consumers : at'[d] \in {"take", "read", "erase"} => LoopSize[d] > 0
      BY <1>6, <3>4 DEF Take, TypeInv, Taking
    <3>6. QED
      BY <1>6, <3>1, <3>3, <3>4, <3>5 DEF Take, starterVars, diskVars, TypeInv, Taking
  <2>3. QED
    BY <2>1, <2>2
<1>7. ASSUME NEW c \in Consumers, Read(c) PROVE TypeInv'
  <2>1. /\ at' \in [Consumers -> {"none", "lock", "list", "take", "read", "erase"}]
        /\ at'[c] = "erase" /\ \A d \in Consumers \ {c} : at'[d] = at[d]
        /\ \A d \in Consumers : d > started => at'[d] = "none"
    BY <1>7, GotoTyped DEF Read
  <2>2. \A d \in Consumers : at'[d] \in {"take", "read", "erase"} => LoopSize[d] > 0
    BY <1>7, <2>1 DEF Read, TypeInv, Taking
  <2>3. readWhole' \subseteq Files
    BY <1>7 DEF Read, TypeInv
  <2>4. QED
    BY <1>7, <2>1, <2>2, <2>3 DEF Read, starterVars, diskVars, TypeInv, Taking
<1>8. ASSUME NEW c \in Consumers, Erase(c) PROVE TypeInv'
  <2>1. CASE Buffers = <<>>
    BY <1>8, <2>1 DEF Erase, Kept, consumerVars, starterVars, TypeInv, Taking
  <2>2. CASE Buffers # <<>>
    <3>1. PICK w \in {"list", "take"} : Goto(c, w) /\ (w = "take" => LoopSize[c] # 1)
      BY <1>8, <2>2 DEF Erase
    <3>2. /\ Buffers' = Tail(Buffers) /\ LoopSize' = [LoopSize EXCEPT ![c] = @ - 1]
          /\ UNCHANGED <<process, FileNames>>
      BY <1>8, <2>2 DEF Erase
    <3>3. Buffers' \in Seq(Names)
      BY <2>2, <3>2, HeadTailProperties DEF TypeInv
    <3>4. /\ at' \in [Consumers -> {"none", "lock", "list", "take", "read", "erase"}]
          /\ at'[c] = w /\ \A d \in Consumers \ {c} : at'[d] = at[d]
          /\ \A d \in Consumers : d > started => at'[d] = "none"
      BY <1>8, <3>1, GotoTyped DEF Erase
    <3>5. LoopSize \in [Consumers -> K] /\ LoopSize[c] > 0
      BY <1>8 DEF Erase, TypeInv, Taking
    <3>6. LoopSize[c] - 1 \in K
      BY <3>5, Numbers
    <3> HIDE DEF K
    <3>7. /\ LoopSize' \in [Consumers -> K] /\ LoopSize'[c] = LoopSize[c] - 1
          /\ \A d \in Consumers \ {c} : LoopSize'[d] = LoopSize[d]
      BY <3>2, <3>5, <3>6
    <3>8. \A d \in Consumers : at'[d] \in {"take", "read", "erase"} => LoopSize'[d] > 0
      <4> SUFFICES ASSUME NEW d \in Consumers, at'[d] \in {"take", "read", "erase"}
                   PROVE  LoopSize'[d] > 0
        OBVIOUS
      <4>1. CASE d = c
        <5>1. LoopSize[c] # 1 /\ LoopSize[c] \in K
          BY <3>1, <3>4, <3>5, <4>1
        <5>2. QED
          BY <3>5, <3>7, <4>1, <5>1, Numbers DEF K
      <4>2. CASE d # c
        BY <3>4, <3>7, <4>2 DEF TypeInv, Taking
      <4>3. QED
        BY <4>1, <4>2
    <3>9. QED
      BY <1>8, <3>2, <3>3, <3>4, <3>7, <3>8 DEF Erase, Kept, starterVars, TypeInv, Taking, K
  <2>3. QED
    BY <2>1, <2>2
<1>9. ASSUME NEW c \in Consumers, Race(c) PROVE TypeInv'
  <2>1. {<<>>} \cup {<<n>> : n \in Names} \subseteq Seq(Names)
    <3>1. <<>> \in Seq(Names)
      OBVIOUS
    <3>2. \A n \in Names : <<n>> \in Seq(Names)
      OBVIOUS
    <3>3. QED
      BY <3>1, <3>2
  <2>2. process' \in {"runs", "exit", "crash"} /\ Buffers' \in Seq(Names)
    BY <1>9, <2>1 DEF Race, TypeInv
  <2>3. QED
    BY <1>9, <2>2 DEF Race, consumerVars, starterVars, diskVars, TypeInv, Taking
<1>10. ASSUME NEW f \in Files, Disk(f) PROVE TypeInv'
  <2>1. file' \in [Files -> {"absent", "partial", "whole", "removed"}]
    BY <1>10 DEF Disk, TypeInv
  <2>2. QED
    BY <1>10, <2>1 DEF Disk, consumerVars, starterVars, TypeInv, Taking
<1>11. CASE MakeDirectory
  BY <1>11 DEF MakeDirectory, consumerVars, starterVars, TypeInv, Taking
<1>12. CASE UNCHANGED vars
  BY <1>12 DEF vars, consumerVars, starterVars, diskVars, TypeInv, Taking
<1>13. QED
  BY <1>1, <1>2, <1>3, <1>4, <1>5, <1>6, <1>7, <1>8, <1>9, <1>10, <1>11, <1>12 DEF Next, Step

(* Every variable keeps its type: a consumer never counts its round below  *)
(* nothing, and there are never more consumers than presses of Start       *)
(* (CaptureLaser.cpp, DoProcessDatas and ConsumerDatas).                   *)
THEOREM Typing == Spec => []TypeOK
<1>1. TypeInv => TypeOK
  BY DEF TypeInv
<1>2. QED
  BY <1>1, TypeInit, TypeStep, PTL DEF Spec

-----------------------------------------------------------------------------
(* A consumer that is alone *)

Alone(c) == \A d \in InLoop : d = c

(* A consumer that is alone in its loop has as many names left to take as  *)
(* there are in Buffers; the process has crashed only with two consumers   *)
(* in their loops, or without the directory.                               *)
RoundInv ==
  /\ \A c \in InLoop : Runs /\ Alone(c) => at[c] = "list" \/ LoopSize[c] = Len(Buffers)
  /\ process = "crash" => ~dirExists \/ \E c, d \in InLoop : c # d

Inv == TypeInv /\ RoundInv

LEMMA RoundInit == ASSUME Init PROVE RoundInv
BY DEF Init, RoundInv, InLoop

(* A step of one consumer after which it is in its loop: another one is    *)
(* not alone.                                                              *)
LEMMA NotAlone ==
  ASSUME NEW c \in Consumers, c \in InLoop', process' # "crash",
         at'[c] = "list" \/ (Alone(c)' => LoopSize'[c] = Len(Buffers'))
  PROVE  RoundInv'
<1>1. ASSUME NEW e \in InLoop', Alone(e)' PROVE e = c
  BY <1>1 DEF Alone
<1>2. QED
  BY <1>1 DEF RoundInv

LEMMA RoundStep == ASSUME Inv, [Next]_vars PROVE RoundInv'
<1>1. TypeInv /\ RoundInv /\ TypeOK /\ TypeInv'
  BY TypeStep DEF Inv, TypeInv
<1>2. ASSUME UNCHANGED <<at, LoopSize, Buffers>>,
             \/ process' = process /\ (Runs \/ UNCHANGED dirExists)
             \/ process' = "exit"
      PROVE  RoundInv'
  BY <1>1, <1>2 DEF RoundInv, InLoop, Alone, Runs
<1>3. CASE InitMutex \/ Destroy \/ MakeDirectory \/ UNCHANGED vars
  BY <1>2, <1>3 DEF InitMutex, Destroy, MakeDirectory, vars, consumerVars, diskVars
<1>4. ASSUME NEW f \in Files, Disk(f) PROVE RoundInv'
  BY <1>2, <1>4 DEF Disk, consumerVars
<1>5. CASE Create
  <2>1. CASE /\ started' = started + 1 /\ at' = [at EXCEPT ![started + 1] = "lock"]
             /\ starter' = "destroy" /\ UNCHANGED process
    <3>1. started + 1 \in Consumers /\ at[started + 1] = "none"
      <4>1. started + 1 \in Consumers /\ started + 1 > started
        BY <1>1, <1>5, Numbers DEF Create, TypeInv, TypeOK, Consumers
      <4>2. QED
        BY <1>1, <4>1 DEF TypeInv
    <3>2. \A d \in Consumers : at'[d] = (IF d = started + 1 THEN "lock" ELSE at[d])
      BY <1>1, <2>1, <3>1 DEF TypeOK
    <3>3. InLoop' = InLoop
      BY <3>1, <3>2 DEF InLoop
    <3>4. \A d \in InLoop : at'[d] = at[d]
      BY <3>1, <3>2 DEF InLoop
    <3>5. UNCHANGED <<process, LoopSize, Buffers, dirExists>>
      BY <1>5, <2>1 DEF Create, diskVars
    <3>6. QED
      BY <1>1, <3>3, <3>4, <3>5 DEF RoundInv, Alone, Runs
  <2>2. CASE process' = "exit" /\ UNCHANGED <<starter, started, at>>
    BY <1>2, <1>5, <2>2 DEF Create
  <2>3. QED
    BY <1>5, <2>1, <2>2 DEF Create
<1>6. ASSUME NEW c \in Consumers, NEW w \in {"list", "take", "read", "erase"}, at[c] # "none",
             Goto(c, w)
      PROVE  c \in InLoop' /\ at'[c] = w /\ \A d \in InLoop : d \in InLoop'
  <2>1. at'[c] = w /\ \A d \in Consumers \ {c} : at'[d] = at[d]
    BY <1>1, <1>6, GotoTyped
  <2>2. QED
    BY <2>1 DEF InLoop
<1>7. ASSUME NEW c \in Consumers, Lock(c) PROVE RoundInv'
  <2>1. c \in InLoop' /\ at'[c] = "list"
    BY <1>6, <1>7 DEF Lock
  <2>2. process' # "crash"
    BY <1>7 DEF Lock, Runs
  <2>3. QED
    BY <2>1, <2>2, NotAlone
<1>8. ASSUME NEW c \in Consumers, List(c) PROVE RoundInv'
  <2>1. CASE /\ Buffers' \in Listings
             /\ LoopSize' = [LoopSize EXCEPT ![c] = Rounds(Len(Buffers'))]
             /\ Goto(c, IF Rounds(Len(Buffers')) = 0 THEN "list" ELSE "take")
             /\ UNCHANGED process
    <3>1. PICK w \in {"list", "take"} : Goto(c, w)
      BY <2>1
    <3>2. c \in InLoop'
      BY <1>6, <1>8, <3>1 DEF List
    <3>3. LoopSize'[c] = Len(Buffers')
      BY <1>1, <2>1 DEF Rounds, TypeOK
    <3>4. process' # "crash"
      BY <1>8, <2>1 DEF List, Runs
    <3>5. QED
      BY <3>2, <3>3, <3>4, NotAlone
  <2>2. CASE ~dirExists /\ process' = "crash" /\ UNCHANGED <<Buffers, LoopSize, at>>
    <3>1. ~dirExists'
      BY <1>8, <2>2 DEF List, diskVars
    <3>2. QED
      BY <2>2, <3>1 DEF RoundInv, Runs
  <2>3. QED
    BY <1>8, <2>1, <2>2 DEF List
(* Where a consumer that has names to take finds Buffers empty, it is not alone. *)
<1>9. ASSUME NEW c \in Consumers, Runs, Taking(c), Buffers = <<>>
      PROVE  \E d \in InLoop : d # c
  <2>1. c \in InLoop /\ at[c] # "list" /\ LoopSize[c] > 0
    BY <1>1, <1>9 DEF InLoop, Taking, TypeInv
  <2>2. Len(Buffers) = 0
    BY <1>9
  <2>3. LoopSize[c] # Len(Buffers)
    BY <2>1, <2>2
  <2>4. ~Alone(c)
    BY <1>1, <1>9, <2>1, <2>3 DEF RoundInv
  <2>5. QED
    BY <2>4 DEF Alone
<1>10. ASSUME NEW c \in Consumers, Take(c) PROVE RoundInv'
  <2>1. Runs /\ Taking(c) /\ c \in InLoop /\ at[c] # "list"
    BY <1>10 DEF Take, Taking, InLoop
  <2>2. CASE Buffers = <<>>
    <3>1. process' = "crash" /\ InLoop' = InLoop
      BY <1>10, <2>2 DEF Take, consumerVars, InLoop
    <3>2. \E d \in InLoop : d # c
      BY <1>9, <2>1, <2>2
    <3>3. QED
      BY <2>1, <3>1, <3>2 DEF RoundInv, Runs
  <2>3. CASE Buffers # <<>>
    <3>1. Goto(c, "read") /\ UNCHANGED <<process, LoopSize, Buffers>>
      BY <1>10, <2>3 DEF Take
    <3>2. c \in InLoop' /\ \A d \in InLoop : d \in InLoop'
      BY <1>6, <1>10, <3>1 DEF Take
    <3>3. Alone(c)' => LoopSize'[c] = Len(Buffers')
      BY <1>1, <2>1, <3>1, <3>2 DEF RoundInv, Alone
    <3>4. process' # "crash"
      BY <2>1, <3>1 DEF Runs
    <3>5. QED
      BY <3>2, <3>3, <3>4, NotAlone
  <2>4. QED
    BY <2>2, <2>3
<1>11. ASSUME NEW c \in Consumers, Read(c) PROVE RoundInv'
  <2>1. Runs /\ c \in InLoop /\ at[c] # "list" /\ UNCHANGED <<process, LoopSize, Buffers>>
    BY <1>11 DEF Read, InLoop
  <2>2. c \in InLoop' /\ \A d \in InLoop : d \in InLoop'
    BY <1>6, <1>11 DEF Read
  <2>3. Alone(c)' => LoopSize'[c] = Len(Buffers')
    BY <1>1, <2>1, <2>2 DEF RoundInv, Alone
  <2>4. process' # "crash"
    BY <2>1 DEF Runs
  <2>5. QED
    BY <2>2, <2>3, <2>4, NotAlone
<1>12. ASSUME NEW c \in Consumers, Erase(c) PROVE RoundInv'
  <2>1. Runs /\ Taking(c) /\ c \in InLoop /\ at[c] # "list"
    BY <1>12 DEF Erase, Taking, InLoop
  <2>2. CASE Buffers = <<>>
    <3>1. process' = "crash" /\ InLoop' = InLoop
      BY <1>12, <2>2 DEF Erase, consumerVars, InLoop
    <3>2. \E d \in InLoop : d # c
      BY <1>9, <2>1, <2>2
    <3>3. QED
      BY <2>1, <3>1, <3>2 DEF RoundInv, Runs
  <2>3. CASE Buffers # <<>>
    <3>1. PICK w \in {"list", "take"} : Goto(c, w)
      BY <1>12, <2>3 DEF Erase
    <3>2. /\ Buffers' = Tail(Buffers) /\ LoopSize' = [LoopSize EXCEPT ![c] = @ - 1]
          /\ process' = process
      BY <1>12, <2>3 DEF Erase
    <3>3. c \in InLoop' /\ \A d \in InLoop : d \in InLoop'
      BY <1>6, <1>12, <3>1 DEF Erase
    <3>4. LoopSize'[c] = LoopSize[c] - 1
      BY <1>1, <3>2 DEF TypeOK
    <3>5. Len(Buffers') = Len(Buffers) - 1
      BY <1>1, <2>3, <3>2, HeadTailProperties DEF TypeOK
    <3>6. Alone(c)' => LoopSize'[c] = Len(Buffers')
      BY <1>1, <2>1, <3>3, <3>4, <3>5 DEF RoundInv, Alone
    <3>7. process' # "crash"
      BY <2>1, <3>2 DEF Runs
    <3>8. QED
      BY <3>3, <3>6, <3>7, NotAlone
  <2>4. QED
    BY <2>2, <2>3
<1>13. ASSUME NEW c \in Consumers, Race(c) PROVE RoundInv'
  <2>1. PICK d \in InLoop : d # c
    BY <1>13 DEF Race
  <2>2. c \in InLoop /\ InLoop' = InLoop
    BY <1>13 DEF Race, InLoop, consumerVars
  <2>3. \A e \in InLoop' : ~Alone(e)'
    BY <2>1, <2>2 DEF Alone
  <2>4. QED
    BY <2>1, <2>2, <2>3 DEF RoundInv
<1>14. QED
  BY <1>3, <1>4, <1>5, <1>7, <1>8, <1>10, <1>11, <1>12, <1>13 DEF Next, Step

LEMMA TwoOfThem ==
  ASSUME NEW c \in InLoop, NEW d \in InLoop, c # d
  PROVE  Cardinality(InLoop) >= 2
<1>1. IsFiniteSet(Consumers)
  BY Numbers, FS_Interval DEF Consumers
<1>2. IsFiniteSet(InLoop)
  BY <1>1, FS_Subset DEF InLoop
<1>3. IsFiniteSet({c}) /\ Cardinality({c}) = 1
  BY FS_Singleton
<1>4. IsFiniteSet({c} \cup {d}) /\ Cardinality({c} \cup {d}) = 2
  BY <1>3, FS_AddElement
<1>5. Cardinality({c} \cup {d}) <= Cardinality(InLoop)
  BY <1>2, FS_Subset
<1>6. Cardinality(InLoop) \in Nat
  BY <1>2, FS_CardinalityType
<1>7. QED
  BY <1>4, <1>5, <1>6

(* Over a directory that exists the process fails only with two consumers  *)
(* in their loops: one consumer never takes or erases a name that is not   *)
(* there, whatever the directory holds and whether or not it got a mutex   *)
(* (CaptureLaser.cpp, ConsumerDatas).                                      *)
THEOREM OneIsSafe == Spec => []CrashNeedsTwo
<1>1. Inv => CrashNeedsTwo
  BY TwoOfThem DEF Inv, RoundInv, CrashNeedsTwo
<1>2. Init => Inv
  BY TypeInit, RoundInit DEF Inv
<1>3. Inv /\ [Next]_vars => Inv'
  BY TypeStep, RoundStep DEF Inv
<1>4. QED
  BY <1>1, <1>2, <1>3, PTL DEF Spec

=============================================================================
