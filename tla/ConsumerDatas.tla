--------------------------- MODULE ConsumerDatas ----------------------------
(***************************************************************************)
(* The consumers of profile files: CaptureLaser::DoProcessDatas, which the *)
(* dialog's thread calls at every Start, and the threads it makes, which   *)
(* run ConsumerDatas (CaptureLaser.cpp) for ever.  They share the global   *)
(* vector Buffers and the global mutex myMutex; Stop does not end them.    *)
(*                                                                         *)
(* The files of D:\logs\7A-8B_org are put there by another program, which  *)
(* writes a file under a name of its own, finishes it, and may remove it.  *)
(* A file is assumed to fit into the TotalSize that ReadFileContents reads *)
(* it into, the heap not to run out (a file that cannot be opened leaves   *)
(* the memory for its contents allocated), and the detection it runs       *)
(* (DetProcess, external) to return.                                       *)
(*                                                                         *)
(* An access to Buffers while another consumer is in its loop is a data    *)
(* race: besides its proper effect it may end the process or leave any     *)
(* names in Buffers.                                                       *)
(***************************************************************************)
EXTENDS Naturals, Sequences, FiniteSets

CONSTANTS
  Files,        (* names of profile files                                  *)
  Garbage,      (* what FindDatas holds before FindFirstFile finds a file  *)
  MaxStarts     (* bound: presses of Start                                 *)

Names     == Files \cup {Garbage}
Consumers == 1 .. MaxStarts

ASSUME ConsumerAssumption ==
  /\ IsFiniteSet(Files) /\ Files # {} /\ Garbage \notin Files
  /\ MaxStarts \in Nat

VARIABLES
  process,      (* "runs", or how it ended: "exit" or "crash"              *)
  starter,      (* the dialog's thread: the next statement of              *)
                (* DoProcessDatas, or "idle"                               *)
  started,      (* consumers created                                       *)
  myMutex,      (* the mutex it names: that of the last Start, 0 once it   *)
                (* is destroyed                                            *)
  owner,        (* which consumer has locked each mutex, 0: none           *)
  at,           (* where each consumer is                                  *)
  Buffers,
  LoopSize,     (* names each consumer has still to take in this round     *)
  FileNames,    (* the name each has taken                                 *)
  dirExists,
  file,         (* what there is of each file                              *)
  readWhole     (* the files that were read when they were finished        *)

starterVars  == <<starter, started>>
consumerVars == <<at, LoopSize, FileNames>>
diskVars     == <<dirExists, file>>
vars == <<process, starterVars, myMutex, owner, consumerVars, Buffers,
          diskVars, readWhole>>

Runs == process = "runs"

InLoop == {c \in Consumers : at[c] \in {"list", "take", "read", "erase"}}

Present == {f \in Files : file[f] \in {"partial", "whole"}}

Orders(S) == {s \in [1 .. Cardinality(S) -> S] : \A f \in S : \E i \in DOMAIN s : s[i] = f}

Init ==
  /\ process = "runs" /\ starter = "idle" /\ started = 0
  /\ myMutex = 0 /\ owner = [c \in Consumers |-> 0]
  /\ at = [c \in Consumers |-> "none"]
  /\ Buffers = <<>>
  /\ LoopSize = [c \in Consumers |-> 0]
  /\ FileNames = [c \in Consumers |-> Garbage]
  /\ dirExists \in BOOLEAN
  /\ file = [f \in Files |-> "absent"]
  /\ readWhole = {}

-----------------------------------------------------------------------------
(* DoProcessDatas *)

(* pthread_mutex_init makes a new mutex, whatever myMutex named. *)
InitMutex ==
  /\ Runs /\ starter = "idle" /\ started < MaxStarts
  /\ myMutex' = started + 1
  /\ starter' = "create"
  /\ UNCHANGED <<process, started, owner, consumerVars, Buffers, diskVars, readWhole>>

(* pthread_create and pthread_detach, or the process is ended. *)
Create ==
  /\ Runs /\ starter = "create"
  /\ \/ /\ started' = started + 1
        /\ at' = [at EXCEPT ![started + 1] = "lock"]
        /\ starter' = "destroy"
        /\ UNCHANGED process
     \/ process' = "exit" /\ UNCHANGED <<starter, started, at>>
  /\ UNCHANGED <<myMutex, owner, LoopSize, FileNames, Buffers, diskVars, readWhole>>

(* pthread_mutex_destroy refuses a mutex that is locked (EBUSY), and       *)
(* nobody looks.                                                           *)
Destroy ==
  /\ Runs /\ starter = "destroy"
  /\ myMutex' = IF myMutex # 0 /\ owner[myMutex] # 0 THEN myMutex ELSE 0
  /\ starter' = "idle"
  /\ UNCHANGED <<process, started, owner, consumerVars, Buffers, diskVars, readWhole>>

-----------------------------------------------------------------------------
(* ConsumerDatas *)

Goto(c, where) == at' = [at EXCEPT ![c] = where]

(* The thread may get to its pthread_mutex_lock after the mutex was        *)
(* destroyed: the lock fails (EINVAL), and nobody looks.  It waits while   *)
(* another consumer has the mutex.  The unlock is never reached.           *)
Lock(c) ==
  /\ Runs /\ at[c] = "lock"
  /\ IF myMutex = 0 THEN UNCHANGED owner
     ELSE owner[myMutex] = 0 /\ owner' = [owner EXCEPT ![myMutex] = c]
  /\ Goto(c, "list")
  /\ UNCHANGED <<process, starterVars, myMutex, LoopSize, FileNames, Buffers,
                 diskVars, readWhole>>

(* The names a listing may give: without the directory, FindFirstFile      *)
(* fails, which nobody checks, and what FindDatas happens to hold is       *)
(* listed: garbage, a name of an earlier round or, say, "..", which is     *)
(* skipped.                                                                *)
Listings == IF dirExists THEN Orders(Present) ELSE {<<>>} \cup {<<n>> : n \in Names}

(* Mutant: the loop goes one round too far. *)
RoundsAtMost(size) == size + 1

Rounds(size) == size

(* What FindDatas holds without the directory may also have no end: the    *)
(* strcat of it overruns its array.                                        *)
List(c) ==
  /\ Runs /\ at[c] = "list"
  /\ \/ /\ Buffers' \in Listings
        /\ LoopSize' = [LoopSize EXCEPT ![c] = Rounds(Len(Buffers'))]
        /\ Goto(c, IF Rounds(Len(Buffers')) = 0 THEN "list" ELSE "take")
        /\ UNCHANGED process
     \/ ~dirExists /\ process' = "crash" /\ UNCHANGED <<Buffers, LoopSize, at>>
  /\ UNCHANGED <<starterVars, myMutex, owner, FileNames, diskVars, readWhole>>

(* Buffers.at(0) throws out_of_range where Buffers is empty. *)
Take(c) ==
  /\ Runs /\ at[c] = "take"
  /\ IF Buffers = <<>>
     THEN process' = "crash" /\ UNCHANGED consumerVars
     ELSE /\ FileNames' = [FileNames EXCEPT ![c] = Head(Buffers)]
          /\ Goto(c, "read")
          /\ UNCHANGED <<process, LoopSize>>
  /\ UNCHANGED <<starterVars, myMutex, owner, Buffers, diskVars, readWhole>>

(* ReadFileContents: a name that is no file cannot be opened. *)
Read(c) ==
  /\ Runs /\ at[c] = "read"
  /\ readWhole' = readWhole \cup ({FileNames[c]} \cap {f \in Files : file[f] = "whole"})
  /\ Goto(c, "erase")
  /\ UNCHANGED <<process, starterVars, myMutex, owner, LoopSize, FileNames, Buffers,
                 diskVars>>

(* Mutant: DeleteFiles is called, on what is no longer being written. *)
Deleted(n) == [f \in Files |-> IF f = n /\ file[f] = "whole" THEN "deleted" ELSE file[f]]

(* DeleteFiles is commented out. *)
Kept(n) == file

(* Buffers.erase(Buffers.begin()) has no meaning on an empty vector. *)
Erase(c) ==
  /\ Runs /\ at[c] = "erase"
  /\ IF Buffers = <<>>
     THEN process' = "crash" /\ UNCHANGED <<consumerVars, Buffers>>
     ELSE /\ Buffers' = Tail(Buffers)
          /\ LoopSize' = [LoopSize EXCEPT ![c] = @ - 1]
          /\ Goto(c, IF LoopSize[c] = 1 THEN "list" ELSE "take")
          /\ UNCHANGED <<process, FileNames>>
  /\ file' = Kept(FileNames[c])
  /\ UNCHANGED <<starterVars, myMutex, owner, dirExists, readWhole>>

(* A data race on Buffers. *)
Race(c) ==
  /\ Runs /\ at[c] \in {"list", "take", "erase"}
  /\ \E d \in InLoop \ {c} : at[d] \in {"list", "take", "erase"}
  /\ \/ process' = "crash" /\ UNCHANGED Buffers
     \/ Buffers' \in {<<>>} \cup {<<n>> : n \in Names} /\ UNCHANGED process
  /\ UNCHANGED <<starterVars, myMutex, owner, consumerVars, diskVars, readWhole>>

-----------------------------------------------------------------------------
(* The program that fills the directory *)

Disk(f) ==
  /\ Runs
  /\ \/ file[f] = "absent" /\ dirExists /\ file' = [file EXCEPT ![f] = "partial"]
     \/ file[f] = "partial" /\ file' = [file EXCEPT ![f] = "whole"]
     \/ file[f] = "whole" /\ file' = [file EXCEPT ![f] = "removed"]
  /\ UNCHANGED <<process, starterVars, myMutex, owner, consumerVars, Buffers,
                 dirExists, readWhole>>

MakeDirectory ==
  /\ Runs /\ ~dirExists /\ dirExists' = TRUE
  /\ UNCHANGED <<process, starterVars, myMutex, owner, consumerVars, Buffers,
                 file, readWhole>>

Step(c) == Lock(c) \/ List(c) \/ Take(c) \/ Read(c) \/ Erase(c)

Next ==
  \/ InitMutex \/ Create \/ Destroy
  \/ \E c \in Consumers : Step(c) \/ Race(c)
  \/ \E f \in Files : Disk(f)
  \/ MakeDirectory

(* Every thread is scheduled. *)
Spec ==
  /\ Init /\ [][Next]_vars
  /\ WF_vars(Create) /\ WF_vars(Destroy)
  /\ \A c \in Consumers : WF_vars(Step(c))

-----------------------------------------------------------------------------
(* Every variable keeps its type. *)
TypeOK ==
  /\ process \in {"runs", "exit", "crash"}
  /\ starter \in {"idle", "create", "destroy"} /\ started \in 0 .. MaxStarts
  /\ myMutex \in 0 .. MaxStarts
  /\ owner \in [Consumers -> 0 .. MaxStarts]
  /\ at \in [Consumers -> {"none", "lock", "list", "take", "read", "erase"}]
  /\ Buffers \in Seq(Names)
  /\ LoopSize \in [Consumers -> 0 .. Cardinality(Files)]
  /\ FileNames \in [Consumers -> Names]
  /\ dirExists \in BOOLEAN
  /\ file \in [Files -> {"absent", "partial", "whole", "removed"}]
  /\ readWhole \subseteq Files

(* A consumer that is alone never takes or erases a name that is not there: *)
(* over a directory that exists, it takes two consumers in their loops to  *)
(* end the process, which a second Start makes, whatever the mutex.        *)
CrashNeedsTwo == process = "crash" => Cardinality(InLoop) >= 2 \/ ~dirExists

(* A file that another program leaves in the directory is read once it is  *)
(* finished, even if it was read half-written before, by the consumer that *)
(* Start made: it gets into its loop whether it locks the mutex before or  *)
(* after the mutex is destroyed, and finds the file in a later round.  Not *)
(* so once two consumers run.                                              *)
FinishedFilesAreRead ==
  \A f \in Files :
    (file[f] = "whole" /\ started > 0) ~>
      (f \in readWhole \/ file[f] = "removed" \/ ~Runs \/ Cardinality(InLoop) >= 2)
=============================================================================
