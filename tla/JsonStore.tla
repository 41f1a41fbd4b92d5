----------------------------- MODULE JsonStore -----------------------------
(***************************************************************************)
(* src/storage/json-store.js: a promise chain of transactions over data in *)
(* memory and one JSON file.  A transaction runs its mutator on a clone of *)
(* the data, writes the clone to a temporary file, renames that over the   *)
(* database file and only then publishes the clone as the data.  A         *)
(* database is the sequence of the transactions that made it.              *)
(***************************************************************************)
EXTENDS Sequences, Naturals, FiniteSets

CONSTANTS
  Transactions,  \* the calls of store.transaction
  NoFile,        \* a file that does not exist
  Torn,          \* a file whose write did not end
  MaxCrashes,    \* bound: deaths of the process
  MaxFailures    \* bound: file operations that fail

ASSUME FileAssumption ==
  NoFile \notin Seq(Transactions) /\ Torn \notin Seq(Transactions) /\ NoFile # Torn
ASSUME BoundAssumption == MaxCrashes \in Nat /\ MaxFailures \in Nat

VARIABLES
  file,      \* the database file
  temporary, \* the temporary file
  data,      \* this.data
  draft,     \* the clone the running transaction works on
  chain,     \* transactions on this.queue, the running one first
  stage,     \* next await of the running transaction, or of init
  answer,    \* how the promise of each transaction is settled
  asked,     \* history: the transactions in the order of the calls
  crashes, failures

memory == <<data, draft, chain, stage>>
faults == <<crashes, failures>>
vars == <<file, temporary, data, draft, chain, stage, answer, asked, crashes, failures>>

Stage == {"down", "create", "createRename", "idle", "write", "writing", "rename", "publish"}
Answer == {"none", "pending", "done", "failed", "unknown"}

Range(seq) == {seq[i] : i \in DOMAIN seq}

Up == stage \notin {"down", "create", "createRename"}

Init ==
  /\ file = NoFile /\ temporary = NoFile
  /\ data = <<>> /\ draft = <<>> /\ chain = <<>>
  /\ stage = "down"
  /\ answer = [t \in Transactions |-> "none"]
  /\ asked = <<>>
  /\ crashes = 0 /\ failures = 0
-----------------------------------------------------------------------------
(* init: read the file, or create it. *)

Open ==
  /\ stage = "down" /\ file \notin {NoFile, Torn}
  /\ data' = file
  /\ stage' = "idle"
  /\ UNCHANGED <<file, temporary, draft, chain, answer, asked, faults>>

Create ==
  /\ stage = "down" /\ file = NoFile
  /\ data' = <<>>
  /\ temporary' = Torn
  /\ stage' = "create"
  /\ UNCHANGED <<file, draft, chain, answer, asked, faults>>

Created ==
  /\ stage = "create"
  /\ temporary' = data
  /\ stage' = "createRename"
  /\ UNCHANGED <<file, data, draft, chain, answer, asked, faults>>

CreateRename ==
  /\ stage = "createRename"
  /\ file' = temporary /\ temporary' = NoFile
  /\ stage' = "idle"
  /\ UNCHANGED <<data, draft, chain, answer, asked, faults>>

(* A failing file operation makes init throw, and the process exits. *)
CreateFails ==
  /\ stage \in {"create", "createRename"}
  /\ failures < MaxFailures /\ failures' = failures + 1
  /\ stage' = "down"
  /\ UNCHANGED <<file, temporary, data, draft, chain, answer, asked, crashes>>
-----------------------------------------------------------------------------
(* transaction(mutator). *)

(* Faulty variant: the new call is put in front of those that wait. *)
EnqueueFirst(t) ==
  IF chain = <<>> THEN <<t>> ELSE <<Head(chain), t>> \o Tail(chain)

Enqueue(t) == Append(chain, t)

Ask(t) ==
  /\ Up /\ answer[t] = "none"
  /\ answer' = [answer EXCEPT ![t] = "pending"]
  /\ chain' = Enqueue(t)
  /\ asked' = Append(asked, t)
  /\ UNCHANGED <<file, temporary, data, draft, stage, faults>>

(* Faulty variant: the mutator works on the data itself. *)
DataDuringShared(clone) == clone

(* The data readers see while a transaction works on its clone. *)
DataDuring(clone) == data

(* The first link of the chain clones the data and runs its mutator. *)
Mutate ==
  /\ stage = "idle" /\ chain # <<>>
  /\ draft' = Append(data, Head(chain))
  /\ data' = DataDuring(draft')
  /\ stage' = "write"
  /\ UNCHANGED <<file, temporary, chain, answer, asked, faults>>

(* Faulty variant: queue.then(run) without a handler for the rejection, so *)
(* nothing runs after a failed transaction.                                *)
StageAfterFailureStuck == "rejected"

(* queue.then(run, run): the next transaction runs after a failed one too. *)
StageAfterFailure == "idle"

(* Faulty variant: the failure is swallowed and the caller told of success. *)
RejectedSwallowed == "done"

Rejected == "failed"

Reject ==
  /\ answer' = [answer EXCEPT ![Head(chain)] = Rejected]
  /\ chain' = Tail(chain)
  /\ stage' = StageAfterFailure

(* The mutator throws: nothing was written. *)
MutatorThrows ==
  /\ stage = "idle" /\ chain # <<>>
  /\ Reject
  /\ UNCHANGED <<file, temporary, data, draft, asked, faults>>

(* Faulty variant: writeFile straight onto the database file. *)
FileDuringWriteInPlace == Torn

(* The database file while the temporary one is written. *)
FileDuringWrite == file

BeginWrite ==
  /\ stage = "write"
  /\ temporary' = Torn
  /\ file' = FileDuringWrite
  /\ stage' = "writing"
  /\ UNCHANGED <<data, draft, chain, answer, asked, faults>>

EndWrite ==
  /\ stage = "writing"
  /\ temporary' = draft
  /\ stage' = "rename"
  /\ UNCHANGED <<file, data, draft, chain, answer, asked, faults>>

(* writeFile or rename fails; the temporary file stays as it is. *)
PersistFails ==
  /\ stage \in {"write", "writing", "rename"}
  /\ failures < MaxFailures /\ failures' = failures + 1
  /\ Reject
  /\ UNCHANGED <<file, temporary, data, draft, asked, crashes>>

Rename ==
  /\ stage = "rename"
  /\ file' = temporary /\ temporary' = NoFile
  /\ stage' = "publish"
  /\ UNCHANGED <<data, draft, chain, answer, asked, faults>>

Publish ==
  /\ stage = "publish"
  /\ data' = draft
  /\ answer' = [answer EXCEPT ![Head(chain)] = "done"]
  /\ chain' = Tail(chain)
  /\ stage' = "idle"
  /\ UNCHANGED <<file, temporary, draft, asked, faults>>

(* The process dies at any point; callers of pending transactions never    *)
(* learn how they ended.  The next process has its own temporary file.     *)
Crash ==
  /\ stage # "down"
  /\ crashes < MaxCrashes /\ crashes' = crashes + 1
  /\ stage' = "down"
  /\ data' = <<>> /\ draft' = <<>> /\ chain' = <<>>
  /\ temporary' = NoFile
  /\ answer' = [t \in Transactions |->
                  IF answer[t] = "pending" THEN "unknown" ELSE answer[t]]
  /\ UNCHANGED <<file, asked, failures>>

Persist == BeginWrite \/ EndWrite \/ Rename
Start == Open \/ Create \/ Created \/ CreateRename
Progress == Mutate \/ Persist \/ Publish

Next ==
  \/ Start \/ CreateFails
  \/ \E t \in Transactions : Ask(t)
  \/ Progress \/ MutatorThrows \/ PersistFails
  \/ Crash

Spec == Init /\ [][Next]_vars

(* File operations end and settled promises are resumed; an operator       *)
(* starts the process again.                                               *)
FairSpec == Spec /\ WF_vars(Start) /\ WF_vars(Progress)
-----------------------------------------------------------------------------
(* Properties. *)

File == Seq(Transactions) \cup {NoFile, Torn}

TypeOK ==
  /\ file \in File /\ temporary \in File
  /\ data \in Seq(Transactions) /\ draft \in Seq(Transactions)
  /\ chain \in Seq(Transactions)
  /\ stage \in Stage
  /\ answer \in [Transactions -> Answer]
  /\ asked \in Seq(Transactions)
  /\ crashes \in Nat /\ failures \in Nat

(* A caller told of success finds its transaction in the file, after any   *)
(* number of failures and restarts.                                        *)
DoneIsDurable ==
  \A t \in Transactions :
    answer[t] = "done" => file \notin {NoFile, Torn} /\ t \in Range(file)

(* A caller told of failure left no trace: not in the file, not in what    *)
(* readers see, not in what the next transaction clones.                   *)
FailedLeavesNoTrace ==
  \A t \in Transactions :
    answer[t] = "failed" =>
      /\ file \notin {NoFile, Torn} => t \notin Range(file)
      /\ t \notin Range(data)

(* The database file is never half written, and nothing a reader saw can   *)
(* be forgotten: the file holds the data, and at most the one transaction  *)
(* that is being published on top of it.                                   *)
ReadersSeeDurableData ==
  /\ file # Torn
  /\ Up => \/ file = data
           \/ stage = "publish" /\ file = Append(data, Head(chain))

(* Transactions take effect in the order of the calls, whatever fails in   *)
(* between.                                                                *)
CallOrder ==
  file \notin {NoFile, Torn} =>
    \A i, j \in DOMAIN file : i < j =>
      \E k, l \in DOMAIN asked : k < l /\ asked[k] = file[i] /\ asked[l] = file[j]

(* A failed transaction does not block the ones behind it: every call is   *)
(* answered unless the process dies first.                                 *)
EveryCallAnswered ==
  \A t \in Transactions : answer[t] = "pending" ~> answer[t] # "pending"

-----------------------------------------------------------------------------
(* Why they hold: what the file, the clone and the queue owe each other at *)
(* each await.                                                             *)

(* The queue holds each unanswered call once, and dies with the process.   *)
ChainInv ==
  /\ ~Up => chain = <<>>
  /\ \A i \in DOMAIN chain : answer[chain[i]] = "pending"
  /\ \A i, j \in DOMAIN chain : chain[i] = chain[j] => i = j

Working == {"write", "writing", "rename", "publish"}

(* The data lags the file only between the rename and the publication.     *)
FileInv ==
  /\ file # Torn
  /\ stage \in {"down", "create", "createRename"} => data = <<>>
  /\ stage \in {"create", "createRename"} => file = NoFile
  /\ stage = "createRename" => temporary = data
  /\ stage \in {"idle", "write", "writing", "rename"} => file = data
  /\ stage \in Working => chain # <<>> /\ draft = Append(data, Head(chain))
  /\ stage = "rename" => temporary = draft
  /\ stage = "publish" => file = draft

(* The transactions of the file are those whose callers were told of       *)
(* success or died, and the one that is being published.                   *)
AnswerInv ==
  \A t \in Transactions :
    /\ answer[t] = "done" => file # NoFile /\ t \in Range(file)
    /\ file # NoFile /\ t \in Range(file) =>
         answer[t] \in {"done", "unknown"} \/ (stage = "publish" /\ t = Head(chain))

(* The inductive invariant of the store. *)
StoreInv == TypeOK /\ ChainInv /\ FileInv /\ AnswerInv
-----------------------------------------------------------------------------
(* The contract the store implements. *)

Content(f) == IF f = NoFile THEN <<>> ELSE f

(* The store as the application sees it: its data while the process is up, *)
(* its file while it is down.                                              *)
Atomic ==
  INSTANCE AtomicStore WITH
    committed <- IF Up THEN data ELSE Content(file),
    waiting <- chain

(* The store keeps the contract every other component is modelled on: a    *)
(* transaction is one atomic step, in call order.                          *)
KeepsAtomicity == Atomic!Spec
=============================================================================
