-------------------------- MODULE JsonStore_proofs --------------------------
(***************************************************************************)
(* Proofs about JsonStore for every set of transactions and every number   *)
(* of failures and restarts: the inductive invariant, durability, and that *)
(* the store implements AtomicStore.                                       *)
(***************************************************************************)
EXTENDS JsonStore, TLAPS

(* What taking a transaction off the queue, or adding one to a sequence,   *)
(* does to its elements.                                                   *)
LEMMA Appended ==
  ASSUME NEW S, NEW seq \in Seq(S), NEW e \in S
  PROVE  /\ Append(seq, e) \in Seq(S) /\ Append(seq, e) # <<>>
         /\ DOMAIN Append(seq, e) = DOMAIN seq \cup {Len(seq) + 1}
         /\ \A i \in DOMAIN seq : Append(seq, e)[i] = seq[i]
         /\ Append(seq, e)[Len(seq) + 1] = e
         /\ Len(seq) + 1 \notin DOMAIN seq
         /\ seq # <<>> => Head(Append(seq, e)) = Head(seq)
<1>1. /\ Append(seq, e) \in Seq(S) /\ Len(Append(seq, e)) = Len(seq) + 1
      /\ Len(seq) \in Nat /\ DOMAIN seq = 1..Len(seq)
      /\ DOMAIN Append(seq, e) = 1..(Len(seq) + 1)
  OBVIOUS
<1>2. \A i \in 1..Len(seq) : Append(seq, e)[i] = seq[i]
  OBVIOUS
<1>3. Append(seq, e)[Len(seq) + 1] = e
  OBVIOUS
<1>4. Append(seq, e) # <<>>
  BY <1>1
<1>5. seq # <<>> => Head(Append(seq, e)) = Head(seq)
  <2>1. SUFFICES ASSUME seq # <<>>
                 PROVE  Head(Append(seq, e)) = Head(seq)
    OBVIOUS
  <2>2. 1 \in 1..Len(seq) /\ Head(seq) = seq[1]
    BY <2>1
  <2>3. Head(Append(seq, e)) = Append(seq, e)[1]
    BY <1>1
  <2> QED
    BY <1>2, <2>2, <2>3
<1> QED
  BY <1>1, <1>2, <1>3, <1>4, <1>5

LEMMA AppendedRange ==
  ASSUME NEW S, NEW seq \in Seq(S), NEW e \in S
  PROVE  Range(Append(seq, e)) = Range(seq) \cup {e}
<1>1. \A x : x \in Range(Append(seq, e)) => x \in Range(seq) \cup {e}
  BY Appended DEF Range
<1>2. \A x : x \in Range(seq) \cup {e} => x \in Range(Append(seq, e))
  BY Appended DEF Range
<1> QED
  BY <1>1, <1>2

LEMMA Taken ==
  ASSUME NEW S, NEW seq \in Seq(S), seq # <<>>
  PROVE  /\ Head(seq) \in S /\ Head(seq) = seq[1] /\ 1 \in DOMAIN seq
         /\ Tail(seq) \in Seq(S)
         /\ \A i \in DOMAIN Tail(seq) :
              i \in Nat /\ i + 1 \in DOMAIN seq /\ i + 1 # 1 /\ Tail(seq)[i] = seq[i + 1]
OBVIOUS

LEMMA EmptySequence ==
  /\ \A S : <<>> \in Seq(S)
  /\ DOMAIN <<>> = {} /\ Range(<<>>) = {}
<1>1. \A S : <<>> \in Seq(S)
  OBVIOUS
<1>2. DOMAIN <<>> = {}
  OBVIOUS
<1> QED
  BY <1>1, <1>2 DEF Range
-----------------------------------------------------------------------------
(* The parts of the invariant, one by one. *)

LEMMA InitStore == Init => StoreInv
BY FileAssumption, EmptySequence
   DEF Init, StoreInv, TypeOK, ChainInv, FileInv, AnswerInv, File, Stage, Answer, Up,
       Working

(* The actions that end the running transaction without effect. *)
Refusal == MutatorThrows \/ PersistFails

LEMMA StoreTypeStep == TypeOK /\ FileInv /\ [Next]_vars => TypeOK'
<1>1. SUFFICES ASSUME TypeOK, FileInv, [Next]_vars
               PROVE  TypeOK'
  OBVIOUS
<1>2. CASE UNCHANGED vars
  BY <1>1, <1>2 DEF TypeOK, vars, faults
<1>3. CASE Start
  BY <1>1, <1>3, EmptySequence
     DEF TypeOK, FileInv, Start, Open, Create, Created, CreateRename, File, Stage, faults
<1>4. CASE CreateFails
  BY <1>1, <1>4 DEF TypeOK, CreateFails, Stage
<1>5. ASSUME NEW t \in Transactions, Ask(t)
      PROVE  TypeOK'
  BY <1>1, <1>5, Appended DEF TypeOK, Ask, Enqueue, Answer, faults
<1>6. CASE Mutate
  BY <1>1, <1>6, Appended, Taken DEF TypeOK, Mutate, DataDuring, Stage, faults
<1>7. CASE Persist
  BY <1>1, <1>7
     DEF TypeOK, Persist, BeginWrite, EndWrite, Rename, FileDuringWrite, File, Stage, faults
<1>8. CASE Publish
  BY <1>1, <1>8, Taken DEF TypeOK, FileInv, Publish, Working, Stage, Answer, faults
<1>9. CASE Refusal
  <2>1. chain # <<>>
    BY <1>1, <1>9 DEF Refusal, MutatorThrows, PersistFails, FileInv, Working
  <2>2. /\ answer' = [answer EXCEPT ![Head(chain)] = "failed"]
        /\ chain' = Tail(chain) /\ stage' = "idle"
        /\ UNCHANGED <<file, temporary, data, draft, asked, crashes>>
    BY <1>9
       DEF Refusal, MutatorThrows, PersistFails, Reject, Rejected, StageAfterFailure, faults
  <2>3. failures' \in Nat
    BY <1>1, <1>9 DEF TypeOK, Refusal, MutatorThrows, PersistFails, faults
  <2>4. Head(chain) \in Transactions /\ Tail(chain) \in Seq(Transactions)
    BY <1>1, <2>1, Taken DEF TypeOK
  <2> QED
    BY <1>1, <2>2, <2>3, <2>4 DEF TypeOK, Stage, Answer
<1>10. CASE Crash
  <2>1. answer' \in [Transactions -> Answer]
    BY <1>1, <1>10 DEF TypeOK, Crash, Answer
  <2>2. crashes' \in Nat /\ stage' \in Stage /\ temporary' \in File
    BY <1>1, <1>10 DEF TypeOK, Crash, File, Stage
  <2>3. data' = <<>> /\ draft' = <<>> /\ chain' = <<>>
    BY <1>10 DEF Crash
  <2> QED
    BY <1>1, <1>10, <2>1, <2>2, <2>3, EmptySequence DEF TypeOK, Crash
<1> QED
  BY <1>1, <1>2, <1>3, <1>4, <1>5, <1>6, <1>7, <1>8, <1>9, <1>10
     DEF Next, Progress, Refusal

LEMMA ChainStep == TypeOK /\ ChainInv /\ FileInv /\ [Next]_vars => ChainInv'
<1>1. SUFFICES ASSUME TypeOK, ChainInv, FileInv, [Next]_vars
               PROVE  ChainInv'
  OBVIOUS
<1>2. CASE UNCHANGED vars
  BY <1>1, <1>2 DEF ChainInv, Up, vars
<1>3. CASE Start \/ CreateFails
  BY <1>1, <1>3, EmptySequence
     DEF ChainInv, Up, Start, Open, Create, Created, CreateRename, CreateFails
<1>4. ASSUME NEW t \in Transactions, Ask(t)
      PROVE  ChainInv'
  <2>1. \A i \in DOMAIN chain : chain[i] # t /\ chain[i] \in Transactions
    BY <1>1, <1>4 DEF TypeOK, ChainInv, Ask
  <2>2. /\ chain' = Append(chain, t)
        /\ answer' = [answer EXCEPT ![t] = "pending"]
        /\ Up'
    BY <1>4 DEF Ask, Enqueue, Up
  <2>3. \A i \in DOMAIN chain' : answer'[chain'[i]] = "pending"
    BY <1>1, <2>1, <2>2, Appended DEF TypeOK, ChainInv
  <2>4. \A i, j \in DOMAIN chain' : chain'[i] = chain'[j] => i = j
    BY <1>1, <2>1, <2>2, Appended DEF TypeOK, ChainInv
  <2> QED
    BY <2>2, <2>3, <2>4 DEF ChainInv
<1>5. CASE Mutate \/ Persist
  BY <1>1, <1>5
     DEF ChainInv, Up, Mutate, Persist, BeginWrite, EndWrite, Rename
<1>6. CASE Publish \/ Refusal
  <2>1. PICK said \in {"done", "failed"} :
          /\ chain # <<>> /\ chain' = Tail(chain)
          /\ answer' = [answer EXCEPT ![Head(chain)] = said]
          /\ Up'
    BY <1>1, <1>6
       DEF Refusal, MutatorThrows, PersistFails, Publish, Reject, Rejected,
           StageAfterFailure, FileInv, Working, Up
  <2>2. \A i \in DOMAIN Tail(chain) : Tail(chain)[i] # Head(chain)
    BY <1>1, <2>1, Taken DEF TypeOK, ChainInv
  <2>3. \A i \in DOMAIN Tail(chain) : Tail(chain)[i] \in Transactions
    BY <1>1, <2>1, Taken DEF TypeOK
  <2>4. \A i \in DOMAIN Tail(chain) : answer[Tail(chain)[i]] = "pending"
    BY <1>1, <2>1, Taken DEF TypeOK, ChainInv
  <2>5. \A i, j \in DOMAIN Tail(chain) : Tail(chain)[i] = Tail(chain)[j] => i = j
    BY <1>1, <2>1, Taken DEF TypeOK, ChainInv
  <2> QED
    BY <1>1, <2>1, <2>2, <2>3, <2>4, <2>5 DEF TypeOK, ChainInv
<1>7. CASE Crash
  BY <1>1, <1>7, EmptySequence DEF ChainInv, Up, Crash
<1> QED
  BY <1>1, <1>2, <1>3, <1>4, <1>5, <1>6, <1>7 DEF Next, Progress, Refusal

LEMMA FileStep == TypeOK /\ ChainInv /\ FileInv /\ [Next]_vars => FileInv'
<1>1. SUFFICES ASSUME TypeOK, ChainInv, FileInv, [Next]_vars
               PROVE  FileInv'
  OBVIOUS
<1>2. CASE UNCHANGED vars
  BY <1>1, <1>2 DEF FileInv, Working, vars
<1>3. CASE Start \/ CreateFails
  BY <1>1, <1>3, FileAssumption, EmptySequence
     DEF FileInv, Working, Start, Open, Create, Created, CreateRename, CreateFails
<1>4. ASSUME NEW t \in Transactions, Ask(t)
      PROVE  FileInv'
  BY <1>1, <1>4, Appended DEF TypeOK, FileInv, Working, Ask, Enqueue, Up
<1>5. CASE Mutate
  BY <1>1, <1>5 DEF FileInv, Working, Mutate, DataDuring
<1>6. CASE Persist
  <2>1. draft # Torn
    BY <1>1, FileAssumption DEF TypeOK
  <2> QED
    BY <1>1, <1>6, <2>1
       DEF FileInv, Working, Persist, BeginWrite, EndWrite, Rename, FileDuringWrite
<1>7. CASE Publish \/ Refusal
  BY <1>1, <1>7
     DEF FileInv, Working, Refusal, MutatorThrows, PersistFails, Publish, Reject,
         StageAfterFailure
<1>8. CASE Crash
  BY <1>1, <1>8 DEF FileInv, Working, Crash
<1> QED
  BY <1>1, <1>2, <1>3, <1>4, <1>5, <1>6, <1>7, <1>8 DEF Next, Progress, Refusal

(* The transaction at the head of the queue is nobody's in the file until  *)
(* its draft has been renamed.                                             *)
LEMMA HeadIsNew ==
  ASSUME TypeOK, ChainInv, AnswerInv, chain # <<>>, stage # "publish", file # NoFile
  PROVE  Head(chain) \in Transactions /\ Head(chain) \notin Range(file)
<1>1. Head(chain) \in Transactions /\ answer[Head(chain)] = "pending"
  BY Taken DEF TypeOK, ChainInv
<1> QED
  BY <1>1 DEF AnswerInv

LEMMA AnswerStep ==
  TypeOK /\ ChainInv /\ FileInv /\ AnswerInv /\ [Next]_vars => AnswerInv'
<1>1. SUFFICES ASSUME TypeOK, ChainInv, FileInv, AnswerInv, [Next]_vars
               PROVE  AnswerInv'
  OBVIOUS
<1>2. CASE UNCHANGED vars
  BY <1>1, <1>2 DEF AnswerInv, vars
<1>3. CASE Start \/ CreateFails
  BY <1>1, <1>3, EmptySequence
     DEF AnswerInv, FileInv, Start, Open, Create, Created, CreateRename, CreateFails
<1>4. ASSUME NEW t \in Transactions, Ask(t)
      PROVE  AnswerInv'
  <2>1. /\ UNCHANGED <<file, stage>> /\ answer[t] = "none"
        /\ answer' = [answer EXCEPT ![t] = "pending"]
    BY <1>4 DEF Ask
  <2>2. stage = "publish" => Head(chain') = Head(chain) /\ Head(chain) # t
    BY <1>1, <1>4, Appended, Taken DEF TypeOK, ChainInv, FileInv, Working, Ask, Enqueue
  <2>3. file # NoFile => t \notin Range(file)
    BY <1>1, <2>1, <2>2 DEF AnswerInv
  <2> QED
    BY <1>1, <2>1, <2>2, <2>3 DEF TypeOK, AnswerInv
<1>5. CASE Mutate \/ BeginWrite \/ EndWrite
  BY <1>1, <1>5 DEF AnswerInv, Mutate, BeginWrite, EndWrite, FileDuringWrite
<1>6. CASE Rename
  <2>1. /\ stage = "rename" /\ stage' = "publish"
        /\ file' = Append(data, Head(chain)) /\ file = data
        /\ UNCHANGED <<chain, answer>>
    BY <1>1, <1>6 DEF Rename, FileInv, Working
  <2>2. /\ Head(chain) \in Transactions /\ answer[Head(chain)] = "pending"
        /\ data \in Seq(Transactions)
    BY <1>1, <2>1, Taken DEF TypeOK, ChainInv, FileInv, Working
  <2>3. Range(file') = Range(file) \cup {Head(chain)}
    BY <2>1, <2>2, AppendedRange
  <2>4. file # NoFile /\ file' # NoFile
    BY <2>1, <2>2, Appended, FileAssumption
  <2> QED
    BY <1>1, <2>1, <2>2, <2>3, <2>4 DEF AnswerInv
<1>7. CASE Publish
  <2>1. /\ stage = "publish" /\ stage' = "idle" /\ file = Append(data, Head(chain))
        /\ answer' = [answer EXCEPT ![Head(chain)] = "done"]
        /\ file' = file
    BY <1>1, <1>7 DEF Publish, FileInv, Working
  <2>2. Head(chain) \in Transactions /\ data \in Seq(Transactions)
    BY <1>1, <2>1, Taken DEF TypeOK, FileInv, Working
  <2>3. file # NoFile /\ Head(chain) \in Range(file)
    BY <2>1, <2>2, Appended, AppendedRange, FileAssumption
  <2> QED
    BY <1>1, <2>1, <2>2, <2>3 DEF TypeOK, AnswerInv
<1>8. CASE Refusal
  <2>1. /\ stage # "publish" /\ chain # <<>> /\ file = data
        /\ answer' = [answer EXCEPT ![Head(chain)] = "failed"]
        /\ file' = file
    BY <1>1, <1>8
       DEF Refusal, MutatorThrows, PersistFails, Reject, Rejected, FileInv, Working
  <2>2. file # NoFile
    BY <1>1, <2>1, FileAssumption DEF TypeOK
  <2>3. Head(chain) \in Transactions /\ Head(chain) \notin Range(file)
    BY <1>1, <2>1, <2>2, HeadIsNew
  <2> QED
    BY <1>1, <2>1, <2>2, <2>3 DEF TypeOK, AnswerInv
<1>9. CASE Crash
  <2>1. stage = "publish" => answer[Head(chain)] = "pending"
    BY <1>1, Taken DEF TypeOK, ChainInv, FileInv, Working
  <2> QED
    BY <1>1, <1>9, <2>1 DEF TypeOK, AnswerInv, Crash
<1> QED
  BY <1>1, <1>2, <1>3, <1>4, <1>5, <1>6, <1>7, <1>8, <1>9 DEF Next, Progress, Persist, Refusal
-----------------------------------------------------------------------------
(* The theorems. *)

(* The inductive invariant of the store. *)
THEOREM StoreInvariant == Spec => []StoreInv
<1>1. StoreInv /\ [Next]_vars => StoreInv'
  BY StoreTypeStep, ChainStep, FileStep, AnswerStep DEF StoreInv
<1> QED
  BY InitStore, <1>1, PTL DEF Spec

(* The store's variables keep their types, so that the file and the data   *)
(* are sequences of transactions whenever somebody reads them.             *)
THEOREM StoreTypeCorrect == Spec => []TypeOK
<1>1. StoreInv => TypeOK
  BY DEF StoreInv
<1> QED
  BY StoreInvariant, <1>1, PTL

(* transaction() tells of success only what the database file holds, and   *)
(* it stays there through every failure and restart.                       *)
THEOREM SuccessIsDurable == Spec => []DoneIsDurable
<1>1. StoreInv => DoneIsDurable
  BY DEF StoreInv, FileInv, AnswerInv, DoneIsDurable
<1> QED
  BY StoreInvariant, <1>1, PTL

(* A transaction that rejects its caller is in neither the file nor the    *)
(* data, now or after a restart.                                           *)
THEOREM FailureLeavesNoTrace == Spec => []FailedLeavesNoTrace
<1>1. StoreInv => FailedLeavesNoTrace
  <2>1. SUFFICES ASSUME StoreInv, NEW t \in Transactions, answer[t] = "failed"
                 PROVE  /\ file \notin {NoFile, Torn} => t \notin Range(file)
                        /\ t \notin Range(data)
    BY DEF FailedLeavesNoTrace
  <2>2. stage = "publish" => t # Head(chain)
    BY <2>1, Taken DEF StoreInv, TypeOK, ChainInv, FileInv, Working
  <2>3. file # NoFile => t \notin Range(file)
    BY <2>1, <2>2 DEF StoreInv, AnswerInv
  <2>4. CASE stage \in {"down", "create", "createRename"}
    BY <2>1, <2>3, <2>4, EmptySequence DEF StoreInv, FileInv
  <2>5. CASE stage \in {"idle", "write", "writing", "rename"}
    BY <2>1, <2>3, <2>5, FileAssumption DEF StoreInv, TypeOK, FileInv
  <2>6. CASE stage = "publish"
    <3>1. file = Append(data, Head(chain)) /\ data \in Seq(Transactions)
      BY <2>1, <2>6 DEF StoreInv, TypeOK, FileInv, Working
    <3>2. Head(chain) \in Transactions
      BY <2>1, <2>6, Taken DEF StoreInv, TypeOK, FileInv, Working
    <3>3. file # NoFile /\ Range(file) = Range(data) \cup {Head(chain)}
      BY <3>1, <3>2, Appended, AppendedRange, FileAssumption
    <3> QED
      BY <2>3, <3>3
  <2> QED
    BY <2>1, <2>4, <2>5, <2>6 DEF StoreInv, TypeOK, Stage
<1> QED
  BY StoreInvariant, <1>1, PTL

(* Readers of store.read see what the file holds, or lag it by the one     *)
(* transaction that is being published; the file is never half written.    *)
THEOREM ReadersAreDurable == Spec => []ReadersSeeDurableData
<1>1. StoreInv => ReadersSeeDurableData
  BY DEF StoreInv, TypeOK, FileInv, ReadersSeeDurableData, Up, Working, Stage
<1> QED
  BY StoreInvariant, <1>1, PTL
-----------------------------------------------------------------------------
(* Call order: the file, then the clone, then the queue, hold transactions *)
(* in the order their callers asked for them.                              *)

(* a was asked for before b. *)
Before(calls, a, b) ==
  \E k, l \in DOMAIN calls : k < l /\ calls[k] = a /\ calls[l] = b

Ordered(calls, seq) ==
  /\ Range(seq) \subseteq Range(calls)
  /\ \A i, j \in DOMAIN seq : i < j => Before(calls, seq[i], seq[j])

(* Every transaction of seq was asked for before every one of queue. *)
Precedes(calls, seq, queue) ==
  \A i \in DOMAIN seq, j \in DOMAIN queue : Before(calls, seq[i], queue[j])

OrderInv ==
  /\ file # NoFile => Ordered(asked, file)
  /\ Ordered(asked, data)
  /\ Ordered(asked, chain)
  /\ Precedes(asked, data, chain)

LEMMA EmptyOrdered ==
  \A calls, seq : Ordered(calls, <<>>) /\ Precedes(calls, <<>>, seq) /\ Precedes(calls, seq, <<>>)
BY EmptySequence DEF Ordered, Precedes

(* One more call leaves the order of the earlier ones and comes last. *)
LEMMA LaterCall ==
  ASSUME NEW S, NEW calls \in Seq(S), NEW t \in S
  PROVE  /\ \A a, b : Before(calls, a, b) => Before(Append(calls, t), a, b)
         /\ \A a \in Range(calls) : Before(Append(calls, t), a, t)
         /\ \A seq : Ordered(calls, seq) => Ordered(Append(calls, t), seq)
         /\ \A seq, queue : Precedes(calls, seq, queue) => Precedes(Append(calls, t), seq, queue)
<1> DEFINE later == Append(calls, t)
<1>1. /\ DOMAIN later = DOMAIN calls \cup {Len(calls) + 1}
      /\ \A i \in DOMAIN calls : later[i] = calls[i] /\ i \in Nat /\ i < Len(calls) + 1
      /\ later[Len(calls) + 1] = t
  <2>1. DOMAIN calls = 1..Len(calls) /\ Len(calls) \in Nat
    OBVIOUS
  <2>2. \A i \in DOMAIN calls : i \in Nat /\ i < Len(calls) + 1
    BY <2>1
  <2> QED
    BY <2>2, Appended
<1>2. Range(later) = Range(calls) \cup {t}
  BY AppendedRange
<1> HIDE DEF later
<1>3. \A a, b : Before(calls, a, b) => Before(later, a, b)
  BY <1>1 DEF Before
<1>4. \A a \in Range(calls) : Before(later, a, t)
  BY <1>1 DEF Before, Range
<1>5. \A seq : Ordered(calls, seq) => Ordered(later, seq)
  BY <1>2, <1>3 DEF Ordered
<1>6. \A seq, queue : Precedes(calls, seq, queue) => Precedes(later, seq, queue)
  BY <1>3 DEF Precedes
<1> QED
  BY <1>3, <1>4, <1>5, <1>6 DEF later

(* What comes after all of an ordered sequence may be appended to it. *)
LEMMA OrderedAppend ==
  ASSUME NEW S, NEW calls, NEW seq \in Seq(S), NEW t \in S,
         Ordered(calls, seq), t \in Range(calls),
         \A i \in DOMAIN seq : Before(calls, seq[i], t)
  PROVE  Ordered(calls, Append(seq, t))
<1> DEFINE longer == Append(seq, t)
<1>1. /\ DOMAIN longer = DOMAIN seq \cup {Len(seq) + 1}
      /\ \A i \in DOMAIN seq : longer[i] = seq[i] /\ i \in Nat /\ i < Len(seq) + 1
      /\ longer[Len(seq) + 1] = t
      /\ Len(seq) \in Nat
  <2>1. DOMAIN seq = 1..Len(seq) /\ Len(seq) \in Nat
    OBVIOUS
  <2>2. \A i \in DOMAIN seq : i \in Nat /\ i < Len(seq) + 1
    BY <2>1
  <2> QED
    BY <2>1, <2>2, Appended
<1>2. Range(longer) = Range(seq) \cup {t}
  BY AppendedRange
<1> HIDE DEF longer
<1>3. \A i, j \in DOMAIN longer : i < j => i \in DOMAIN seq /\ (j \in DOMAIN seq \/ longer[j] = t)
  <2>1. \A i, j \in DOMAIN longer : i < j => i # Len(seq) + 1
    BY <1>1
  <2> QED
    BY <1>1, <2>1
<1>4. \A i, j \in DOMAIN longer : i < j => Before(calls, longer[i], longer[j])
  BY <1>1, <1>3 DEF Ordered
<1>5. Range(longer) \subseteq Range(calls)
  BY <1>2 DEF Ordered
<1> QED
  BY <1>4, <1>5 DEF Ordered, longer

(* Serving the head of the queue moves it behind the data. *)
LEMMA OrderedTail ==
  ASSUME NEW S, NEW calls, NEW seq \in Seq(S), NEW queue \in Seq(S), queue # <<>>,
         Ordered(calls, seq), Ordered(calls, queue), Precedes(calls, seq, queue)
  PROVE  /\ Ordered(calls, Tail(queue))
         /\ Precedes(calls, seq, Tail(queue))
         /\ Ordered(calls, Append(seq, Head(queue)))
         /\ Precedes(calls, Append(seq, Head(queue)), Tail(queue))
<1>1. /\ Head(queue) \in S /\ Head(queue) = queue[1] /\ 1 \in DOMAIN queue
      /\ \A i \in DOMAIN Tail(queue) :
           /\ i \in Nat /\ i + 1 \in DOMAIN queue /\ 1 < i + 1
           /\ Tail(queue)[i] = queue[i + 1]
  <2>1. \A i \in DOMAIN Tail(queue) : i \in Nat /\ 1 < i + 1
    OBVIOUS
  <2> QED
    BY <2>1, Taken
<1>2. Range(Tail(queue)) \subseteq Range(calls)
  <2>1. \A i \in DOMAIN Tail(queue) : Tail(queue)[i] \in Range(queue)
    BY <1>1 DEF Range
  <2>2. Range(queue) \subseteq Range(calls)
    BY DEF Ordered
  <2> QED
    BY <2>1, <2>2 DEF Range
<1>3. \A i, j \in DOMAIN Tail(queue) : i < j => i + 1 < j + 1
  BY <1>1
<1>4. Ordered(calls, Tail(queue))
  BY <1>1, <1>2, <1>3 DEF Ordered
<1>5. Precedes(calls, seq, Tail(queue))
  BY <1>1 DEF Precedes
<1>6. Ordered(calls, Append(seq, Head(queue)))
  <2>1. Head(queue) \in Range(calls)
    BY <1>1 DEF Range, Ordered
  <2>2. \A i \in DOMAIN seq : Before(calls, seq[i], Head(queue))
    BY <1>1 DEF Precedes
  <2> QED
    BY <1>1, <2>1, <2>2, OrderedAppend
<1>7. Precedes(calls, Append(seq, Head(queue)), Tail(queue))
  <2>1. \A j \in DOMAIN Tail(queue) : Before(calls, Head(queue), Tail(queue)[j])
    BY <1>1 DEF Ordered
  <2>2. \A i \in DOMAIN Append(seq, Head(queue)) :
          \/ i \in DOMAIN seq /\ Append(seq, Head(queue))[i] = seq[i]
          \/ Append(seq, Head(queue))[i] = Head(queue)
    BY <1>1, Appended
  <2> QED
    BY <1>5, <2>1, <2>2 DEF Precedes
<1> QED
  BY <1>4, <1>5, <1>6, <1>7

LEMMA OrderStep == StoreInv /\ OrderInv /\ [Next]_vars => OrderInv'
<1> SUFFICES ASSUME StoreInv, OrderInv, [Next]_vars
             PROVE  OrderInv'
  OBVIOUS
<1> USE DEF OrderInv
<1>1. CASE UNCHANGED vars
  BY <1>1 DEF vars
<1>2. CASE Start \/ CreateFails
  <2>1. chain = <<>> /\ UNCHANGED <<asked, chain>>
    BY <1>2
       DEF StoreInv, ChainInv, Up, Start, Open, Create, Created, CreateRename, CreateFails
  <2>2. data' = <<>> \/ data' = data \/ (file # NoFile /\ data' = file)
    BY <1>2 DEF Start, Open, Create, Created, CreateRename, CreateFails
  <2>3. file' = file \/ file' = <<>>
    BY <1>2 DEF StoreInv, FileInv, Start, Open, Create, Created, CreateRename, CreateFails
  <2> QED
    BY <2>1, <2>2, <2>3, EmptyOrdered
<1>3. ASSUME NEW t \in Transactions, Ask(t)
      PROVE  OrderInv'
  <2>1. /\ chain' = Append(chain, t) /\ asked' = Append(asked, t)
        /\ UNCHANGED <<file, data>>
    BY <1>3 DEF Ask, Enqueue
  <2>2. asked \in Seq(Transactions) /\ chain \in Seq(Transactions)
    BY DEF StoreInv, TypeOK
  <2>3. /\ file # NoFile => Ordered(asked', file)
        /\ Ordered(asked', data) /\ Ordered(asked', chain)
        /\ Precedes(asked', data, chain)
        /\ \A a \in Range(asked) : Before(asked', a, t)
        /\ t \in Range(asked')
    BY <2>1, <2>2, LaterCall, AppendedRange
  <2>4. /\ \A i \in DOMAIN chain : Before(asked', chain[i], t)
        /\ \A i \in DOMAIN data : Before(asked', data[i], t)
    BY <2>3 DEF Ordered, Range
  <2>5. Ordered(asked', chain')
    BY <2>1, <2>2, <2>3, <2>4, OrderedAppend
  <2>6. Precedes(asked', data, chain')
    BY <2>1, <2>2, <2>3, <2>4, Appended DEF Precedes
  <2> QED
    BY <2>1, <2>3, <2>5, <2>6
<1>4. CASE Mutate \/ BeginWrite \/ EndWrite
  BY <1>4 DEF Mutate, DataDuring, BeginWrite, EndWrite, FileDuringWrite
<1>5. CASE Rename \/ Publish \/ Refusal
  <2>1. /\ chain # <<>> /\ chain \in Seq(Transactions) /\ data \in Seq(Transactions)
    BY <1>5
       DEF StoreInv, TypeOK, FileInv, Working, Rename, Publish, Refusal, MutatorThrows,
           PersistFails
  <2>2. /\ Ordered(asked, Tail(chain)) /\ Precedes(asked, data, Tail(chain))
        /\ Ordered(asked, Append(data, Head(chain)))
        /\ Precedes(asked, Append(data, Head(chain)), Tail(chain))
    BY <2>1, OrderedTail
  <2>3. CASE Rename
    BY <2>2, <2>3 DEF Rename, StoreInv, FileInv, Working
  <2>4. CASE Publish
    BY <2>2, <2>4 DEF Publish, StoreInv, FileInv, Working
  <2>5. CASE Refusal
    BY <2>2, <2>5 DEF Refusal, MutatorThrows, PersistFails, Reject
  <2> QED
    BY <1>5, <2>3, <2>4, <2>5
<1>6. CASE Crash
  BY <1>6, EmptyOrdered DEF Crash
<1> QED
  BY <1>1, <1>2, <1>3, <1>4, <1>5, <1>6 DEF Next, Progress, Persist, Refusal

(* The database holds the transactions in the order of their calls, though *)
(* some of them fail and the process dies in between.                      *)
THEOREM EffectsInCallOrder == Spec => []CallOrder
<1>1. Init => OrderInv
  BY EmptyOrdered DEF Init, OrderInv
<1>2. OrderInv => CallOrder
  BY DEF OrderInv, Ordered, Before, CallOrder
<1> QED
  BY <1>1, <1>2, OrderStep, StoreInvariant, PTL DEF Spec
-----------------------------------------------------------------------------
(* The store implements AtomicStore: a transaction takes effect when its   *)
(* draft is published, or, if the process dies just before, at the death.  *)

Committed == IF Up THEN data ELSE Content(file)

LEMMA InitAtomic == Init => Atomic!Init
BY DEF Init, Atomic!Init, Up, Content

LEMMA StepOfAtomic ==
  ASSUME StoreInv, [Next]_vars
  PROVE  [Atomic!Next]_(Atomic!vars)
<1>1. CASE UNCHANGED vars
  BY <1>1 DEF vars, Atomic!vars, Up, Content
<1>2. CASE Start \/ CreateFails
  BY <1>2, FileAssumption
     DEF StoreInv, FileInv, Start, Open, Create, Created, CreateRename, CreateFails,
         Atomic!vars, Up, Content
<1>3. ASSUME NEW t \in Transactions, Ask(t)
      PROVE  Atomic!Ask(t)
  BY <1>3 DEF Ask, Enqueue, Atomic!Ask, Up, Content
<1>4. CASE Mutate \/ Persist
  BY <1>4
     DEF Mutate, DataDuring, Persist, BeginWrite, EndWrite, Rename, Atomic!vars, Up, Content
<1>5. ASSUME Publish
      PROVE  Atomic!Commit
  BY <1>5
     DEF StoreInv, FileInv, Working, Publish, Atomic!Commit, Up, Content
<1>6. ASSUME Refusal
      PROVE  Atomic!Refuse
  BY <1>6
     DEF StoreInv, FileInv, Working, Refusal, MutatorThrows, PersistFails, Reject, Rejected,
         StageAfterFailure, Atomic!Refuse, Up, Content
<1>7. ASSUME Crash
      PROVE  Atomic!Restart
  <2>1. \/ Committed' = Committed
        \/ chain # <<>> /\ Committed' = Append(Committed, Head(chain))
    <3>1. CASE stage = "publish"
      <4>1. file = Append(data, Head(chain)) /\ chain # <<>> /\ file # NoFile
        BY <3>1, Taken, Appended, FileAssumption DEF StoreInv, TypeOK, FileInv, Working
      <4> QED
        BY <1>7, <3>1, <4>1 DEF Crash, Committed, Up, Content
    <3>2. CASE stage \in {"idle", "write", "writing", "rename"}
      <4>1. file = data /\ file # NoFile
        BY <3>2, FileAssumption DEF StoreInv, TypeOK, FileInv
      <4> QED
        BY <1>7, <3>2, <4>1 DEF Crash, Committed, Up, Content
    <3>3. CASE stage \in {"create", "createRename"}
      BY <1>7, <3>3 DEF Crash, Committed, Up, Content
    <3> QED
      BY <1>7, <3>1, <3>2, <3>3 DEF StoreInv, TypeOK, Stage, Crash
  <2> QED
    BY <1>7, <2>1 DEF Crash, Atomic!Restart, Committed
<1> QED
  BY <1>1, <1>2, <1>3, <1>4, <1>5, <1>6, <1>7
     DEF Next, Progress, Refusal, Atomic!Next

(* Transactions are atomic, take effect in call order and survive every    *)
(* restart, though the store writes, renames and publishes one by one.     *)
THEOREM StoreIsAtomic == Spec => KeepsAtomicity
<1>1. StoreInv /\ [Next]_vars => [Atomic!Next]_(Atomic!vars)
  BY StepOfAtomic
<1> QED
  BY InitAtomic, StoreInvariant, <1>1, PTL DEF Spec, KeepsAtomicity, Atomic!Spec
=============================================================================
