---------------------------- MODULE ContentProofs ----------------------------
(* Theorems about IngestionQueue for any number of jobs and contents, any  *)
(* batch size, stream capacity and retry limits, and any failures; then    *)
(* about ContentFiles for any requests, MIME types, attempts and failures. *)
EXTENDS IngestionQueue, ContentFiles, SequenceTheorems, TLAPS

(***************************************************************************)
(* Sequences without repetition.                                           *)
(***************************************************************************)

NoDup(s) == \A i, k \in DOMAIN s : s[i] = s[k] => i = k

\* What Append does to the elements.
LEMMA AppendFacts ==
  ASSUME NEW S, NEW s \in Seq(S), NEW e \in S
  PROVE  /\ Append(s, e) \in Seq(S)
         /\ Len(Append(s, e)) = Len(s) + 1
         /\ ToSet(Append(s, e)) = ToSet(s) \cup {e}
         /\ (NoDup(s) /\ e \notin ToSet(s)) => NoDup(Append(s, e))
<1>1. /\ Append(s, e) \in Seq(S)
      /\ Len(Append(s, e)) = Len(s) + 1
      /\ \A i \in 1..Len(s) : Append(s, e)[i] = s[i]
      /\ Append(s, e)[Len(s) + 1] = e
  BY AppendProperties
<1>2. DOMAIN s = 1..Len(s) /\ DOMAIN Append(s, e) = 1..(Len(s) + 1) /\ Len(s) \in Nat
  BY <1>1, LenProperties
<1>3. ToSet(Append(s, e)) = ToSet(s) \cup {e}
  BY <1>1, <1>2 DEF ToSet
<1>4. (NoDup(s) /\ e \notin ToSet(s)) => NoDup(Append(s, e))
  BY <1>1, <1>2 DEF ToSet, NoDup
<1> QED BY <1>1, <1>3, <1>4

\* A sequence is its first n elements and the rest.
LEMMA SplitFacts ==
  ASSUME NEW S, NEW s \in Seq(S), NEW n \in 0..Len(s)
  PROVE  /\ SubSeq(s, 1, n) \in Seq(S)
         /\ SubSeq(s, n + 1, Len(s)) \in Seq(S)
         /\ DOMAIN SubSeq(s, 1, n) = 1..n
         /\ \A i \in 1..n : SubSeq(s, 1, n)[i] = s[i]
         /\ ToSet(s) = ToSet(SubSeq(s, 1, n)) \cup ToSet(SubSeq(s, n + 1, Len(s)))
         /\ NoDup(s) => /\ NoDup(SubSeq(s, 1, n))
                        /\ NoDup(SubSeq(s, n + 1, Len(s)))
                        /\ ToSet(SubSeq(s, 1, n)) \cap ToSet(SubSeq(s, n + 1, Len(s))) = {}
<1> DEFINE a == SubSeq(s, 1, n)
           b == SubSeq(s, n + 1, Len(s))
<1>1. Len(s) \in Nat /\ DOMAIN s = 1..Len(s) /\ \A i \in 1..Len(s) : s[i] \in S
  BY LenProperties, ElementOfSeq
<1>2. /\ a \in Seq(S)
      /\ Len(a) = n
      /\ \A i \in 1..n : a[i] = s[i]
  BY <1>1, SubSeqProperties
<1>3. /\ b \in Seq(S)
      /\ Len(b) = Len(s) - n
      /\ \A i \in 1..(Len(s) - n) : b[i] = s[n + i]
  <2>1. \A i \in (n + 1)..Len(s) : s[i] \in S
    BY <1>1
  <2>2. /\ b \in Seq(S)
        /\ Len(b) = IF n + 1 <= Len(s) THEN Len(s) - (n + 1) + 1 ELSE 0
        /\ \A i \in 1..(Len(s) - (n + 1) + 1) : b[i] = s[(n + 1) + i - 1]
    BY <1>1, <2>1, SubSeqProperties
  <2> HIDE DEF b
  <2> DEFINE l == Len(s)
  <2>3. l \in Nat /\ n \in Nat /\ n <= l
    BY <1>1
  <2> HIDE DEF l
  <2>4. l - (n + 1) + 1 = l - n
    BY <2>3
  <2>a. (IF n + 1 <= l THEN l - (n + 1) + 1 ELSE 0) = l - n
    <3>1. CASE n + 1 <= l
      BY <3>1, <2>4
    <3>2. CASE ~(n + 1 <= l)
      BY <3>2, <2>3
    <3> QED BY <3>1, <3>2
  <2>b. ASSUME NEW i \in 1..(l - n) PROVE (n + 1) + i - 1 = n + i
    BY <2>3
  <2>5. Len(b) = l - n
    BY <2>2, <2>a DEF l
  <2>6. ASSUME NEW i \in 1..(l - n) PROVE b[i] = s[n + i]
    <3>1. i \in 1..(l - (n + 1) + 1) /\ (n + 1) + i - 1 = n + i
      BY <2>4, <2>b
    <3>2. b[i] = s[(n + 1) + i - 1]
      BY <2>2, <3>1 DEF l
    <3> QED BY <3>1, <3>2
  <2> QED BY <2>2, <2>5, <2>6 DEF l
<1> HIDE DEF a, b
<1>4. DOMAIN a = 1..n /\ DOMAIN b = 1..(Len(s) - n)
  BY <1>2, <1>3, LenProperties
<1>5. ToSet(s) = ToSet(a) \cup ToSet(b)
  <2>1. ToSet(a) \cup ToSet(b) \subseteq ToSet(s)
    <3>1. ASSUME NEW i \in 1..n PROVE a[i] \in ToSet(s)
      BY <1>1, <1>2 DEF ToSet
    <3>2. ASSUME NEW i \in 1..(Len(s) - n) PROVE b[i] \in ToSet(s)
      <4>1. n + i \in 1..Len(s) /\ b[i] = s[n + i]
        BY <1>1, <1>3
      <4> QED BY <1>1, <4>1 DEF ToSet
    <3> QED BY <1>4, <3>1, <3>2 DEF ToSet
  <2>2. ASSUME NEW i \in 1..Len(s) PROVE s[i] \in ToSet(a) \cup ToSet(b)
    <3>1. CASE i <= n
      BY <1>1, <1>2, <1>4, <3>1 DEF ToSet
    <3>2. CASE i > n
      <4>1. i - n \in 1..(Len(s) - n) /\ b[i - n] = s[i]
        BY <1>1, <1>3, <3>2
      <4> QED BY <1>4, <4>1 DEF ToSet
    <3> QED BY <1>1, <3>1, <3>2
  <2> QED BY <1>1, <2>1, <2>2 DEF ToSet
<1>6. ASSUME NoDup(s) PROVE NoDup(a) /\ NoDup(b) /\ ToSet(a) \cap ToSet(b) = {}
  <2>1. NoDup(a)
    BY <1>1, <1>2, <1>4, <1>6 DEF NoDup
  <2>2. NoDup(b)
    <3> SUFFICES ASSUME NEW i \in 1..(Len(s) - n), NEW k \in 1..(Len(s) - n), b[i] = b[k]
                 PROVE  i = k
      BY <1>4 DEF NoDup
    <3>1. n + i \in 1..Len(s) /\ n + k \in 1..Len(s) /\ s[n + i] = s[n + k]
      BY <1>1, <1>3
    <3>2. n + i = n + k
      BY <1>1, <1>6, <3>1 DEF NoDup
    <3> QED BY <1>1, <3>2
  <2>3. ASSUME NEW i \in 1..n, NEW k \in 1..(Len(s) - n) PROVE a[i] # b[k]
    <3>1. i \in 1..Len(s) /\ n + k \in 1..Len(s) /\ i # n + k
      BY <1>1
    <3>2. s[i] # s[n + k]
      BY <1>1, <1>6, <3>1 DEF NoDup
    <3> QED BY <1>2, <1>3, <3>2
  <2>4. ToSet(a) \cap ToSet(b) = {}
    BY <1>4, <2>3 DEF ToSet
  <2> QED BY <2>1, <2>2, <2>4
<1> QED BY <1>2, <1>3, <1>4, <1>5, <1>6 DEF a, b

\* A sequence is its head and its tail.
LEMMA TailFacts ==
  ASSUME NEW S, NEW s \in Seq(S), s # << >>
  PROVE  /\ Head(s) \in S
         /\ Tail(s) \in Seq(S)
         /\ ToSet(s) = {Head(s)} \cup ToSet(Tail(s))
         /\ NoDup(s) => NoDup(Tail(s)) /\ Head(s) \notin ToSet(Tail(s))
<1>1. /\ Head(s) \in S
      /\ Tail(s) \in Seq(S)
      /\ Len(Tail(s)) = Len(s) - 1
      /\ \A i \in 1..(Len(s) - 1) : Tail(s)[i] = s[i + 1]
  BY HeadTailProperties
<1>2. /\ Len(s) \in Nat \ {0}
      /\ DOMAIN s = 1..Len(s)
      /\ DOMAIN Tail(s) = 1..(Len(s) - 1)
      /\ Head(s) = s[1]
  BY <1>1, LenProperties, EmptySeq
<1>3. ToSet(s) = {Head(s)} \cup ToSet(Tail(s))
  <2>1. {Head(s)} \cup ToSet(Tail(s)) \subseteq ToSet(s)
    BY <1>1, <1>2 DEF ToSet
  <2>2. ASSUME NEW i \in 1..Len(s) PROVE s[i] \in {Head(s)} \cup ToSet(Tail(s))
    <3>1. CASE i = 1
      BY <1>2, <3>1
    <3>2. CASE i > 1
      <4>1. i - 1 \in 1..(Len(s) - 1) /\ Tail(s)[i - 1] = s[i]
        BY <1>1, <1>2, <3>2
      <4> QED BY <1>2, <4>1 DEF ToSet
    <3> QED BY <1>2, <3>1, <3>2
  <2> QED BY <1>2, <2>1, <2>2 DEF ToSet
<1>4. ASSUME NoDup(s) PROVE NoDup(Tail(s)) /\ Head(s) \notin ToSet(Tail(s))
  BY <1>1, <1>2, <1>4 DEF NoDup, ToSet
<1> QED BY <1>1, <1>3, <1>4

(***************************************************************************)
(* The inductive invariant.                                                *)
(***************************************************************************)

\* A request issues at most MaxEnqueueAttempts XADDs, and none before its job
\* row exists.
PushesInv ==
  \A j \in Jobs :
    /\ request[j] = "push" => pushes[j] < MaxEnqueueAttempts
    /\ request[j] \in {"idle", "store", "replace", "row", "job"} => pushes[j] = 0

\* An entry that is anywhere, or was ever run, was pushed.
PushedInv ==
  \A e \in Entry :
    (e \in Stream \cup ToSet(batch) \cup pending \cup dropped \/ runs[e] > 0) =>
      e.copy <= pushes[e.job]

\* Every entry is at one place only.
PlacesInv ==
  /\ NoDup(log) /\ NoDup(batch)
  /\ Stream \cap (ToSet(batch) \cup pending \cup dropped) = {}
  /\ dropped \cap (ToSet(batch) \cup pending) = {}

\* The entries of the batch that the worker has not begun.
Waiting == IF worker = "idle" THEN ToSet(batch) ELSE ToSet(Tail(batch))

RunsInv ==
  /\ \A e \in Stream \cup Waiting : runs[e] = 0
  /\ \A e \in succeeded : runs[e] > 0
  /\ worker = "start" => runs[Current] < MaxDeliveries
  /\ worker \notin {"idle", "start"} => runs[Current] > 0
  /\ worker \in {"mark", "dlq", "ackDead", "delDead"} => runs[Current] = MaxDeliveries

\* What the worker holds is in the PEL, or had a good run.
HeldInv ==
  /\ Waiting \subseteq pending
  /\ worker \in {"ack", "del"} => Current \in succeeded
  /\ worker \in {"ackDead", "delDead"} => Current \in dlq
  /\ worker \notin {"idle", "delDead"} => Current \in pending \cup succeeded

Over(j) == job[j] \in {"none", "SUCCEEDED", "FAILED"}

\* The job is over when its entry is about to be let go.
OverInv == worker \in {"ack", "del", "dlq", "ackDead", "delDead"} => Over(Current.job)

IInv == /\ TypeOK /\ PushesInv /\ PushedInv /\ PlacesInv
        /\ RunsInv /\ HeldInv /\ OverInv /\ UnfinishedJobIsCarried

\* Before the first request nothing is stored, pushed or held.
LEMMA InitInv == Init => IInv
<1> SUFFICES ASSUME Init PROVE IInv
  OBVIOUS
<1> USE DEF Init
<1>1. Stream = {} /\ ToSet(batch) = {} /\ log \in Seq(Entry) /\ batch \in Seq(Entry)
  BY DEF Stream, ToSet
<1>2. TypeOK
  BY <1>1, IngestionAssumption DEF TypeOK, ContentStatus, JobStatus, RequestStep, WorkerStep
<1>3. PushesInv
  BY DEF PushesInv
<1>4. PushedInv
  BY <1>1 DEF PushedInv
<1>5. PlacesInv
  BY <1>1 DEF PlacesInv, NoDup
<1>6. RunsInv /\ HeldInv /\ OverInv
  BY <1>1 DEF RunsInv, HeldInv, OverInv, Waiting
<1>7. UnfinishedJobIsCarried
  BY DEF UnfinishedJobIsCarried
<1> QED BY <1>2, <1>3, <1>4, <1>5, <1>6, <1>7 DEF IInv

\* A failure is counted under its kind.
LEMMA FaultCounted ==
  ASSUME TypeOK, NEW kind, Fault(kind)
  PROVE  faults' \in [Faults -> Nat]
<1>1. faults \in [Faults -> Nat] /\ faults' = [faults EXCEPT ![kind] = @ + 1] /\ kind \in Faults
  BY DEF Fault, TypeOK
<1>2. faults[kind] + 1 \in Nat
  BY <1>1
<1> QED BY <1>1, <1>2

\* A step of a request other than Push leaves stream and worker alone; it adds
\* no QUEUED job for which an entry exists.
LEMMA RequestStepInv ==
  ASSUME IInv, NEW j \in Jobs,
         \/ BeginUpload(j) \/ StoreUpload(j) \/ BeginReplace(j) \/ StoreReplacement(j)
         \/ ReplaceRow(j) \/ CreateJob(j) \/ UndoContent(j) \/ UndoJob(j) \/ ApiCrash(j)
  PROVE  IInv'
<1>1. UNCHANGED <<pushes, log, retained, pending, dropped, dlq, worker, batch, runs, succeeded>>
  BY DEF BeginUpload, StoreUpload, BeginReplace, StoreReplacement, ReplaceRow, CreateJob,
     UndoContent, UndoJob, ApiCrash, streamVars, workerVars
<1>2. TypeOK
  BY DEF IInv
<1>3. content' \in [Contents -> ContentStatus]
  BY <1>2, IngestionAssumption DEF TypeOK, BeginUpload, StoreUpload, BeginReplace,
     StoreReplacement, ReplaceRow, CreateJob, UndoContent, UndoJob, ApiCrash, SetContent,
     rows, ContentStatus
<1>4. job' \in [Jobs -> JobStatus]
  BY <1>2 DEF TypeOK, BeginUpload, StoreUpload, BeginReplace, StoreReplacement,
     ReplaceRow, CreateJob, UndoContent, UndoJob, ApiCrash, SetJob, rows, JobStatus
<1>5. request' \in [Jobs -> RequestStep]
  BY <1>2 DEF TypeOK, BeginUpload, StoreUpload, BeginReplace, StoreReplacement,
     ReplaceRow, CreateJob, UndoContent, UndoJob, ApiCrash, Go, RequestStep
<1>6. operation' \in [Jobs -> {"none", "UPLOAD", "REPLACE"}]
  BY <1>2 DEF TypeOK, BeginUpload, StoreUpload, BeginReplace, StoreReplacement,
     ReplaceRow, CreateJob, UndoContent, UndoJob, ApiCrash
<1>7. faults' \in [Faults -> Nat]
  BY <1>2, FaultCounted DEF TypeOK, BeginUpload, StoreUpload, BeginReplace,
     StoreReplacement, ReplaceRow, CreateJob, UndoContent, UndoJob, ApiCrash
<1>8. TypeOK'
  BY <1>1, <1>2, <1>3, <1>4, <1>5, <1>6, <1>7 DEF TypeOK
<1>9. PushesInv'
  <2> SUFFICES ASSUME NEW k \in Jobs
               PROVE  /\ request'[k] = "push" => pushes[k] < MaxEnqueueAttempts
                      /\ request'[k] \in {"idle", "store", "replace", "row", "job"} => pushes[k] = 0
    BY <1>1 DEF PushesInv
  <2>1. /\ request[k] = "push" => pushes[k] < MaxEnqueueAttempts
        /\ request[k] \in {"idle", "store", "replace", "row", "job"} => pushes[k] = 0
    BY DEF IInv, PushesInv
  <2> QED BY <1>2, <2>1, IngestionAssumption DEF TypeOK, BeginUpload, StoreUpload, BeginReplace,
     StoreReplacement, ReplaceRow, CreateJob, UndoContent, UndoJob, ApiCrash, Go
<1>10. PushedInv' /\ PlacesInv' /\ RunsInv' /\ HeldInv'
  BY <1>1 DEF IInv, PushedInv, PlacesInv, RunsInv, HeldInv, Waiting, Stream, Current
<1>11. ASSUME NEW k \in Jobs, Over(k), pushes[k] > 0 PROVE Over(k)'
  BY <1>2, <1>11 DEF IInv, PushesInv, TypeOK, Over, BeginUpload, StoreUpload, BeginReplace,
     StoreReplacement, ReplaceRow, CreateJob, UndoContent, UndoJob, ApiCrash, SetJob, rows
<1>12. OverInv'
  <2> SUFFICES ASSUME worker' \in {"ack", "del", "dlq", "ackDead", "delDead"}
               PROVE  Over(Current.job)'
    BY DEF OverInv
  <2>1. Current' = Current /\ batch # << >> /\ Over(Current.job)
    BY <1>1, <1>2 DEF IInv, OverInv, Current, TypeOK
  <2>2. Current \in Entry /\ Current \in ToSet(batch)
    BY <1>2, <2>1, TailFacts DEF TypeOK, Current
  <2>3. pushes[Current.job] > 0 /\ Current.job \in Jobs
    BY <1>2, <2>2, IngestionAssumption DEF IInv, PushedInv, TypeOK, Entry
  <2> QED BY <1>11, <2>1, <2>3 DEF Over
<1>13. UnfinishedJobIsCarried'
  <2> SUFFICES ASSUME NEW k \in Jobs, request'[k] = "accepted", job'[k] \in {"QUEUED", "PROCESSING"}
               PROVE  \E e \in (Stream \cup pending \cup dropped \cup succeeded)' : e.job = k
    BY DEF UnfinishedJobIsCarried
  <2>1. k # j /\ request[k] = "accepted" /\ job[k] \in {"QUEUED", "PROCESSING"}
    BY <1>2 DEF TypeOK, BeginUpload, StoreUpload, BeginReplace, StoreReplacement,
       ReplaceRow, CreateJob, UndoContent, UndoJob, ApiCrash, Go, SetJob, rows
  <2>2. (Stream \cup pending \cup dropped \cup succeeded)'
          = Stream \cup pending \cup dropped \cup succeeded
    BY <1>1 DEF Stream
  <2> QED BY <2>1, <2>2 DEF IInv, UnfinishedJobIsCarried
<1> QED BY <1>8, <1>9, <1>10, <1>12, <1>13 DEF IInv

\* XADD: the new entry is the last, what falls off was first.
LEMMA XAddFacts ==
  ASSUME TypeOK, PlacesInv, NEW e \in Entry, e \notin Stream \cup dropped, XAdd(e)
  PROVE  /\ log' \in Seq(Entry) /\ retained' \subseteq Entry /\ dropped' \subseteq Entry
         /\ NoDup(log')
         /\ e \in Stream' /\ Stream' \subseteq Stream \cup {e}
         /\ Stream \subseteq Stream' \cup dropped' /\ dropped \subseteq dropped'
         /\ dropped' \subseteq dropped \cup Stream /\ Stream' \cap dropped' = {}
<1>1. PICK kept \in SUBSET retained, n \in 0..Len(log) :
        /\ retained' = kept
        /\ log' = SubSeq(Append(log, e), n + 1, Len(log) + 1)
        /\ dropped' = dropped \cup ToSet(SubSeq(log, 1, n))
  BY DEF XAdd
<1> DEFINE s == Append(log, e)
           a == SubSeq(log, 1, n)
           b == SubSeq(s, 1, n)
<1>2. log \in Seq(Entry) /\ retained \subseteq Entry /\ dropped \subseteq Entry /\ Len(log) \in Nat
  BY LenProperties DEF TypeOK
<1>3. /\ s \in Seq(Entry)
      /\ Len(s) = Len(log) + 1
      /\ ToSet(s) = ToSet(log) \cup {e}
      /\ NoDup(s)
      /\ \A i \in 1..Len(log) : s[i] = log[i]
  BY <1>2, AppendFacts, AppendProperties DEF Stream, PlacesInv
<1>4. n \in 0..Len(s)
  BY <1>1, <1>2, <1>3
<1>5. /\ a \in Seq(Entry)
      /\ DOMAIN a = 1..n
      /\ \A i \in 1..n : a[i] = log[i]
      /\ ToSet(log) = ToSet(a) \cup ToSet(SubSeq(log, n + 1, Len(log)))
  BY <1>1, <1>2, SplitFacts
<1>6. /\ log' \in Seq(Entry)
      /\ NoDup(log')
      /\ DOMAIN b = 1..n
      /\ \A i \in 1..n : b[i] = s[i]
      /\ ToSet(s) = ToSet(b) \cup ToSet(log')
      /\ ToSet(b) \cap ToSet(log') = {}
  <2>1. log' = SubSeq(s, n + 1, Len(s))
    BY <1>1, <1>3
  <2> HIDE DEF s
  <2>2. /\ SubSeq(s, n + 1, Len(s)) \in Seq(Entry)
        /\ DOMAIN b = 1..n
        /\ \A i \in 1..n : b[i] = s[i]
        /\ ToSet(s) = ToSet(b) \cup ToSet(SubSeq(s, n + 1, Len(s)))
        /\ NoDup(s) => /\ NoDup(SubSeq(s, n + 1, Len(s)))
                       /\ ToSet(b) \cap ToSet(SubSeq(s, n + 1, Len(s))) = {}
    BY <1>3, <1>4, SplitFacts
  <2> QED BY <1>3, <2>1, <2>2
<1> HIDE DEF s, a, b
<1>7. ToSet(a) = ToSet(b)
  <2>1. ASSUME NEW i \in 1..n PROVE a[i] = b[i]
    <3>1. i \in 1..Len(log)
      BY <1>2
    <3> QED BY <1>3, <1>5, <1>6, <3>1
  <2> QED BY <1>5, <1>6, <2>1 DEF ToSet
<1>8. ToSet(a) \subseteq ToSet(log) /\ ToSet(log) \subseteq Entry
  BY <1>2, <1>5, ElementOfSeq, LenProperties DEF ToSet
<1>9. dropped' = dropped \cup ToSet(a)
  BY <1>1 DEF a
<1>10. e \notin ToSet(b)
  BY <1>7, <1>8 DEF Stream
<1>11. Stream \cap dropped = {}
  BY DEF PlacesInv
<1> QED BY <1>1, <1>2, <1>3, <1>6, <1>7, <1>8, <1>9, <1>10, <1>11 DEF Stream

\* A push adds an entry never seen before.
LEMMA PushInv == ASSUME IInv, NEW j \in Jobs, Push(j) PROVE IInv'
<1> DEFINE e == [job |-> j, copy |-> pushes[j] + 1]
<1>1. TypeOK /\ PushesInv /\ PushedInv /\ PlacesInv /\ RunsInv /\ HeldInv
  BY DEF IInv
<1>2. /\ request[j] = "push"
      /\ pushes' = [pushes EXCEPT ![j] = @ + 1]
      /\ UNCHANGED <<content, job, operation, pending, dlq, worker, batch, runs, succeeded>>
  BY DEF Push, rows, workerVars
<1>3. pushes[j] \in Nat /\ pushes[j] + 1 \in 1..MaxEnqueueAttempts
  BY <1>1, <1>2, IngestionAssumption DEF TypeOK, PushesInv
<1>4. e \in Entry /\ e.job = j /\ e.copy = pushes[j] + 1
  BY <1>3 DEF Entry
<1> HIDE DEF e
<1>5. e \notin Stream \cup ToSet(batch) \cup pending \cup dropped /\ runs[e] = 0
  <2>1. ~(e.copy <= pushes[e.job])
    BY <1>3, <1>4
  <2>2. ~(e \in Stream \cup ToSet(batch) \cup pending \cup dropped) /\ ~(runs[e] > 0)
    BY <1>1, <1>4, <2>1 DEF PushedInv
  <2>3. runs[e] \in Nat
    BY <1>1, <1>4, IngestionAssumption DEF TypeOK
  <2> QED BY <2>2, <2>3
<1>6. XAdd(e) \/ UNCHANGED <<log, retained, dropped>>
  BY DEF Push, e
<1>7. /\ log' \in Seq(Entry) /\ retained' \subseteq Entry /\ dropped' \subseteq Entry
      /\ NoDup(log') /\ Stream' \subseteq Stream \cup {e}
      /\ Stream \subseteq Stream' \cup dropped' /\ dropped \subseteq dropped'
      /\ dropped' \subseteq dropped \cup Stream /\ Stream' \cap dropped' = {}
  <2>1. CASE XAdd(e)
    BY <1>1, <1>4, <1>5, <2>1, XAddFacts
  <2>2. CASE UNCHANGED <<log, retained, dropped>>
    BY <1>1, <2>2 DEF TypeOK, PlacesInv, Stream
  <2> QED BY <1>6, <2>1, <2>2
<1>8. /\ request' \in [Jobs -> RequestStep]
      /\ request'[j] \in {"push", "undoContent", "accepted"}
      /\ \A k \in Jobs \ {j} : request'[k] = request[k]
      /\ request'[j] = "push" => pushes'[j] < MaxEnqueueAttempts
      /\ request'[j] = "accepted" => XAdd(e)
  BY <1>1, <1>2, <1>3 DEF TypeOK, Push, Go, AfterFailedPush, RequestStep, e
<1>9. faults' \in [Faults -> Nat]
  BY <1>1, FaultCounted DEF Push, TypeOK, IInv
<1>10. pushes' \in [Jobs -> 0..MaxEnqueueAttempts]
  BY <1>1, <1>2, <1>3 DEF TypeOK
<1>11. TypeOK'
  BY <1>1, <1>2, <1>7, <1>8, <1>9, <1>10 DEF TypeOK
<1>12. PushesInv'
  BY <1>1, <1>2, <1>8, <1>10 DEF PushesInv, TypeOK
<1>13. \A k \in Jobs : pushes'[k] >= pushes[k] /\ pushes[k] \in Nat /\ pushes'[k] \in Nat
  BY <1>1, <1>2, <1>3, <1>10 DEF TypeOK
<1>14. PushedInv'
  <2> SUFFICES ASSUME NEW x \in Entry,
                      x \in Stream' \cup ToSet(batch) \cup pending \cup dropped' \/ runs[x] > 0
               PROVE  x.copy <= pushes'[x.job]
    BY <1>2 DEF PushedInv
  <2>1. CASE x = e
    BY <1>1, <1>2, <1>4, <2>1 DEF TypeOK
  <2>2. CASE x # e
    <3>1. x.copy <= pushes[x.job]
      BY <1>1, <1>7, <2>2 DEF PushedInv
    <3>2. x.job \in Jobs /\ x.copy \in Nat
      BY IngestionAssumption DEF Entry
    <3> QED BY <1>13, <3>1, <3>2
  <2> QED BY <2>1, <2>2
<1>15. PlacesInv'
  BY <1>1, <1>2, <1>5, <1>7 DEF PlacesInv
<1>16. RunsInv' /\ HeldInv' /\ OverInv'
  BY <1>1, <1>2, <1>5, <1>7 DEF IInv, RunsInv, HeldInv, OverInv, Over, Waiting, Current
<1>17. UnfinishedJobIsCarried'
  <2> SUFFICES ASSUME NEW k \in Jobs, request'[k] = "accepted", job[k] \in {"QUEUED", "PROCESSING"}
               PROVE  \E x \in (Stream \cup pending \cup dropped \cup succeeded)' : x.job = k
    BY <1>2 DEF UnfinishedJobIsCarried
  <2>1. CASE k = j
    <3>1. e \in Stream'
        BY <1>1, <1>4, <1>5, <1>8, <2>1, XAddFacts
    <3> QED BY <1>4, <2>1, <3>1
  <2>2. CASE k # j
    <3>1. PICK x \in Stream \cup pending \cup dropped \cup succeeded : x.job = k
      BY <1>8, <2>2 DEF IInv, UnfinishedJobIsCarried
    <3>2. x \in (Stream \cup pending \cup dropped \cup succeeded)'
      BY <1>2, <1>7
    <3> QED BY <3>1, <3>2
  <2> QED BY <2>1, <2>2
<1> QED BY <1>11, <1>12, <1>14, <1>15, <1>16, <1>17 DEF IInv

\* Deleting a content only ends jobs.
LEMMA DeleteContentInv == ASSUME IInv, NEW c \in Contents, DeleteContent(c) PROVE IInv'
<1>1. /\ UNCHANGED <<request, operation, pushes, log, retained, pending, dropped, dlq,
                      worker, batch, runs, succeeded, faults>>
      /\ \A j \in Jobs : job'[j] \in {job[j], "none"}
  BY DEF DeleteContent, apiVars, streamVars, workerVars
<1>2. TypeOK'
  BY <1>1 DEF IInv, TypeOK, DeleteContent, ContentStatus, JobStatus
<1>3. PushesInv' /\ PushedInv' /\ PlacesInv' /\ RunsInv' /\ HeldInv'
  BY <1>1 DEF IInv, PushesInv, PushedInv, PlacesInv, RunsInv, HeldInv, Waiting, Stream, Current
<1>4. OverInv'
  <2> SUFFICES ASSUME worker \in {"ack", "del", "dlq", "ackDead", "delDead"} PROVE Over(Current.job)'
    BY <1>1 DEF OverInv
  <2>1. Over(Current.job) /\ Current \in Entry
    BY TailFacts DEF IInv, OverInv, TypeOK, Current
  <2> QED BY <1>1, <2>1 DEF Over, Current, Entry
<1>5. UnfinishedJobIsCarried'
  BY <1>1 DEF IInv, UnfinishedJobIsCarried, Stream
<1> QED BY <1>2, <1>3, <1>4, <1>5 DEF IInv

\* The entry being run and the rest of the batch.
LEMMA CurrentFacts ==
  ASSUME IInv, worker # "idle"
  PROVE  /\ batch # << >> /\ batch \in Seq(Entry)
         /\ Current \in Entry /\ Current.job \in Jobs
         /\ Tail(batch) \in Seq(Entry)
         /\ ToSet(batch) = {Current} \cup ToSet(Tail(batch))
         /\ Current \notin ToSet(Tail(batch)) /\ NoDup(Tail(batch))
         /\ ToSet(Tail(batch)) \subseteq Entry
         /\ runs[Current] \in 0..MaxDeliveries
<1>1. batch # << >> /\ batch \in Seq(Entry) /\ NoDup(batch)
  BY DEF IInv, TypeOK, PlacesInv
<1>2. /\ Head(batch) \in Entry /\ Tail(batch) \in Seq(Entry)
      /\ ToSet(batch) = {Head(batch)} \cup ToSet(Tail(batch))
      /\ NoDup(Tail(batch)) /\ Head(batch) \notin ToSet(Tail(batch))
  BY <1>1, TailFacts
<1>3. ToSet(Tail(batch)) \subseteq Entry
  BY <1>2, ElementOfSeq, LenProperties DEF ToSet
<1>4. Head(batch).job \in Jobs /\ runs[Head(batch)] \in 0..MaxDeliveries
  BY <1>2 DEF Entry, IInv, TypeOK
<1> QED BY <1>1, <1>2, <1>3, <1>4 DEF Current

\* The effect a step of the worker on the current entry may have on the rows
\* and on the PEL.
Handled ==
  /\ UNCHANGED <<request, operation, pushes, log, dropped>>
  /\ content' \in [Contents -> ContentStatus]
  /\ job' \in [Jobs -> JobStatus]
  /\ \A j \in Jobs \ {Current.job} : job'[j] = job[j]
  /\ retained' \subseteq retained
  /\ pending' \in {pending, pending \ {Current}}
  /\ dlq' \subseteq dlq \cup {Current}
  /\ runs' \in [Entry -> 0..MaxDeliveries]
  /\ \A e \in Entry \ {Current} : runs'[e] = runs[e]
  /\ succeeded \subseteq succeeded' /\ succeeded' \subseteq succeeded \cup {Current}
  /\ runs'[Current] >= runs[Current]
  /\ Current \in succeeded' => runs'[Current] > 0
  /\ faults' \in [Faults -> Nat]
  /\ job'[Current.job] \in {"QUEUED", "PROCESSING"} => Current \in pending' \cup succeeded'

\* The worker goes on with the same entry, or lets go of it.
Kept ==
  /\ batch' = batch
  /\ worker' \in WorkerStep \ {"idle"}
  /\ worker' = "start" => runs'[Current] < MaxDeliveries
  /\ worker' # "start" => runs'[Current] > 0
  /\ worker' \in {"mark", "dlq", "ackDead", "delDead"} => runs'[Current] = MaxDeliveries
  /\ worker' \in {"ackDead", "delDead"} => Current \in dlq'
  /\ worker' \in {"ack", "del"} => Current \in succeeded'
  /\ worker' # "delDead" => Current \in pending' \cup succeeded'
  /\ worker' \in {"ack", "del", "dlq", "ackDead", "delDead"} =>
       job'[Current.job] \in {"none", "SUCCEEDED", "FAILED"}
Left ==
  /\ worker' = "idle"
  /\ batch' \in {Tail(batch), << >>}
  /\ worker = "start" => pending' = pending

\* Whatever the worker does with its entry, short of letting it go before an
\* outcome, keeps the invariant.
LEMMA HandledInv == ASSUME IInv, worker # "idle", Handled, Kept \/ Left PROVE IInv'
<1>1. /\ Current \in Entry /\ Current.job \in Jobs /\ batch # << >> /\ batch \in Seq(Entry)
      /\ Tail(batch) \in Seq(Entry)
      /\ ToSet(batch) = {Current} \cup ToSet(Tail(batch))
      /\ Current \notin ToSet(Tail(batch)) /\ NoDup(Tail(batch))
      /\ ToSet(Tail(batch)) \subseteq Entry
  BY CurrentFacts
<1>2. TypeOK /\ PushesInv /\ PushedInv /\ PlacesInv /\ RunsInv /\ HeldInv /\ UnfinishedJobIsCarried
  BY DEF IInv
<1>3. << >> \in Seq(Entry) /\ ToSet(<< >>) = {} /\ NoDup(<< >>)
  BY DEF ToSet, NoDup
<1>4. Waiting = ToSet(Tail(batch))
  BY DEF Waiting
<1>5. /\ Waiting' \subseteq ToSet(Tail(batch))
      /\ ToSet(batch') \subseteq ToSet(batch) /\ batch' \in Seq(Entry) /\ NoDup(batch')
      /\ worker' # "idle" => batch' = batch /\ Current' = Current
  <2>1. CASE Kept
    BY <1>1, <1>2, <2>1 DEF Kept, Waiting, PlacesInv, Current
  <2>2. CASE Left
    BY <1>1, <1>3, <2>2 DEF Left, Waiting
  <2> QED BY <2>1, <2>2
<1>6. TypeOK'
  BY <1>1, <1>2, <1>5 DEF TypeOK, Handled, Kept, Left, WorkerStep
<1>7. PushesInv'
  BY <1>2 DEF PushesInv, Handled
<1>8. Stream' = Stream
  BY DEF Stream, Handled
<1>9. PushedInv'
  <2> SUFFICES ASSUME NEW e \in Entry, e \in Stream' \cup ToSet(batch') \cup pending' \cup dropped \/ runs'[e] > 0
               PROVE  e.copy <= pushes[e.job]
    BY DEF PushedInv, Handled
  <2>1. CASE e = Current
    BY <1>1, <1>2, <2>1 DEF PushedInv
  <2>2. CASE e # Current
    BY <1>2, <1>5, <1>8, <2>2 DEF PushedInv, Handled
  <2> QED BY <2>1, <2>2
<1>10. PlacesInv'
  BY <1>2, <1>5, <1>8 DEF PlacesInv, Handled
<1>11. RunsInv'
  <2>1. \A e \in Stream' \cup Waiting' : e \in Entry /\ e # Current /\ runs[e] = 0
    <3>1. Stream \subseteq Entry
      BY <1>2, ElementOfSeq, LenProperties DEF Stream, ToSet, TypeOK
    <3> QED BY <1>1, <1>2, <1>4, <1>5, <1>8, <3>1 DEF PlacesInv, RunsInv
  <2>2. /\ worker' = "start" => (runs[Current] < MaxDeliveries)'
        /\ worker' \notin {"idle", "start"} => (runs[Current] > 0)'
        /\ worker' \in {"mark", "dlq", "ackDead", "delDead"} => (runs[Current] = MaxDeliveries)'
    BY <1>5 DEF Kept, Left
  <2>3. ASSUME NEW e \in succeeded' PROVE runs'[e] > 0
    <3>1. CASE e = Current
      BY <2>3, <3>1 DEF Handled
    <3>2. CASE e # Current
      <4>1. e \in succeeded /\ e \in Entry
        BY <1>2, <2>3, <3>2 DEF Handled, TypeOK
      <4> QED BY <1>2, <3>2, <4>1 DEF RunsInv, Handled
    <3> QED BY <3>1, <3>2
  <2>4. \A e \in Stream' \cup Waiting' : runs'[e] = 0
    BY <2>1 DEF Handled
  <2> QED BY <2>2, <2>3, <2>4 DEF RunsInv
<1>12. HeldInv'
  <2>1. Waiting' \subseteq pending'
    BY <1>1, <1>2, <1>4, <1>5 DEF HeldInv, Handled
  <2> QED BY <1>5, <2>1 DEF HeldInv, Kept, Left
<1>13. OverInv'
  BY <1>5 DEF OverInv, Over, Kept, Left
<1>14. UnfinishedJobIsCarried'
  <2> SUFFICES ASSUME NEW k \in Jobs, request[k] = "accepted", job'[k] \in {"QUEUED", "PROCESSING"}
               PROVE  \E x \in Stream \cup pending' \cup dropped \cup succeeded' : x.job = k
    BY <1>8 DEF UnfinishedJobIsCarried, Handled
  <2>1. CASE k = Current.job
    BY <2>1 DEF Handled
  <2>2. CASE k # Current.job
    <3>1. PICK x \in Stream \cup pending \cup dropped \cup succeeded : x.job = k
      BY <1>2, <2>2 DEF UnfinishedJobIsCarried, Handled
    <3> QED BY <2>2, <3>1 DEF Handled
  <2> QED BY <2>1, <2>2
<1> QED BY <1>6, <1>7, <1>9, <1>10, <1>11, <1>12, <1>13, <1>14 DEF IInv

\* Reading a batch moves entries from the stream to the PEL and to the worker.
LEMMA ReadBatchInv == ASSUME IInv, ReadBatch PROVE IInv'
<1> DEFINE n == Lesser(BatchSize, Len(log))
           a == SubSeq(log, 1, n)
           b == SubSeq(log, n + 1, Len(log))
<1>1. TypeOK /\ PushesInv /\ PushedInv /\ PlacesInv /\ RunsInv
  BY DEF IInv
<1>2. /\ worker = "idle" /\ batch = << >> /\ worker' = worker
      /\ log' = b /\ retained' = retained \cup ToSet(a) /\ pending' = pending \cup ToSet(a)
      /\ batch' \in {a, << >>}
      /\ UNCHANGED <<content, job, request, operation, pushes, dropped, dlq, runs, succeeded>>
      /\ faults' = faults \/ (\E kind \in Faults : faults' = [faults EXCEPT ![kind] = @ + 1])
  BY DEF ReadBatch, rows, apiVars, Fault
<1>3. log \in Seq(Entry) /\ Len(log) \in Nat /\ n \in 0..Len(log)
  BY <1>1, LenProperties, IngestionAssumption DEF TypeOK, Lesser
<1>4. /\ a \in Seq(Entry) /\ b \in Seq(Entry)
      /\ ToSet(log) = ToSet(a) \cup ToSet(b)
      /\ NoDup(a) /\ NoDup(b) /\ ToSet(a) \cap ToSet(b) = {}
  <2> HIDE DEF n
  <2> QED BY <1>1, <1>3, SplitFacts DEF PlacesInv
<1> HIDE DEF n, a, b
<1>5. ToSet(a) \subseteq Entry /\ ToSet(log) \subseteq Entry
  BY <1>3, <1>4, ElementOfSeq, LenProperties DEF ToSet
<1>6. ToSet(<< >>) = {} /\ NoDup(<< >>) /\ << >> \in Seq(Entry)
  BY DEF ToSet, NoDup
<1>7. TypeOK'
  <2>1. faults' \in [Faults -> Nat]
    BY <1>1, <1>2, IngestionAssumption DEF TypeOK
  <2>2. batch' \in Seq(Entry) /\ log' \in Seq(Entry) /\ worker' = "idle"
    BY <1>2, <1>4, <1>6
  <2>3. retained' \subseteq Entry /\ pending' \subseteq Entry
    BY <1>1, <1>2, <1>4, <1>5 DEF TypeOK
  <2> QED BY <1>1, <1>2, <2>1, <2>2, <2>3 DEF TypeOK, WorkerStep
<1>8. /\ Stream = ToSet(a) \cup ToSet(b) /\ Stream' = ToSet(b)
      /\ ToSet(batch') \subseteq ToSet(a) /\ Waiting' = ToSet(batch')
  BY <1>2, <1>4, <1>6 DEF Stream, Waiting
<1>9. PushesInv'
  BY <1>1, <1>2 DEF PushesInv
<1>10. PushedInv'
  BY <1>1, <1>2, <1>8 DEF PushedInv
<1>11. PlacesInv'
  BY <1>1, <1>2, <1>4, <1>6, <1>8 DEF PlacesInv
<1>12. RunsInv'
  BY <1>1, <1>2, <1>8 DEF RunsInv
<1>13. HeldInv' /\ OverInv'
  BY <1>2, <1>8 DEF HeldInv, OverInv
<1>14. UnfinishedJobIsCarried'
  BY <1>2, <1>8 DEF IInv, UnfinishedJobIsCarried
<1> QED BY <1>7, <1>9, <1>10, <1>11, <1>12, <1>13, <1>14 DEF IInv

\* Taking the next entry of the batch starts its first run.
LEMMA TakeEntryInv == ASSUME IInv, TakeEntry PROVE IInv'
<1>1. TypeOK /\ PushesInv /\ PushedInv /\ PlacesInv /\ RunsInv /\ HeldInv
  BY DEF IInv
<1>2. /\ worker = "idle" /\ batch # << >> /\ worker' = "start"
      /\ UNCHANGED <<content, job, request, operation, pushes, log, retained, pending, dropped,
                     dlq, batch, runs, succeeded, faults>>
  BY DEF TakeEntry, rows, apiVars, streamVars
<1>3. ToSet(batch) = {Head(batch)} \cup ToSet(Tail(batch))
  BY <1>1, <1>2, TailFacts DEF TypeOK
<1>4. Stream' = Stream /\ Current' = Head(batch) /\ Waiting = ToSet(batch)
      /\ Waiting' = ToSet(Tail(batch))
  BY <1>2 DEF Stream, Current, Waiting
<1>5. TypeOK'
  BY <1>1, <1>2 DEF TypeOK, WorkerStep
<1>6. PushesInv' /\ PushedInv' /\ PlacesInv'
  BY <1>1, <1>2, <1>4 DEF PushesInv, PushedInv, PlacesInv
<1>7. RunsInv'
  BY <1>1, <1>2, <1>3, <1>4, IngestionAssumption DEF RunsInv
<1>8. HeldInv' /\ OverInv'
  BY <1>1, <1>2, <1>3, <1>4 DEF HeldInv, OverInv
<1>9. UnfinishedJobIsCarried'
  BY <1>2, <1>4 DEF IInv, UnfinishedJobIsCarried
<1> QED BY <1>5, <1>6, <1>7, <1>8, <1>9 DEF IInv

\* The steps on the current entry are all of the kind HandledInv covers.
LEMMA EntryStep ==
  ASSUME IInv,
         \/ StartRun \/ Work \/ FinishRun \/ Ack \/ Delete
         \/ MarkFailed \/ AddToDlq \/ AckDead \/ DeleteDead
  PROVE  worker # "idle" /\ Handled /\ (Kept \/ Left)
<1>1. worker # "idle"
  BY DEF StartRun, Work, FinishRun, Ack, Delete, MarkFailed, AddToDlq, AckDead, DeleteDead
<1>2. TypeOK /\ RunsInv /\ HeldInv /\ OverInv
  BY DEF IInv
<1>3. /\ Current \in Entry /\ Current.job \in Jobs /\ ContentOf[Current.job] \in Contents
      /\ runs[Current] \in 0..MaxDeliveries
  BY <1>1, CurrentFacts, IngestionAssumption
<1>4. faults \in [Faults -> Nat] /\ MaxFaults \in Nat /\ MaxDeliveries \in Nat \ {0}
  BY <1>2, IngestionAssumption DEF TypeOK
<1>14. /\ Current \in succeeded => runs[Current] > 0
       /\ worker = "start" => runs[Current] < MaxDeliveries
       /\ worker # "start" => runs[Current] > 0
       /\ worker \in {"mark", "dlq", "ackDead", "delDead"} => runs[Current] = MaxDeliveries
       /\ worker \in {"ackDead", "delDead"} => Current \in dlq
  BY <1>1, <1>2 DEF RunsInv, HeldInv
<1>15. ASSUME NEW made \in 0..MaxDeliveries, RunThrows(made)
       PROVE  \/ worker' = "start" /\ made < MaxDeliveries
              \/ worker' = "mark" /\ made = MaxDeliveries
  <2>1. CASE made < MaxDeliveries
    BY <1>15, <2>1 DEF RunThrows
  <2>2. CASE made = MaxDeliveries
    BY <1>4, <1>15, <2>2 DEF RunThrows
  <2> QED BY <1>4, <2>1, <2>2
<1>16. \A kind : Fault(kind) => faults' \in [Faults -> Nat]
  BY <1>2, FaultCounted
<1> USE <1>1, <1>2, <1>3, <1>4, <1>14, <1>15, <1>16 DEF TypeOK, HeldInv, apiVars, streamVars, rows
<1>5. CASE StartRun
  <2>1. /\ job' \in [Jobs -> JobStatus]
        /\ \A j \in Jobs \ {Current.job} : job'[j] = job[j]
    BY <1>5 DEF StartRun, SetJob, JobStatus
  <2>2. /\ runs' = [runs EXCEPT ![Current] = @ + 1]
        /\ runs[Current] < MaxDeliveries
    BY <1>5 DEF StartRun
  <2>3. /\ runs' \in [Entry -> 0..MaxDeliveries]
        /\ runs'[Current] = runs[Current] + 1
        /\ \A e \in Entry \ {Current} : runs'[e] = runs[e]
    BY <2>2
  <2>4. faults' \in [Faults -> Nat]
    BY <1>5 DEF StartRun
  <2>5. /\ succeeded \subseteq succeeded' /\ succeeded' \subseteq succeeded \cup {Current}
        /\ UNCHANGED <<content, request, operation, pushes, log, retained, pending, dropped, dlq, batch>>
        /\ Current \in pending \cup succeeded
    BY <1>5 DEF StartRun
  <2>6. Kept
    BY <1>5, <2>3, <2>5 DEF StartRun, Kept, WorkerStep
  <2> QED BY <2>1, <2>3, <2>4, <2>5, <2>6 DEF Handled
<1>6. CASE Work
  <2>1. content' \in [Contents -> ContentStatus]
    BY <1>6 DEF Work, SetContent, ContentStatus
  <2>2. faults' \in [Faults -> Nat]
    BY <1>6 DEF Work
  <2>3. /\ UNCHANGED <<job, request, operation, pushes, log, retained, pending, dropped, dlq, batch,
                       runs, succeeded>>
        /\ Current \in pending \cup succeeded
    BY <1>6 DEF Work
  <2>4. Kept
    BY <1>6, <2>3 DEF Work, Kept, WorkerStep
  <2> QED BY <2>1, <2>2, <2>3, <2>4 DEF Handled
<1>7. CASE FinishRun
  <2>1. /\ job' \in [Jobs -> JobStatus]
        /\ \A j \in Jobs \ {Current.job} : job'[j] = job[j]
    BY <1>7 DEF FinishRun, SetJob, JobStatus
  <2>2. faults' \in [Faults -> Nat]
    BY <1>7 DEF FinishRun
  <2>3. /\ UNCHANGED <<content, request, operation, pushes, log, retained, pending, dropped, dlq, batch,
                       runs>>
        /\ succeeded \subseteq succeeded' /\ succeeded' \subseteq succeeded \cup {Current}
        /\ Current \in pending \cup succeeded
    BY <1>7 DEF FinishRun
  <2>4. Kept
    BY <1>7, <2>1, <2>3 DEF FinishRun, Kept, SetJob, WorkerStep, JobStatus
  <2>5. runs[Current] > 0
    BY <1>7 DEF FinishRun
  <2> QED BY <2>1, <2>2, <2>3, <2>4, <2>5 DEF Handled
<1>8. CASE Ack
  BY <1>8 DEF Ack, XAck, Handled, Kept, OverInv, Over, WorkerStep
<1>9. CASE Delete
  BY <1>9 DEF Delete, XDel, NextEntry, Handled, Kept, Left, OverInv, Over, WorkerStep
<1>10. CASE MarkFailed
  <2>1. /\ content' \in [Contents -> ContentStatus]
        /\ job' \in [Jobs -> JobStatus]
        /\ \A j \in Jobs \ {Current.job} : job'[j] = job[j]
    BY <1>10 DEF MarkFailed, FailRows, SetContent, SetJob, ContentStatus, JobStatus
  <2>2. faults' \in [Faults -> Nat]
    BY <1>10 DEF MarkFailed
  <2>3. /\ UNCHANGED <<request, operation, pushes, log, retained, pending, dropped, dlq, runs, succeeded>>
        /\ Current \in pending \cup succeeded
    BY <1>10 DEF MarkFailed
  <2>4. Kept \/ Left
    BY <1>10, <2>3 DEF MarkFailed, FailRows, SetJob, Abandon, Kept, Left, WorkerStep
  <2> QED BY <2>1, <2>2, <2>3, <2>4 DEF Handled
<1>11. CASE AddToDlq
  BY <1>11 DEF AddToDlq, Abandon, Handled, Kept, Left, OverInv, Over, WorkerStep
<1>12. CASE AckDead
  BY <1>12 DEF AckDead, XAck, Abandon, Handled, Kept, Left, OverInv, Over, WorkerStep
<1>13. CASE DeleteDead
  BY <1>13 DEF DeleteDead, XDel, NextEntry, Abandon, Handled, Left, OverInv, Over
<1> QED BY <1>5, <1>6, <1>7, <1>8, <1>9, <1>10, <1>11, <1>12, <1>13

\* A crash forgets the batch; its entries stay in the PEL.
LEMMA CrashInv == ASSUME IInv, WorkerCrash PROVE IInv'
<1>1. /\ worker' = "idle" /\ batch' = << >> /\ \E kind \in Faults : faults' = [faults EXCEPT ![kind] = @ + 1]
      /\ UNCHANGED <<content, job, request, operation, pushes, log, retained, pending, dropped,
                     dlq, runs, succeeded>>
  BY DEF WorkerCrash, Abandon, Fault, rows, apiVars, streamVars
<1>2. ToSet(<< >>) = {} /\ NoDup(<< >>) /\ << >> \in Seq(Entry)
  BY DEF ToSet, NoDup
<1>3. TypeOK'
  BY <1>1, <1>2, IngestionAssumption DEF IInv, TypeOK, WorkerStep
<1>4. Stream' = Stream /\ Waiting' = {}
  BY <1>1, <1>2 DEF Stream, Waiting
<1>5. PushesInv' /\ PushedInv' /\ PlacesInv' /\ RunsInv' /\ HeldInv' /\ OverInv'
  BY <1>1, <1>2, <1>4 DEF IInv, PushesInv, PushedInv, PlacesInv, RunsInv, HeldInv, OverInv
<1>6. UnfinishedJobIsCarried'
  BY <1>1, <1>4 DEF IInv, UnfinishedJobIsCarried
<1> QED BY <1>3, <1>5, <1>6 DEF IInv

\* Every step keeps the invariant.
LEMMA StepInv == IInv /\ [Next]_vars => IInv'
<1> SUFFICES ASSUME IInv, [Next]_vars PROVE IInv'
  OBVIOUS
<1>1. CASE \E j \in Jobs : Request(j)
  BY <1>1, RequestStepInv, PushInv DEF Request
<1>2. CASE \E c \in Contents : DeleteContent(c)
  BY <1>2, DeleteContentInv
<1>3. CASE Worker
  <2>1. CASE ReadBatch
    BY <2>1, ReadBatchInv
  <2>2. CASE TakeEntry
    BY <2>2, TakeEntryInv
  <2>3. CASE WorkerCrash
    BY <2>3, CrashInv
  <2>4. CASE \/ StartRun \/ Work \/ FinishRun \/ Ack \/ Delete
             \/ MarkFailed \/ AddToDlq \/ AckDead \/ DeleteDead
    BY <2>4, EntryStep, HandledInv
  <2> QED BY <1>3, <2>1, <2>2, <2>3, <2>4 DEF Worker
<1>4. CASE UNCHANGED vars
  BY <1>4 DEF vars, rows, apiVars, streamVars, workerVars, IInv, TypeOK, PushesInv, PushedInv,
     PlacesInv, RunsInv, HeldInv, OverInv, Over, Waiting, Stream, Current, UnfinishedJobIsCarried
<1> QED BY <1>1, <1>2, <1>3, <1>4 DEF Next

(***************************************************************************)
(* The theorems.                                                           *)
(***************************************************************************)

\* The invariant holds in every reachable state.
THEOREM Invariance == Spec => []IInv
  BY InitInv, StepInv, PTL DEF Spec

\* Rows, stream and worker stay in the states the code knows; in particular no
\* request enqueues more than MaxEnqueueAttempts times and no entry is run more
\* than MaxDeliveries times.
THEOREM TypeCorrect == Spec => []TypeOK
<1>1. IInv => TypeOK
  BY DEF IInv
<1> QED BY <1>1, Invariance, PTL

\* An accepted job that has not ended is in the stream, in the PEL, was trimmed
\* by MAXLEN, or had a good run, whatever fails (upload, replace, worker).
THEOREM Carried == Spec => []UnfinishedJobIsCarried
<1>1. IInv => UnfinishedJobIsCarried
  BY DEF IInv
<1> QED BY <1>1, Invariance, PTL

\* The worker never acknowledges an entry before its job is over.
THEOREM AcknowledgedLate == Spec => AckAfterOutcome
<1>1. ASSUME IInv, [Next]_vars
      PROVE  [\A e \in pending \ pending' : job[e.job] \in {"none", "SUCCEEDED", "FAILED"}]_vars
  <2> SUFFICES ASSUME NEW e \in pending \ pending'
               PROVE  job[e.job] \in {"none", "SUCCEEDED", "FAILED"}
    OBVIOUS
  <2>1. worker \in {"ack", "ackDead"} /\ e = Current
    BY <1>1 DEF Next, vars, Request, Worker, BeginUpload, StoreUpload, BeginReplace, StoreReplacement,
       ReplaceRow, CreateJob, Push, UndoContent, UndoJob, ApiCrash, DeleteContent, ReadBatch,
       TakeEntry, StartRun, Work, FinishRun, Ack, Delete, MarkFailed, AddToDlq, AckDead, DeleteDead,
       WorkerCrash, XAck, streamVars
  <2> QED BY <1>1, <2>1 DEF IInv, OverInv, Over
<1> QED BY <1>1, Invariance, PTL DEF Spec, AckAfterOutcome

(***************************************************************************)
(* IngestionQueue implements JobDelivery.                                  *)
(***************************************************************************)

Held(e) == e \in pending \/ Running(e)

\* The places exclude each other, so the state of an entry can be read off.
StatesRead ==
  /\ DeliveryState \in [Entry -> Delivery!States]
  /\ \A e \in Entry :
       /\ e \in dropped => DeliveryState[e] = "dropped"
       /\ e \in Stream => DeliveryState[e] = "queued"
       /\ Held(e) => DeliveryState[e] = "handed"
       /\ (e \notin dropped \cup Stream /\ ~Held(e)) =>
            DeliveryState[e] = IF runs[e] > 0 THEN "closed" ELSE "absent"

\* The state JobDelivery gives an entry can be read off where the entry is.
LEMMA StateFacts == IInv => StatesRead
<1> SUFFICES ASSUME IInv PROVE StatesRead
  OBVIOUS
<1>1. DeliveryState \in [Entry -> Delivery!States]
  BY DEF DeliveryState, Delivery!States
<1>2. ASSUME NEW e \in Entry, Held(e) PROVE e \notin dropped /\ e \notin Stream
  <2>1. CASE e \in pending
    BY <2>1 DEF IInv, PlacesInv
  <2>2. CASE Running(e)
    <3>1. e \in ToSet(batch)
      BY <2>2, CurrentFacts DEF Running
    <3> QED BY <3>1 DEF IInv, PlacesInv
  <2> QED BY <1>2, <2>1, <2>2 DEF Held
<1>3. \A e \in Entry : e \in Stream => e \notin dropped
  BY DEF IInv, PlacesInv
<1>4. \A e \in Entry :
        DeliveryState[e] = IF e \in dropped THEN "dropped"
                           ELSE IF e \in Stream THEN "queued"
                           ELSE IF Held(e) THEN "handed"
                           ELSE IF runs[e] > 0 THEN "closed" ELSE "absent"
  BY <1>2, <1>3 DEF DeliveryState, Held
<1> QED BY <1>1, <1>2, <1>3, <1>4 DEF StatesRead

\* The same after a step.
LEMMA StateFactsNext == IInv' => StatesRead'
<1>1. IInv => StatesRead
  BY StateFacts
<1> QED BY <1>1, StateFacts, PTL

\* Nothing an entry's state depends on changed.
LEMMA SameStates ==
  ASSUME StatesRead, StatesRead', UNCHANGED <<dropped, Stream, runs>>,
         \A e \in Entry : Held(e)' <=> Held(e)
  PROVE  DeliveryState' = DeliveryState
<1>1. \A e \in Entry : DeliveryState'[e] = DeliveryState[e]
  BY DEF StatesRead
<1> QED BY <1>1 DEF StatesRead

\* A worker that goes on with its entry holds what it held; one that lets go
\* of it holds what it held but perhaps that entry.
LEMMA HeldFacts ==
  ASSUME IInv, worker # "idle", Handled, Kept \/ Left, NEW x \in Entry, x = Current
  PROVE  /\ UNCHANGED <<dropped, Stream>> /\ Held(x)
         /\ \A e \in Entry \ {x} : Held(e)' <=> Held(e)
         /\ Kept => Held(x)'
         /\ Left => (Held(x)' <=> x \in pending')
<1>1. UNCHANGED <<dropped, Stream>> /\ Held(x)
  BY DEF Handled, Stream, Held, Running
<1>2. \A e \in Entry \ {x} : (e \in pending' <=> e \in pending) /\ ~Running(e)
  BY DEF Handled, Running
<1>3. CASE Kept
  <2>1. \A e \in Entry : Running(e)' <=> e = x
    BY <1>3 DEF Running, Kept, Current
  <2>2. ~Left
    BY <1>3 DEF Kept, Left
  <2> QED BY <1>1, <1>2, <2>1, <2>2 DEF Held
<1>4. CASE Left
  <2>1. \A e \in Entry : ~Running(e)'
    BY <1>4 DEF Running, Left
  <2>2. ~Kept
    BY <1>4 DEF Kept, Left
  <2> QED BY <1>1, <1>2, <2>1, <2>2 DEF Held
<1> QED BY <1>3, <1>4

\* What a step on the current entry does to its state.
LEMMA EntryStates ==
  ASSUME IInv, IInv', worker # "idle", Handled, Kept \/ Left, NEW x \in Entry, x = Current
  PROVE  /\ DeliveryState[x] = "handed"
         /\ \/ DeliveryState' = DeliveryState
            \/ /\ DeliveryState' = [DeliveryState EXCEPT ![x] = "closed"]
               /\ Left /\ x \notin pending'
<1>1. StatesRead /\ StatesRead'
  BY StateFacts, StateFactsNext
<1>2. /\ UNCHANGED <<dropped, Stream>> /\ Held(x)
      /\ \A e \in Entry \ {x} : Held(e)' <=> Held(e)
      /\ Kept => Held(x)'
      /\ Left => (Held(x)' <=> x \in pending')
  BY HeldFacts
<1>3. ASSUME NEW e \in Entry \ {x} PROVE DeliveryState'[e] = DeliveryState[e]
  <2>1. runs'[e] = runs[e] /\ (Held(e)' <=> Held(e)) /\ dropped' = dropped /\ Stream' = Stream
    BY <1>2 DEF Handled
  <2> QED BY <1>1, <2>1 DEF StatesRead
<1>4. DeliveryState[x] = "handed" /\ x \notin dropped \cup Stream
  BY <1>1, <1>2 DEF StatesRead
<1>5. CASE Held(x)'
  <2>1. DeliveryState'[x] = "handed"
    BY <1>1, <1>5 DEF StatesRead
  <2>2. \A e \in Entry : DeliveryState'[e] = DeliveryState[e]
    BY <1>3, <1>4, <2>1
  <2>3. DeliveryState' = DeliveryState
    BY <1>1, <2>2 DEF StatesRead
  <2> QED BY <1>4, <2>3
<1>6. CASE ~Held(x)'
  <2>1. Left /\ x \notin pending'
    BY <1>2, <1>6
  <2>2. x \notin dropped' \cup Stream'
    BY <1>2, <1>4
  <2>3. runs'[x] > 0
    <3>1. runs[x] \in 0..MaxDeliveries /\ runs'[x] \in 0..MaxDeliveries /\ runs'[x] >= runs[x]
      BY CurrentFacts DEF Handled
    <3>2. CASE worker = "start"
      <4>1. x \in succeeded \/ x \in pending
        BY <3>2 DEF IInv, HeldInv
      <4>2. x \in succeeded'
        BY <2>1, <3>2, <4>1 DEF Handled, Left
      <4> QED BY <4>2 DEF Handled
    <3>3. CASE worker # "start"
      BY <3>1, <3>3 DEF IInv, RunsInv
    <3> QED BY <3>2, <3>3
  <2>4. DeliveryState'[x] = "closed"
    BY <1>1, <1>6, <2>2, <2>3 DEF StatesRead
  <2>5. DeliveryState' = [DeliveryState EXCEPT ![x] = "closed"]
    BY <1>1, <1>3, <2>4 DEF StatesRead
  <2> QED BY <1>4, <2>1, <2>5
<1> QED BY <1>5, <1>6

\* The abstract variables after a step.
LEMMA PushMaps ==
  ASSUME IInv, IInv', NEW j \in Jobs, Push(j)
  PROVE  [Delivery!Next]_(Delivery!vars)
<1> DEFINE e == [job |-> j, copy |-> pushes[j] + 1]
<1>1. TypeOK /\ PushesInv /\ PushedInv /\ PlacesInv /\ StatesRead /\ StatesRead'
  BY StateFacts, StateFactsNext DEF IInv
<1>2. request[j] = "push" /\ UNCHANGED <<pending, dlq, worker, batch, runs, succeeded>>
  BY DEF Push, workerVars
<1>3. pushes[j] \in Nat /\ pushes[j] + 1 \in 1..MaxEnqueueAttempts
  BY <1>1, <1>2, IngestionAssumption DEF TypeOK, PushesInv
<1>4. e \in Entry /\ e.job = j /\ e.copy = pushes[j] + 1
  BY <1>3 DEF Entry
<1>5. XAdd(e) \/ UNCHANGED <<log, retained, dropped>>
  BY DEF Push
<1> HIDE DEF e
<1>6. e \notin Stream \cup ToSet(batch) \cup pending \cup dropped /\ ~(runs[e] > 0)
  <2>1. ~(e.copy <= pushes[e.job])
    BY <1>3, <1>4
  <2> QED BY <1>1, <1>4, <2>1 DEF PushedInv
<1>7. \A x \in Entry : Held(x)' <=> Held(x)
  BY <1>2 DEF Held, Running, Current
<1>8. CASE UNCHANGED <<log, retained, dropped>>
  <2>1. DeliveryState' = DeliveryState
    BY <1>1, <1>2, <1>7, <1>8, SameStates DEF Stream
  <2> QED BY <1>2, <2>1 DEF Delivery!vars
<1>9. CASE XAdd(e)
  <2> DEFINE overflow == Stream \ Stream'
  <2>1. /\ e \in Stream' /\ Stream' \subseteq Stream \cup {e}
        /\ Stream \subseteq Stream' \cup dropped' /\ dropped \subseteq dropped'
        /\ dropped' \subseteq dropped \cup Stream /\ Stream' \cap dropped' = {}
    BY <1>1, <1>4, <1>6, <1>9, XAddFacts
  <2>2. Stream \subseteq Entry
    BY <1>1, ElementOfSeq, LenProperties DEF Stream, ToSet, TypeOK
  <2>3. DeliveryState[e] = "absent"
    <3>1. ~Held(e)
      <4>1. CASE worker = "idle"
        BY <1>6, <4>1 DEF Held, Running
      <4>2. CASE worker # "idle"
        BY <1>6, <4>2, CurrentFacts DEF Held, Running
      <4> QED BY <4>1, <4>2
    <3> QED BY <1>1, <1>4, <1>6, <3>1 DEF StatesRead
  <2>4. \A o \in overflow : DeliveryState[o] = "queued"
    BY <1>1, <2>2 DEF StatesRead
  <2>5. ASSUME NEW o \in Entry
        PROVE  DeliveryState'[o] = IF o \in overflow THEN "dropped"
                                   ELSE IF o = e THEN "queued" ELSE DeliveryState[o]
    <3>1. CASE o \in overflow
      BY <1>1, <2>1, <3>1 DEF StatesRead
    <3>2. CASE o \notin overflow /\ o = e
      BY <1>1, <2>1, <3>2 DEF StatesRead
    <3>3. CASE o \notin overflow /\ o # e
      <4>1. (o \in dropped' <=> o \in dropped) /\ (o \in Stream' <=> o \in Stream)
        BY <1>1, <2>1, <3>3 DEF PlacesInv
      <4>2. (Held(o)' <=> Held(o)) /\ runs'[o] = runs[o]
        BY <1>2, <1>7
      <4>3. DeliveryState'[o] = DeliveryState[o]
        BY <1>1, <4>1, <4>2 DEF StatesRead
      <4> QED BY <3>3, <4>3
    <3> QED BY <3>1, <3>2, <3>3
  <2>6. overflow \subseteq Entry
    BY <2>2
  <2>7. DeliveryState' = [o \in Entry |-> IF o \in overflow THEN "dropped"
                                          ELSE IF o = e THEN "queued" ELSE DeliveryState[o]]
    BY <1>1, <2>5 DEF StatesRead
  <2> HIDE DEF overflow
  <2>8. Delivery!Push(e, overflow)
    BY <1>2, <2>3, <2>4, <2>7 DEF Delivery!Push
  <2> QED BY <1>4, <2>6, <2>8 DEF Delivery!Next
<1> QED BY <1>5, <1>8, <1>9

\* Reading a batch hands its entries to the worker.
LEMMA ReadMaps ==
  ASSUME IInv, IInv', ReadBatch
  PROVE  [Delivery!Next]_(Delivery!vars)
<1> DEFINE n == Lesser(BatchSize, Len(log))
           a == SubSeq(log, 1, n)
           b == SubSeq(log, n + 1, Len(log))
<1>1. TypeOK /\ PlacesInv /\ StatesRead /\ StatesRead'
  BY StateFacts, StateFactsNext DEF IInv
<1>2. /\ worker = "idle" /\ worker' = worker /\ log' = b /\ pending' = pending \cup ToSet(a)
      /\ UNCHANGED <<dropped, dlq, runs, succeeded>>
  BY DEF ReadBatch
<1>3. log \in Seq(Entry) /\ Len(log) \in Nat /\ n \in 0..Len(log)
  BY <1>1, LenProperties, IngestionAssumption DEF TypeOK, Lesser
<1>4. /\ ToSet(log) = ToSet(a) \cup ToSet(b)
      /\ ToSet(a) \cap ToSet(b) = {}
  <2> HIDE DEF n
  <2> QED BY <1>1, <1>3, SplitFacts DEF PlacesInv
<1> HIDE DEF n, a, b
<1>5. ToSet(log) \subseteq Entry
  BY <1>3, ElementOfSeq, LenProperties DEF ToSet
<1>6. \A e \in ToSet(a) : DeliveryState[e] = "queued"
  BY <1>1, <1>4, <1>5 DEF StatesRead, Stream
<1>7. ASSUME NEW e \in Entry
      PROVE  DeliveryState'[e] = IF e \in ToSet(a) THEN "handed" ELSE DeliveryState[e]
  <2>1. (Held(e)' <=> (Held(e) \/ e \in ToSet(a)))
    BY <1>2 DEF Held, Running
  <2>2. CASE e \in ToSet(a)
    BY <1>1, <2>1, <2>2 DEF StatesRead
  <2>3. CASE e \notin ToSet(a)
    <3>1. (e \in Stream' <=> e \in Stream) /\ dropped' = dropped /\ runs' = runs
      BY <1>2, <1>4, <2>3 DEF Stream
    <3>2. DeliveryState'[e] = DeliveryState[e]
      BY <1>1, <2>1, <2>3, <3>1 DEF StatesRead
    <3> QED BY <2>3, <3>2
  <2> QED BY <2>2, <2>3
<1>8. DeliveryState' = [e \in Entry |-> IF e \in ToSet(a) THEN "handed" ELSE DeliveryState[e]]
  BY <1>1, <1>7 DEF StatesRead
<1>9. Delivery!Hand(ToSet(a))
  BY <1>2, <1>6, <1>8 DEF Delivery!Hand
<1> QED BY <1>4, <1>5, <1>9 DEF Delivery!Next

\* A step on the current entry is a run, a good end of a run, a dead letter, or
\* a closing; a crash closes what was acknowledged.
LEMMA EntryMaps ==
  ASSUME IInv, IInv',
         \/ StartRun \/ Work \/ FinishRun \/ Ack \/ Delete
         \/ MarkFailed \/ AddToDlq \/ AckDead \/ DeleteDead
  PROVE  [Delivery!Next]_(Delivery!vars)
<1>1. worker # "idle" /\ Handled /\ (Kept \/ Left)
  BY EntryStep
<1>2. PICK x \in Entry : x = Current
  BY <1>1, CurrentFacts
<1>3. /\ DeliveryState[x] = "handed"
      /\ \/ DeliveryState' = DeliveryState
         \/ /\ DeliveryState' = [DeliveryState EXCEPT ![x] = "closed"]
            /\ Left /\ x \notin pending'
  BY <1>1, <1>2, EntryStates
<1>4. /\ worker \notin {"start"} => runs[x] > 0
      /\ worker = "start" => runs[x] < MaxDeliveries
      /\ worker \in {"mark", "dlq", "ackDead", "delDead"} => runs[x] = MaxDeliveries
      /\ worker \in {"ackDead", "delDead"} => x \in dlq
      /\ worker \in {"ack", "del"} => x \in succeeded
      /\ worker # "delDead" => x \in pending \cup succeeded
  BY <1>1, <1>2 DEF IInv, RunsInv, HeldInv
<1>5. \A made : RunThrows(made) => worker' # "idle"
  BY DEF RunThrows
<1>6. CASE StartRun
  <2>1. /\ runs' = [runs EXCEPT ![x] = @ + 1] /\ dlq' = dlq
        /\ succeeded' \in {succeeded, succeeded \cup {x}} /\ worker' # "idle" /\ worker = "start"
    BY <1>2, <1>5, <1>6 DEF StartRun, streamVars
  <2>2. DeliveryState' = DeliveryState
    BY <1>3, <2>1 DEF Left
  <2>3. \E good \in SUBSET Entry : good \subseteq {x} /\ succeeded' = succeeded \cup good
    <3>1. CASE succeeded' = succeeded
      <4>1. {} \in SUBSET Entry /\ {} \subseteq {x} /\ succeeded' = succeeded \cup {}
        BY <3>1
      <4> QED BY <4>1
    <3>2. CASE succeeded' = succeeded \cup {x}
      <4>1. {x} \in SUBSET Entry /\ {x} \subseteq {x}
        OBVIOUS
      <4> QED BY <3>2, <4>1
    <3> QED BY <2>1, <3>1, <3>2
  <2>4. \E good \in SUBSET Entry : good \subseteq {x} /\ Delivery!Run(x, good)
    BY <1>3, <1>4, <2>1, <2>2, <2>3 DEF Delivery!Run
  <2> QED BY <2>4 DEF Delivery!Next
<1>7. CASE FinishRun
  <2>1. /\ UNCHANGED <<runs, dlq>> /\ worker' # "idle" /\ worker = "finish"
        /\ succeeded' \in {succeeded, succeeded \cup {x}}
    BY <1>2, <1>5, <1>7 DEF FinishRun, streamVars
  <2>2. DeliveryState' = DeliveryState
    BY <1>3, <2>1 DEF Left
  <2>3. CASE succeeded' = succeeded
    BY <2>1, <2>2, <2>3 DEF Delivery!vars
  <2>4. CASE succeeded' = succeeded \cup {x}
    <3>1. Delivery!Succeed(x)
      BY <1>3, <1>4, <2>1, <2>2, <2>4 DEF Delivery!Succeed
    <3> QED BY <3>1 DEF Delivery!Next
  <2> QED BY <2>1, <2>3, <2>4
<1>8. CASE AddToDlq
  <2>1. UNCHANGED <<runs, succeeded, pending>> /\ worker = "dlq" /\ dlq' \in {dlq, dlq \cup {x}}
    BY <1>2, <1>8 DEF AddToDlq
  <2>2. CASE dlq' = dlq \cup {x}
    <3>1. Delivery!DeadLetter(x)
      BY <1>3, <1>4, <2>1, <2>2 DEF Delivery!DeadLetter
    <3> QED BY <3>1 DEF Delivery!Next
  <2>3. CASE dlq' = dlq
    <3>1. CASE DeliveryState' = DeliveryState
      BY <2>1, <2>3, <3>1 DEF Delivery!vars
    <3>2. CASE DeliveryState' = [DeliveryState EXCEPT ![x] = "closed"] /\ x \notin pending'
      <4>1. Delivery!Close(x)
        BY <1>3, <1>4, <2>1, <2>3, <3>2 DEF Delivery!Close
      <4> QED BY <4>1 DEF Delivery!Next
    <3> QED BY <1>3, <3>1, <3>2
  <2> QED BY <2>1, <2>2, <2>3
<1>9. CASE Work \/ Ack \/ Delete \/ MarkFailed \/ AckDead \/ DeleteDead
  <2>1. UNCHANGED <<runs, succeeded, dlq>>
    BY <1>9 DEF Work, Ack, Delete, MarkFailed, AckDead, DeleteDead, streamVars
  <2>2. Left /\ x \notin pending' => x \in succeeded \/ x \in dlq
    BY <1>4, <1>5, <1>9 DEF Work, Ack, Delete, MarkFailed, AckDead, DeleteDead, Left, streamVars
  <2>3. CASE DeliveryState' = DeliveryState
    BY <2>1, <2>3 DEF Delivery!vars
  <2>4. CASE DeliveryState' = [DeliveryState EXCEPT ![x] = "closed"] /\ Left /\ x \notin pending'
    <3>1. Delivery!Close(x)
      BY <1>3, <2>1, <2>2, <2>4 DEF Delivery!Close
    <3> QED BY <3>1 DEF Delivery!Next
  <2> QED BY <1>3, <2>3, <2>4
<1> QED BY <1>6, <1>7, <1>8, <1>9

\* A crash of the worker maps to a closing of what was already over, or to nothing.
LEMMA CrashMaps ==
  ASSUME IInv, IInv', WorkerCrash
  PROVE  [Delivery!Next]_(Delivery!vars)
<1>1. /\ worker' = "idle" /\ batch' = << >>
      /\ UNCHANGED <<content, job, request, operation, pushes, log, retained, pending, dropped,
                     dlq, runs, succeeded>>
      /\ \E kind \in Faults : faults' = [faults EXCEPT ![kind] = @ + 1]
  BY DEF WorkerCrash, Abandon, Fault, rows, apiVars, streamVars
<1>2. StatesRead /\ StatesRead' /\ TypeOK /\ TypeOK'
  BY StateFacts, StateFactsNext DEF IInv
<1>3. CASE worker = "idle"
  <2>1. \A e \in Entry : Held(e)' <=> Held(e)
    BY <1>1, <1>3 DEF Held, Running
  <2>2. DeliveryState' = DeliveryState
    BY <1>1, <1>2, <2>1, SameStates DEF Stream
  <2> QED BY <1>1, <2>2 DEF Delivery!vars
<1>4. CASE worker # "idle"
  <2>1. PICK x \in Entry : x = Current
    BY <1>4, CurrentFacts
  <2>2. /\ worker # "start" => runs[x] > 0
        /\ worker = "delDead" => x \in dlq
        /\ worker # "delDead" => x \in pending \cup succeeded
        /\ x \in succeeded => runs[x] > 0
        /\ worker = "delDead" => Over(x.job)
    BY <1>4, <2>1 DEF IInv, RunsInv, HeldInv, OverInv
  <2>3. Handled
    <3>1. job[x.job] \in {"QUEUED", "PROCESSING"} => x \in pending \cup succeeded
      BY <2>2 DEF Over
    <3>2. runs[x] \in Nat
      BY <1>2, IngestionAssumption DEF TypeOK
    <3> QED BY <1>1, <1>2, <2>1, <2>2, <3>1, <3>2 DEF Handled, TypeOK
  <2>4. Left
    BY <1>1 DEF Left
  <2>5. /\ DeliveryState[x] = "handed"
        /\ \/ DeliveryState' = DeliveryState
           \/ /\ DeliveryState' = [DeliveryState EXCEPT ![x] = "closed"]
              /\ x \notin pending'
    BY <1>4, <2>1, <2>3, <2>4, EntryStates
  <2>6. CASE DeliveryState' = DeliveryState
    BY <1>1, <2>6 DEF Delivery!vars
  <2>7. CASE DeliveryState' = [DeliveryState EXCEPT ![x] = "closed"] /\ x \notin pending'
    <3>1. Delivery!Close(x)
      BY <1>1, <2>2, <2>5, <2>7 DEF Delivery!Close
    <3> QED BY <3>1 DEF Delivery!Next
  <2> QED BY <2>5, <2>6, <2>7
<1> QED BY <1>3, <1>4

\* Every step is a step of JobDelivery or leaves its variables alone.
LEMMA StepMaps == IInv /\ IInv' /\ [Next]_vars => [Delivery!Next]_(Delivery!vars)
<1> SUFFICES ASSUME IInv, IInv', [Next]_vars PROVE [Delivery!Next]_(Delivery!vars)
  OBVIOUS
<1>1. ASSUME UNCHANGED <<log, pending, dropped, dlq, runs, succeeded>>,
             \/ UNCHANGED <<worker, batch>>
             \/ worker = "idle" /\ batch # << >> /\ worker' = "start" /\ batch' = batch
      PROVE  [Delivery!Next]_(Delivery!vars)
  <2>1. StatesRead /\ StatesRead'
    BY StateFacts, StateFactsNext
  <2>2. \A e \in Entry : Held(e)' <=> Held(e)
    <3>1. CASE UNCHANGED <<worker, batch>>
      BY <1>1, <3>1 DEF Held, Running, Current
    <3>2. CASE worker = "idle" /\ batch # << >> /\ worker' = "start" /\ batch' = batch
      <4>1. Head(batch) \in ToSet(batch)
        BY <3>2, TailFacts DEF IInv, TypeOK
      <4>2. Head(batch) \in pending
        BY <3>2, <4>1 DEF IInv, HeldInv, Waiting
      <4> QED BY <1>1, <3>2, <4>2 DEF Held, Running, Current
    <3> QED BY <1>1, <3>1, <3>2
  <2>3. DeliveryState' = DeliveryState
    BY <1>1, <2>1, <2>2, SameStates DEF Stream
  <2> QED BY <1>1, <2>3 DEF Delivery!vars
<1>2. CASE \E j \in Jobs : Request(j)
  <2> SUFFICES ASSUME NEW j \in Jobs, Request(j) PROVE [Delivery!Next]_(Delivery!vars)
    BY <1>2
  <2>1. CASE Push(j)
    BY <2>1, PushMaps
  <2>2. CASE ~Push(j)
    <3>1. UNCHANGED <<log, pending, dropped, dlq, runs, succeeded, worker, batch>>
      BY <2>2 DEF Request, BeginUpload, StoreUpload, BeginReplace, StoreReplacement, ReplaceRow,
         CreateJob, UndoContent, UndoJob, ApiCrash, streamVars, workerVars
    <3> QED BY <1>1, <3>1
  <2> QED BY <2>1, <2>2
<1>3. CASE \E c \in Contents : DeleteContent(c)
  BY <1>1, <1>3 DEF DeleteContent, streamVars, workerVars
<1>4. CASE Worker
  <2>1. CASE TakeEntry
    BY <1>1, <2>1 DEF TakeEntry, streamVars
  <2>2. CASE \/ StartRun \/ Work \/ FinishRun \/ Ack \/ Delete
             \/ MarkFailed \/ AddToDlq \/ AckDead \/ DeleteDead
    BY <2>2, EntryMaps
  <2> QED BY <1>4, <2>1, <2>2, ReadMaps, CrashMaps DEF Worker
<1>5. CASE UNCHANGED vars
  BY <1>1, <1>5 DEF vars, streamVars, workerVars
<1> QED BY <1>2, <1>3, <1>4, <1>5 DEF Next

\* Streams, batches, retries, acknowledgements and crashes together implement
\* the at-least-once queue of JobDelivery.
THEOREM Refinement == Spec => ImplementsDelivery
<1>1. Init => Delivery!Init
  <2> SUFFICES ASSUME Init PROVE Delivery!Init
    OBVIOUS
  <2>1. Stream = {}
    BY DEF Init, Stream, ToSet
  <2>2. \A e \in Entry : DeliveryState[e] = "absent"
    BY <2>1 DEF Init, DeliveryState, Running
  <2> QED BY <2>2 DEF Init, Delivery!Init, DeliveryState
<1>2. IInv /\ IInv' /\ [Next]_vars => [Delivery!Next]_(Delivery!vars)
  BY StepMaps
<1> QED BY <1>1, <1>2, Invariance, PTL DEF Spec, ImplementsDelivery, Delivery!Spec

(***************************************************************************)
(* What is at rest is true.                                                *)
(***************************************************************************)

\* A request has a job row from its insert on, unless its content is gone; and
\* it undoes a job only after it tried to enqueue it.
RowsInv ==
  \A j \in Jobs :
    /\ request[j] \in {"idle", "store", "replace", "row", "job"} => job[j] = "none"
    /\ job[j] = "none" /\ (request[j] = "push" \/ pushes[j] > 0) => content[ContentOf[j]] = "none"
    /\ request[j] = "undoJob" => pushes[j] > 0

\* An entry that will be run, or is being run and has not settled its content
\* yet, or was lost or stranded.
Settling(e) ==
  \/ e \in Stream \cup dropped
  \/ e \in pending /\ ~(Running(e) /\ worker \notin {"start", "work", "mark"})

Unsettled(c) == \E e \in Entry : ContentOf[e.job] = c /\ Settling(e)

\* A request that will enqueue a job for the content or fail it, or that died.
Attended(c) ==
  \E j \in Jobs : ContentOf[j] = c /\ request[j] \in {"store", "job", "push", "undoContent", "dead"}

\* A content is PROCESSING only while a request or an entry is to see to it.
ProcessingInv ==
  \A c \in Contents :
    content[c] = "PROCESSING" /\ Spared({"rows"}) => Attended(c) \/ Unsettled(c)

\* The contents RowAgreesWithJobs is about, before they are at rest.
Unrefused(c) ==
  /\ \A j \in Jobs : ContentOf[j] = c /\ pushes[j] > 0 => request[j] \in {"push", "accepted"}
  /\ Spared({"rows", "ack"})

RunningOf(c) == worker # "idle" /\ ContentOf[Current.job] = c

\* The last run of a content's jobs that settled the content also settled the
\* job, or is about to, or another is to come.
OutcomeInv ==
  \A c \in Contents : Unrefused(c) =>
    /\ RunningOf(c) /\ worker \in {"start", "work", "finish", "ack", "mark"} => Current \in pending
    /\ RunningOf(c) /\ worker \in {"work", "finish"} => job[Current.job] \in {"none", "PROCESSING"}
    /\ content[c] = "READY" =>
         \/ Unsettled(c)
         \/ RunningOf(c) /\ worker = "finish"
         \/ \E j \in Jobs : ContentOf[j] = c /\ job[j] = "SUCCEEDED"
    /\ content[c] = "FAILED" =>
         \/ Unsettled(c)
         \/ \E j \in Jobs : ContentOf[j] = c /\ (job[j] = "FAILED" \/ request[j] = "rejected")

RestInv == RowsInv /\ ProcessingInv /\ OutcomeInv

\* A failure of one of the kinds is remembered, and no failure is forgotten.
LEMMA FaultRemembered ==
  ASSUME TypeOK, NEW kind, Fault(kind), NEW kinds
  PROVE  /\ Spared(kinds)' => Spared(kinds)
         /\ kind \in kinds => ~Spared(kinds)'
<1>1. faults \in [Faults -> Nat] /\ faults' = [faults EXCEPT ![kind] = @ + 1] /\ kind \in Faults
  BY DEF Fault, TypeOK
<1>2. faults'[kind] # 0
  BY <1>1
<1>3. ASSUME NEW k \in Faults, faults'[k] = 0
      PROVE  faults[k] = 0
  BY <1>1, <1>2, <1>3
<1> QED BY <1>1, <1>2, <1>3 DEF Spared

\* A step without a failure spares what was spared.
LEMMA NoFault == ASSUME UNCHANGED faults, NEW kinds PROVE Spared(kinds)' <=> Spared(kinds)
BY DEF Spared

\* What the steps of a request leave alone.
LEMMA StreamCalm ==
  ASSUME UNCHANGED <<log, pending, dropped, worker, batch>>
  PROVE  /\ \A c : Unsettled(c)' <=> Unsettled(c)
         /\ \A c : RunningOf(c)' <=> RunningOf(c)
         /\ Current' = Current
BY DEF Unsettled, Settling, RunningOf, Running, Current, Stream

\* A request that stops at nothing but its own failure was not refused before.
LEMMA UnrefusedBefore ==
  ASSUME IInv, NEW j \in Jobs, Request(j), NEW c \in Contents, Unrefused(c)'
  PROVE  Unrefused(c)
<1>1. TypeOK /\ PushesInv
  BY DEF IInv
<1>2. Spared({"rows", "ack"})
  <2>1. UNCHANGED faults \/ \E kind : Fault(kind)
    BY DEF Request, BeginUpload, StoreUpload, BeginReplace, StoreReplacement, ReplaceRow,
           CreateJob, Push, UndoContent, UndoJob, ApiCrash
  <2> QED BY <1>1, <2>1, FaultRemembered, NoFault DEF Unrefused
<1>3. ASSUME NEW k \in Jobs, ContentOf[k] = c, pushes[k] > 0
      PROVE  request[k] \in {"push", "accepted"}
  <2>1. CASE Push(j)
    <3>1. CASE k = j
      BY <2>1, <3>1 DEF Push
    <3>2. CASE k # j
      <4>1. pushes'[k] = pushes[k] /\ request'[k] = request[k]
        BY <1>1, <2>1, <3>2 DEF Push, Go, AfterFailedPush, TypeOK
      <4> QED BY <1>3, <4>1 DEF Unrefused
    <3> QED BY <3>1, <3>2
  <2>2. CASE ~Push(j)
    <3>1. pushes' = pushes
      BY <2>2 DEF Request, BeginUpload, StoreUpload, BeginReplace, StoreReplacement, ReplaceRow,
             CreateJob, UndoContent, UndoJob, ApiCrash
    <3>2. request'[k] \in {"push", "accepted"}
      BY <1>3, <3>1 DEF Unrefused
    <3>3. request'[k] = request[k] \/ request[k] = "job"
      BY <1>1, <2>2, <3>2 DEF Request, BeginUpload, StoreUpload, BeginReplace, StoreReplacement,
             ReplaceRow, CreateJob, UndoContent, UndoJob, ApiCrash, Go, TypeOK
    <3> QED BY <1>1, <1>3, <3>2, <3>3 DEF PushesInv
  <2> QED BY <2>1, <2>2
<1> QED BY <1>2, <1>3 DEF Unrefused

\* Every entry the worker has in hand was pushed.
LEMMA CurrentPushed ==
  ASSUME IInv, worker # "idle"
  PROVE  Current.job \in Jobs /\ pushes[Current.job] > 0
<1>1. Current \in Entry /\ Current.job \in Jobs /\ ToSet(batch) = {Current} \cup ToSet(Tail(batch))
  BY CurrentFacts
<1>2. Current.copy <= pushes[Current.job] /\ Current.copy \in 1..MaxEnqueueAttempts
  BY <1>1 DEF IInv, PushedInv, Entry
<1>3. pushes[Current.job] \in Nat
  BY <1>1 DEF IInv, TypeOK
<1> QED BY <1>1, <1>2, <1>3, IngestionAssumption

\* The steps of a request keep the job rows where they belong.
LEMMA RequestRows ==
  ASSUME IInv, RowsInv, NEW j \in Jobs, Request(j)
  PROVE  RowsInv'
<1>1. TypeOK /\ PushesInv
  BY DEF IInv
<1>2. ASSUME NEW k \in Jobs \ {j}
      PROVE  job'[k] = job[k] /\ request'[k] = request[k] /\ pushes'[k] = pushes[k]
  BY <1>1 DEF Request, BeginUpload, StoreUpload, BeginReplace, StoreReplacement, ReplaceRow,
     CreateJob, Push, UndoContent, UndoJob, ApiCrash, Go, AfterFailedPush, SetJob, rows, TypeOK
<1>3. ASSUME NEW k \in Jobs, content[ContentOf[k]] = "none", content'[ContentOf[k]] # "none"
      PROVE  request[k] = "idle" /\ pushes[k] = 0 /\ (k = j => pushes'[k] = 0 /\ request'[k] # "push")
  <2>1. BeginUpload(j) /\ ContentOf[k] = ContentOf[j]
    BY <1>1, <1>3, IngestionAssumption DEF Request, BeginUpload, StoreUpload, BeginReplace,
       StoreReplacement, ReplaceRow, CreateJob, Push, UndoContent, UndoJob, ApiCrash,
       SetContent, rows, TypeOK
  <2>2. request[k] = "idle"
    BY <2>1 DEF BeginUpload
  <2> QED BY <1>1, <2>1, <2>2 DEF BeginUpload, PushesInv, Go, TypeOK
<1>4. /\ request'[j] \in {"idle", "store", "replace", "row", "job"} => job'[j] = "none"
      /\ job'[j] = "none" /\ (request'[j] = "push" \/ pushes'[j] > 0) =>
           job[j] = "none" /\ (request[j] = "push" \/ pushes[j] > 0)
      /\ request'[j] = "undoJob" => pushes'[j] > 0
  BY <1>1 DEF RowsInv, Request, BeginUpload, StoreUpload, BeginReplace, StoreReplacement,
     ReplaceRow, CreateJob, Push, UndoContent, UndoJob, ApiCrash, Go, AfterFailedPush, SetJob,
     rows, TypeOK, JobStatus, RequestStep
<1> SUFFICES ASSUME NEW k \in Jobs
             PROVE  /\ request'[k] \in {"idle", "store", "replace", "row", "job"} => job'[k] = "none"
                    /\ job'[k] = "none" /\ (request'[k] = "push" \/ pushes'[k] > 0) =>
                         content'[ContentOf[k]] = "none"
                    /\ request'[k] = "undoJob" => pushes'[k] > 0
  BY DEF RowsInv
<1>5. CASE k = j
  BY <1>3, <1>4, <1>5 DEF RowsInv
<1>6. CASE k # j
  BY <1>2, <1>3, <1>6 DEF RowsInv
<1> QED BY <1>5, <1>6

\* A step of a request that does not enqueue leaves a PROCESSING content attended.
LEMMA RequestProcessing ==
  ASSUME IInv, RestInv, NEW j \in Jobs,
         \/ BeginUpload(j) \/ StoreUpload(j) \/ BeginReplace(j) \/ StoreReplacement(j)
         \/ ReplaceRow(j) \/ CreateJob(j) \/ UndoContent(j) \/ UndoJob(j) \/ ApiCrash(j)
  PROVE  ProcessingInv'
<1>1. TypeOK
  BY DEF IInv
<1>2. UNCHANGED <<log, pending, dropped, worker, batch>>
  BY DEF BeginUpload, StoreUpload, BeginReplace, StoreReplacement, ReplaceRow, CreateJob,
     UndoContent, UndoJob, ApiCrash, streamVars, workerVars
<1>3. \A k \in Jobs \ {j} : request'[k] = request[k]
  BY <1>1 DEF BeginUpload, StoreUpload, BeginReplace, StoreReplacement, ReplaceRow, CreateJob,
     UndoContent, UndoJob, ApiCrash, Go, TypeOK
<1> SUFFICES ASSUME NEW c \in Contents, content'[c] = "PROCESSING", Spared({"rows"})'
             PROVE  Attended(c)' \/ Unsettled(c)'
  BY DEF ProcessingInv
<1>4. Spared({"rows"}) /\ ~Fault("rows")
  <2>1. UNCHANGED faults \/ \E kind : Fault(kind)
    BY DEF BeginUpload, StoreUpload, BeginReplace, StoreReplacement, ReplaceRow, CreateJob,
           UndoContent, UndoJob, ApiCrash
  <2> QED BY <1>1, <2>1, FaultRemembered, NoFault
<1>5. CASE ContentOf[j] = c /\ request'[j] \in {"store", "job", "push", "undoContent", "dead"}
  BY <1>5 DEF Attended
<1>6. CASE ~(ContentOf[j] = c /\ request'[j] \in {"store", "job", "push", "undoContent", "dead"})
  <2>1. content[c] = "PROCESSING"
    BY <1>1, <1>4, <1>6, IngestionAssumption DEF BeginUpload, StoreUpload, BeginReplace,
       StoreReplacement, ReplaceRow, CreateJob, UndoContent, UndoJob, ApiCrash, Go, SetContent,
       rows, TypeOK
  <2>2. ~(ContentOf[j] = c /\ request[j] \in {"store", "job", "push", "undoContent", "dead"})
    BY <1>1, <1>4, <1>6, IngestionAssumption DEF BeginUpload, StoreUpload, BeginReplace,
       StoreReplacement, ReplaceRow, CreateJob, UndoContent, UndoJob, ApiCrash, Go, SetContent,
       rows, TypeOK, InFlight
  <2>3. Attended(c) \/ Unsettled(c)
    BY <1>4, <2>1 DEF RestInv, ProcessingInv
  <2>4. CASE Attended(c)
    BY <1>3, <2>2, <2>4 DEF Attended
  <2> QED BY <1>2, <2>3, <2>4, StreamCalm
<1> QED BY <1>5, <1>6

\* Nor does such a step leave a settled content without the outcome it shows.
LEMMA RequestOutcome ==
  ASSUME IInv, RestInv, NEW j \in Jobs,
         \/ BeginUpload(j) \/ StoreUpload(j) \/ BeginReplace(j) \/ StoreReplacement(j)
         \/ ReplaceRow(j) \/ CreateJob(j) \/ UndoContent(j) \/ UndoJob(j) \/ ApiCrash(j)
  PROVE  OutcomeInv'
<1>1. TypeOK /\ PushesInv /\ RowsInv
  BY DEF IInv, RestInv
<1>2. UNCHANGED <<pushes, log, pending, dropped, worker, batch>>
  BY DEF BeginUpload, StoreUpload, BeginReplace, StoreReplacement, ReplaceRow, CreateJob,
     UndoContent, UndoJob, ApiCrash, streamVars, workerVars
<1>3. \A k \in Jobs \ {j} : request'[k] = request[k] /\ job'[k] = job[k]
  BY <1>1 DEF BeginUpload, StoreUpload, BeginReplace, StoreReplacement, ReplaceRow, CreateJob,
     UndoContent, UndoJob, ApiCrash, Go, SetJob, rows, TypeOK
<1>4. /\ request[j] # "rejected"
      /\ \/ job'[j] = job[j]
         \/ job[j] = "none" /\ pushes[j] = 0
         \/ pushes[j] > 0 /\ request'[j] = "rejected"
  <2>1. request[j] # "rejected"
    BY <1>1 DEF BeginUpload, StoreUpload, BeginReplace, StoreReplacement, ReplaceRow, CreateJob,
       UndoContent, UndoJob, ApiCrash, InFlight
  <2>2. CASE CreateJob(j)
    BY <1>1, <2>1, <2>2 DEF CreateJob, RowsInv, PushesInv
  <2>3. CASE UndoJob(j)
    BY <1>1, <2>1, <2>3 DEF UndoJob, RowsInv, Go, TypeOK
  <2>4. CASE ~CreateJob(j) /\ ~UndoJob(j)
    <3>1. job' = job
      BY <2>4 DEF BeginUpload, StoreUpload, BeginReplace, StoreReplacement, ReplaceRow,
         UndoContent, ApiCrash, rows
    <3> QED BY <2>1, <3>1
  <2> QED BY <2>2, <2>3, <2>4
<1> SUFFICES ASSUME NEW c \in Contents, Unrefused(c)'
             PROVE  /\ RunningOf(c)' /\ worker' \in {"start", "work", "finish", "ack", "mark"} =>
                         Current' \in pending'
                    /\ RunningOf(c)' /\ worker' \in {"work", "finish"} =>
                         job'[Current'.job] \in {"none", "PROCESSING"}
                    /\ content'[c] = "READY" =>
                         \/ Unsettled(c)'
                         \/ RunningOf(c)' /\ worker' = "finish"
                         \/ \E k \in Jobs : ContentOf[k] = c /\ job'[k] = "SUCCEEDED"
                    /\ content'[c] = "FAILED" =>
                         \/ Unsettled(c)'
                         \/ \E k \in Jobs : ContentOf[k] = c /\ (job'[k] = "FAILED" \/ request'[k] = "rejected")
  BY DEF OutcomeInv
<1>5. Unrefused(c)
  BY UnrefusedBefore DEF Request
<1>6. (Unsettled(c)' <=> Unsettled(c)) /\ (RunningOf(c)' <=> RunningOf(c)) /\ Current' = Current
  BY <1>2, StreamCalm
<1>7. ASSUME NEW k \in Jobs, ContentOf[k] = c
      PROVE  job'[k] = job[k] \/ (job[k] = "none" /\ pushes[k] = 0)
  <2>1. CASE k = j
    <3>1. pushes'[j] > 0 => request'[j] \in {"push", "accepted"}
      BY <1>7, <2>1 DEF Unrefused
    <3> QED BY <1>2, <1>4, <2>1, <3>1
  <2>2. CASE k # j
    BY <1>3, <1>7, <2>2
  <2> QED BY <2>1, <2>2
<1>8. RunningOf(c) => Current.job \in Jobs /\ pushes[Current.job] > 0 /\ ContentOf[Current.job] = c
  BY CurrentPushed DEF RunningOf
<1>9. RunningOf(c) => job'[Current.job] = job[Current.job]
  <2>1. RunningOf(c) => ~(pushes[Current.job] = 0)
    BY <1>1, <1>8 DEF TypeOK
  <2> QED BY <1>7, <1>8, <2>1
<1>10. content'[c] = "READY" => content[c] = "READY"
  BY <1>1, IngestionAssumption DEF BeginUpload, StoreUpload, BeginReplace,
     StoreReplacement, ReplaceRow, CreateJob, UndoContent, UndoJob, ApiCrash, SetContent, rows, TypeOK
<1>11. content'[c] = "FAILED" => \/ content[c] = "FAILED"
                                 \/ ContentOf[j] = c /\ request'[j] = "rejected"
  <2>1. CASE UndoContent(j)
    <3>1. ContentOf[j] = c /\ pushes'[j] > 0 => request'[j] \in {"push", "accepted"}
      BY DEF Unrefused
    <3>2. request'[j] = IF pushes[j] > 0 THEN "undoJob" ELSE "rejected"
      BY <1>1, <2>1 DEF UndoContent, Go, TypeOK
    <3>3. content'[c] = content[c] \/ ContentOf[j] = c
      BY <1>1, <2>1, IngestionAssumption DEF UndoContent, SetContent, TypeOK
    <3> QED BY <1>2, <3>1, <3>2, <3>3
  <2>2. CASE ~UndoContent(j)
    BY <1>1, <2>2, IngestionAssumption DEF BeginUpload, StoreUpload, BeginReplace,
       StoreReplacement, ReplaceRow, CreateJob, UndoJob, ApiCrash, SetContent, rows, TypeOK
  <2> QED BY <2>1, <2>2
<1>12. content[c] = "READY" => \/ Unsettled(c)
                               \/ RunningOf(c) /\ worker = "finish"
                               \/ \E k \in Jobs : ContentOf[k] = c /\ job'[k] = "SUCCEEDED"
  <2>1. content[c] = "READY" => \/ Unsettled(c)
                                \/ RunningOf(c) /\ worker = "finish"
                                \/ \E k \in Jobs : ContentOf[k] = c /\ job[k] = "SUCCEEDED"
    BY <1>5 DEF RestInv, OutcomeInv
  <2> QED BY <1>7, <2>1
<1>13. content[c] = "FAILED" =>
         \/ Unsettled(c)
         \/ \E k \in Jobs : ContentOf[k] = c /\ (job'[k] = "FAILED" \/ request'[k] = "rejected")
  <2>1. content[c] = "FAILED" =>
         \/ Unsettled(c)
         \/ \E k \in Jobs : ContentOf[k] = c /\ (job[k] = "FAILED" \/ request[k] = "rejected")
    BY <1>5 DEF RestInv, OutcomeInv
  <2>2. ASSUME NEW k \in Jobs, ContentOf[k] = c, job[k] = "FAILED" \/ request[k] = "rejected"
        PROVE  job'[k] = "FAILED" \/ request'[k] = "rejected"
    BY <1>3, <1>4, <1>7, <2>2
  <2> QED BY <2>1, <2>2
<1>14. /\ RunningOf(c) /\ worker \in {"start", "work", "finish", "ack", "mark"} => Current \in pending
       /\ RunningOf(c) /\ worker \in {"work", "finish"} => job[Current.job] \in {"none", "PROCESSING"}
  BY <1>5 DEF RestInv, OutcomeInv
<1>15. content'[c] = "FAILED" =>
         \/ Unsettled(c)'
         \/ \E k \in Jobs : ContentOf[k] = c /\ (job'[k] = "FAILED" \/ request'[k] = "rejected")
  BY <1>6, <1>11, <1>13
<1>16. content'[c] = "READY" =>
         \/ Unsettled(c)'
         \/ RunningOf(c)' /\ worker' = "finish"
         \/ \E k \in Jobs : ContentOf[k] = c /\ job'[k] = "SUCCEEDED"
  BY <1>2, <1>6, <1>10, <1>12
<1> QED BY <1>2, <1>6, <1>9, <1>14, <1>15, <1>16

\* A push adds an entry, or is tried again or undone.
LEMMA PushRest ==
  ASSUME IInv, RestInv, NEW j \in Jobs, Push(j)
  PROVE  ProcessingInv' /\ OutcomeInv'
<1> DEFINE e == [job |-> j, copy |-> pushes[j] + 1]
<1>1. TypeOK /\ PushesInv /\ PushedInv /\ PlacesInv
  BY DEF IInv
<1>2. /\ request[j] = "push"
      /\ UNCHANGED <<content, job, pending, worker, batch>>
      /\ \A k \in Jobs \ {j} : request'[k] = request[k]
  BY <1>1 DEF Push, rows, workerVars, Go, AfterFailedPush, TypeOK
<1>3. pushes[j] \in Nat /\ pushes[j] + 1 \in 1..MaxEnqueueAttempts
  BY <1>1, <1>2, IngestionAssumption DEF TypeOK, PushesInv
<1>4. e \in Entry /\ e.job = j /\ e.copy = pushes[j] + 1
  BY <1>3 DEF Entry
<1>5. XAdd(e) \/ UNCHANGED <<log, retained, dropped>>
  BY DEF Push
<1>6. request'[j] \in {"push", "undoContent"} \/ (request'[j] = "accepted" /\ XAdd(e))
  <2>1. (XAdd(e) /\ Go(j, "accepted")) \/ AfterFailedPush(j) \/ Go(j, "undoContent")
    BY DEF Push
  <2> QED BY <1>1, <2>1 DEF Go, AfterFailedPush, TypeOK
<1> HIDE DEF e
<1>7. e \notin Stream \cup dropped
  <2>1. ~(e.copy <= pushes[e.job])
    BY <1>3, <1>4
  <2> QED BY <1>1, <1>4, <2>1 DEF PushedInv
<1>8. /\ Stream \cup dropped \subseteq Stream' \cup dropped'
      /\ XAdd(e) => e \in Stream'
  <2>1. CASE XAdd(e)
    BY <1>1, <1>4, <1>7, <2>1, XAddFacts
  <2>2. CASE ~XAdd(e)
    BY <1>5, <2>2 DEF Stream
  <2> QED BY <2>1, <2>2
<1>9. \A x \in Entry : Settling(x) => Settling(x)'
  BY <1>2, <1>8 DEF Settling, Running, Current
<1>10. \A c \in Contents : (Unsettled(c) => Unsettled(c)') /\ (RunningOf(c)' <=> RunningOf(c))
  BY <1>2, <1>9 DEF Unsettled, RunningOf, Current
<1>11. ASSUME NEW c \in Contents, content'[c] = "PROCESSING", Spared({"rows"})'
       PROVE  Attended(c)' \/ Unsettled(c)'
  <2>1. UNCHANGED faults \/ \E kind : Fault(kind)
    BY DEF Push
  <2>2. Attended(c) \/ Unsettled(c)
    BY <1>1, <1>2, <1>11, <2>1, FaultRemembered, NoFault DEF RestInv, ProcessingInv
  <2>3. CASE Unsettled(c)
    BY <1>10, <2>3
  <2>4. CASE Attended(c)
    <3>1. PICK k \in Jobs : ContentOf[k] = c /\ request[k] \in {"store", "job", "push", "undoContent", "dead"}
      BY <2>4 DEF Attended
    <3>2. CASE k = j /\ request'[j] = "accepted"
      <4>1. PICK x \in Entry : x = e
        BY <1>4
      <4>2. Settling(x)'
        BY <1>6, <1>8, <3>2, <4>1 DEF Settling
      <4> QED BY <1>4, <3>1, <3>2, <4>1, <4>2 DEF Unsettled
    <3>3. CASE k = j /\ request'[j] # "accepted"
      BY <1>6, <3>1, <3>3 DEF Attended
    <3>4. CASE k # j
      BY <1>2, <3>1, <3>4 DEF Attended
    <3> QED BY <3>2, <3>3, <3>4
  <2> QED BY <2>2, <2>3, <2>4
<1>12. OutcomeInv'
  <2>1. \A c \in Contents : Unrefused(c)' => Unrefused(c)
    BY UnrefusedBefore DEF Request
  <2>2. Current' = Current
    BY <1>2 DEF Current
  <2>3. \A k \in Jobs : request[k] = "rejected" => request'[k] = "rejected"
    BY <1>2
  <2> QED BY <1>2, <1>10, <2>1, <2>2, <2>3 DEF RestInv, OutcomeInv
<1> QED BY <1>11, <1>12 DEF ProcessingInv

\* Deleting a content takes its jobs with it.
LEMMA DeleteContentRest ==
  ASSUME IInv, RestInv, NEW d \in Contents, DeleteContent(d)
  PROVE  RestInv'
<1>1. TypeOK
  BY DEF IInv
<1>2. /\ UNCHANGED <<request, pushes, log, pending, dropped, worker, batch, runs, faults>>
      /\ \A c \in Contents : content'[c] = IF c = d THEN "none" ELSE content[c]
      /\ \A k \in Jobs : job'[k] = IF ContentOf[k] = d THEN "none" ELSE job[k]
  BY <1>1 DEF DeleteContent, apiVars, streamVars, workerVars, TypeOK
<1>3. \A k \in Jobs : ContentOf[k] \in Contents
  BY IngestionAssumption
<1>4. RowsInv'
  BY <1>2, <1>3 DEF RestInv, RowsInv
<1>5. \A c : (Unsettled(c)' <=> Unsettled(c)) /\ (RunningOf(c)' <=> RunningOf(c))
  BY <1>2, StreamCalm
<1>6. \A kinds : Spared(kinds)' <=> Spared(kinds)
  BY <1>2, NoFault
<1>7. \A c : (Attended(c)' <=> Attended(c)) /\ (Unrefused(c)' <=> Unrefused(c))
  BY <1>2, <1>6 DEF Attended, Unrefused
<1>8. ProcessingInv'
  BY <1>2, <1>5, <1>6, <1>7 DEF RestInv, ProcessingInv
<1>9. OutcomeInv'
  <2> SUFFICES ASSUME NEW c \in Contents, Unrefused(c)
               PROVE  /\ RunningOf(c) /\ worker \in {"start", "work", "finish", "ack", "mark"} => Current \in pending
                      /\ RunningOf(c) /\ worker \in {"work", "finish"} => job'[Current.job] \in {"none", "PROCESSING"}
                      /\ content'[c] = "READY" =>
                           \/ Unsettled(c)
                           \/ RunningOf(c) /\ worker = "finish"
                           \/ \E j \in Jobs : ContentOf[j] = c /\ job'[j] = "SUCCEEDED"
                      /\ content'[c] = "FAILED" =>
                           \/ Unsettled(c)
                           \/ \E j \in Jobs : ContentOf[j] = c /\ (job'[j] = "FAILED" \/ request[j] = "rejected")
    BY <1>2, <1>5, <1>7 DEF OutcomeInv, Current
  <2>1. RunningOf(c) => Current.job \in Jobs /\ ContentOf[Current.job] = c
    BY CurrentFacts DEF RunningOf
  <2>2. CASE c = d
    BY <1>2, <2>1, <2>2 DEF RestInv, OutcomeInv
  <2>3. CASE c # d
    <3>1. \A k \in Jobs : ContentOf[k] = c => job'[k] = job[k]
      BY <1>2, <2>3
    <3> QED BY <1>2, <2>1, <2>3, <3>1 DEF RestInv, OutcomeInv
  <2> QED BY <2>2, <2>3
<1> QED BY <1>4, <1>8, <1>9 DEF RestInv

\* A step that leaves requests and rows alone, takes nothing from what is
\* settling and starts no run keeps the rest true.
LEMMA RowsCalm ==
  ASSUME RestInv, UNCHANGED <<content, job, request, pushes>>,
         \A e \in Entry : Settling(e) => Settling(e)',
         \A kinds : Spared(kinds)' => Spared(kinds),
         \A c \in Contents : RunningOf(c)' => (worker' = "start" /\ Current' \in pending'),
         \A c \in Contents : Unrefused(c) /\ RunningOf(c) /\ worker = "finish" => Unsettled(c)'
  PROVE  RestInv'
<1>1. RowsInv'
  BY DEF RestInv, RowsInv
<1>2. \A c : Unsettled(c) => Unsettled(c)'
  BY DEF Unsettled
<1>3. \A c : (Attended(c)' <=> Attended(c)) /\ (Unrefused(c)' => Unrefused(c))
  BY DEF Attended, Unrefused
<1>4. ProcessingInv'
  BY <1>2, <1>3 DEF RestInv, ProcessingInv
<1>5. OutcomeInv'
  BY <1>2, <1>3 DEF RestInv, OutcomeInv
<1> QED BY <1>1, <1>4, <1>5 DEF RestInv

\* Reading a batch moves entries from the stream to the PEL.
LEMMA ReadBatchRest == ASSUME IInv, RestInv, ReadBatch PROVE RestInv'
<1> DEFINE n == Lesser(BatchSize, Len(log))
           a == SubSeq(log, 1, n)
           b == SubSeq(log, n + 1, Len(log))
<1>1. TypeOK /\ PlacesInv
  BY DEF IInv
<1>2. /\ worker = "idle" /\ worker' = "idle"
      /\ log' = b /\ pending' = pending \cup ToSet(a)
      /\ UNCHANGED <<content, job, request, pushes, dropped>>
      /\ UNCHANGED faults \/ Fault("read")
  BY DEF ReadBatch, rows, apiVars
<1>3. log \in Seq(Entry) /\ Len(log) \in Nat /\ n \in 0..Len(log)
  BY <1>1, LenProperties, IngestionAssumption DEF TypeOK, Lesser
<1>4. ToSet(log) = ToSet(a) \cup ToSet(b)
  <2> HIDE DEF n
  <2> QED BY <1>1, <1>3, SplitFacts DEF PlacesInv
<1> HIDE DEF n, a, b
<1>5. \A e \in Entry : Settling(e) => Settling(e)'
  BY <1>2, <1>4 DEF Settling, Stream, Running
<1>6. \A kinds : Spared(kinds)' => Spared(kinds)
  BY <1>1, <1>2, FaultRemembered, NoFault
<1>7. \A c \in Contents : ~RunningOf(c) /\ ~RunningOf(c)'
  BY <1>2 DEF RunningOf
<1> QED BY <1>2, <1>5, <1>6, <1>7, RowsCalm

\* Taking the next entry of the batch starts its first run.
LEMMA TakeEntryRest == ASSUME IInv, RestInv, TakeEntry PROVE RestInv'
<1>1. TypeOK /\ HeldInv
  BY DEF IInv
<1>2. /\ worker = "idle" /\ batch # << >> /\ worker' = "start"
      /\ UNCHANGED <<content, job, request, pushes, log, pending, dropped, batch, faults>>
  BY DEF TakeEntry, rows, apiVars, streamVars
<1>3. ToSet(batch) = {Head(batch)} \cup ToSet(Tail(batch))
  BY <1>1, <1>2, TailFacts DEF TypeOK
<1>4. Current' \in pending'
  BY <1>1, <1>2, <1>3 DEF HeldInv, Waiting, Current
<1>5. \A e \in Entry : Settling(e) => Settling(e)'
  BY <1>2 DEF Settling, Stream, Running
<1>6. \A kinds : Spared(kinds)' => Spared(kinds)
  BY <1>2, NoFault
<1>7. \A c \in Contents : ~RunningOf(c)
  BY <1>2 DEF RunningOf
<1> QED BY <1>2, <1>4, <1>5, <1>6, <1>7, RowsCalm

\* A crash strands what the worker held.
LEMMA CrashRest == ASSUME IInv, RestInv, WorkerCrash PROVE RestInv'
<1>1. TypeOK
  BY DEF IInv
<1>2. /\ worker' = "idle"
      /\ UNCHANGED <<content, job, request, pushes, log, pending, dropped>>
      /\ Fault("crash")
  BY DEF WorkerCrash, Abandon, rows, apiVars, streamVars
<1>3. \A e \in Entry : Settling(e) => Settling(e)'
  BY <1>2 DEF Settling, Stream, Running
<1>4. \A kinds : Spared(kinds)' => Spared(kinds)
  BY <1>1, <1>2, FaultRemembered
<1>5. ASSUME NEW c \in Contents, Unrefused(c), RunningOf(c), worker = "finish"
      PROVE  Unsettled(c)'
  <2>1. PICK x \in Entry : x = Current
    BY <1>5, CurrentFacts
  <2>2. x \in pending /\ ContentOf[x.job] = c
    BY <1>5, <2>1 DEF RestInv, OutcomeInv, RunningOf
  <2>3. Settling(x)'
    BY <1>2, <2>2 DEF Settling, Running
  <2> QED BY <2>2, <2>3 DEF Unsettled
<1>6. \A c \in Contents : ~RunningOf(c)'
  BY <1>2 DEF RunningOf
<1> QED BY <1>2, <1>3, <1>4, <1>5, <1>6, RowsCalm

\* What a step on the current entry leaves alone, and where it leaves that entry.
LEMMA EntrySettles ==
  ASSUME IInv, worker # "idle", Handled, Kept \/ Left, NEW x \in Entry, x = Current
  PROVE  /\ \A e \in Entry \ {x} : Settling(e)' <=> Settling(e)
         /\ Settling(x) <=> (x \in pending /\ worker \in {"start", "work", "mark"})
         /\ Settling(x)' <=> (x \in pending' /\ worker' \in {"idle", "start", "work", "mark"})
         /\ worker' # "idle" => Current' = x
<1>1. x \in ToSet(batch)
  BY CurrentFacts
<1>2. x \notin Stream \cup dropped
  BY <1>1 DEF IInv, PlacesInv
<1>3. Stream' = Stream /\ dropped' = dropped
  BY DEF Handled, Stream
<1>4. worker' # "idle" => Current' = x
  BY DEF Kept, Left, Current
<1>5. \A e \in Entry : Running(e)' <=> (worker' # "idle" /\ e = x)
  BY <1>4 DEF Running
<1>6. \A e \in Entry : Running(e) <=> e = x
  BY DEF Running
<1>7. \A e \in Entry \ {x} : e \in pending' <=> e \in pending
  BY DEF Handled
<1>8. \A e \in Entry \ {x} : Settling(e)' <=> Settling(e)
  BY <1>3, <1>5, <1>6, <1>7 DEF Settling
<1>9. Settling(x) <=> (x \in pending /\ worker \in {"start", "work", "mark"})
  BY <1>2, <1>6 DEF Settling
<1>10. Settling(x)' <=> (x \in pending' /\ worker' \in {"idle", "start", "work", "mark"})
  BY <1>2, <1>3, <1>5 DEF Settling
<1> QED BY <1>4, <1>8, <1>9, <1>10

\* What each step does to the content of the current entry, when the failures
\* that RowAgreesWithJobs leaves out have not happened: it goes on, or leaves the
\* entry to settle, or settles content and job together.
Settles(x) ==
  LET j == x.job
      c == ContentOf[x.job] IN
  /\ \A d \in Contents \ {c} : content'[d] = content[d]
  /\ \A k \in Jobs \ {j} : job'[k] = job[k]
  /\ \A kinds : Spared(kinds)' => Spared(kinds)
  /\ content[c] = "none" => content'[c] = "none"
  /\ job[j] = "none" <=> job'[j] = "none"
  /\ content'[c] = "PROCESSING" =>
       /\ content[c] = "PROCESSING"
       /\ worker \in {"start", "work", "mark"} =>
            worker' \in {"idle", "start", "work", "mark"} /\ pending' = pending
  /\ Spared({"rows", "ack"})' =>
       /\ worker' \in {"start", "work", "finish", "ack", "mark"} =>
            pending' = pending /\ worker \in {"start", "work", "finish", "mark"}
       /\ worker' \in {"work", "finish"} =>
            \/ job'[j] = "PROCESSING"
            \/ worker = "work" /\ job'[j] = job[j]
       /\ content'[c] \in {"READY", "FAILED"} =>
            \/ worker' \in {"idle", "start", "work", "mark"} /\ pending' = pending
                 /\ worker \in {"start", "work", "finish", "mark"}
            \/ worker = "work" /\ worker' = "finish" /\ content'[c] = "READY"
            \/ worker = "finish" /\ job'[j] = "SUCCEEDED" /\ content'[c] = content[c]
            \/ content'[c] = "FAILED" /\ job'[j] = "FAILED"
            \/ worker \in {"ack", "del", "dlq", "ackDead", "delDead"} /\ UNCHANGED <<content, job>>

\* Every step on the current entry settles in that way.
LEMMA EntryStepSettles ==
  ASSUME IInv, RestInv, NEW x \in Entry, x = Current,
         \/ StartRun \/ Work \/ FinishRun \/ Ack \/ Delete
         \/ MarkFailed \/ AddToDlq \/ AckDead \/ DeleteDead
  PROVE  Settles(x)
<1> DEFINE j == x.job
           c == ContentOf[j]
<1>1. TypeOK
  BY DEF IInv
<1>2. j \in Jobs /\ c \in Contents
  BY IngestionAssumption DEF Entry
<1>3. worker # "idle"
  BY DEF StartRun, Work, FinishRun, Ack, Delete, MarkFailed, AddToDlq, AckDead, DeleteDead
<1>4. job[j] = "none" => content[c] = "none"
  <2>1. pushes[j] > 0
    BY <1>3, CurrentPushed
  <2> QED BY <1>2, <2>1 DEF RestInv, RowsInv
<1>5. \A kinds : Spared(kinds)' => Spared(kinds)
  <2>1. UNCHANGED faults \/ \E kind : Fault(kind)
    BY DEF StartRun, Work, FinishRun, Ack, Delete, MarkFailed, AddToDlq, AckDead, DeleteDead
  <2> QED BY <1>1, <2>1, FaultRemembered, NoFault
<1>6. Spared({"rows", "ack"})' => ~Fault("ack")
  BY <1>1, FaultRemembered
<1>7. /\ content \in [Contents -> ContentStatus]
      /\ job \in [Jobs -> JobStatus]
  BY <1>1 DEF TypeOK
<1>8. \A made : RunThrows(made) => worker' \in {"start", "mark"}
  BY DEF RunThrows
<1> HIDE DEF c, j
<1> USE <1>2, <1>4, <1>5, <1>6, <1>7, <1>8 DEF SetContent, SetJob, ContentStatus, JobStatus, rows, streamVars
<1>9. CASE StartRun
  <2>1. /\ UNCHANGED <<content, pending>> /\ worker = "start"
        /\ \/ job[j] = "none" /\ job' = job /\ worker' = "ack"
           \/ job[j] # "none" /\ job' = [job EXCEPT ![j] = "PROCESSING"] /\ worker' = "work"
           \/ /\ job' = job \/ (job[j] # "none" /\ job' = [job EXCEPT ![j] = "PROCESSING"])
              /\ worker' \in {"start", "mark"}
    BY <1>9 DEF StartRun, j
  <2> QED BY <2>1 DEF Settles, c, j
<1>10. CASE Work
  <2>1. /\ UNCHANGED <<job, pending>> /\ worker = "work"
        /\ \/ worker' = "finish" /\ content' = IF content[c] = "none" THEN content
                                              ELSE [content EXCEPT ![c] = "READY"]
           \/ /\ content' = content \/ (content[c] # "none" /\ content' = [content EXCEPT ![c] = "READY"])
              /\ worker' \in {"start", "mark"}
    BY <1>10 DEF Work, c, j
  <2> QED BY <2>1 DEF Settles, c, j
<1>11. CASE FinishRun
  <2>1. /\ UNCHANGED <<content, pending>> /\ worker = "finish"
        /\ \/ worker' = "ack" /\ job' = IF job[j] = "none" THEN job ELSE [job EXCEPT ![j] = "SUCCEEDED"]
           \/ /\ job' = job \/ (job[j] # "none" /\ job' = [job EXCEPT ![j] = "SUCCEEDED"])
              /\ worker' \in {"start", "mark"}
    BY <1>11 DEF FinishRun, j
  <2> QED BY <2>1 DEF Settles, c, j
<1>12. CASE MarkFailed
  <2>1. /\ pending' = pending /\ worker = "mark"
        /\ \/ FailRows(j) /\ worker' = "dlq"
           \/ (FailRows(j) \/ UNCHANGED rows) /\ worker' = "idle"
    BY <1>12 DEF MarkFailed, Abandon, j
  <2>2. FailRows(j) => \/ job[j] = "none" /\ content' = content /\ job' = job
                       \/ /\ job' = [job EXCEPT ![j] = "FAILED"] /\ job[j] # "none"
                          /\ content' = IF content[c] = "none" THEN content ELSE [content EXCEPT ![c] = "FAILED"]
    BY DEF FailRows, c
  <2> QED BY <2>1, <2>2 DEF Settles, c, j
<1>13. CASE Ack \/ Delete \/ AddToDlq \/ AckDead \/ DeleteDead
  <2>1. /\ UNCHANGED <<content, job>>
        /\ worker \in {"ack", "del", "dlq", "ackDead", "delDead"}
        /\ ~Fault("ack") => worker' \in {"del", "idle", "ackDead", "delDead"}
    BY <1>13 DEF Ack, Delete, AddToDlq, AckDead, DeleteDead, NextEntry, Abandon
  <2> QED BY <2>1 DEF Settles, c, j
<1> QED BY <1>9, <1>10, <1>11, <1>12, <1>13

\* So the steps on the current entry keep what is at rest true.
LEMMA EntryRest ==
  ASSUME IInv, RestInv,
         \/ StartRun \/ Work \/ FinishRun \/ Ack \/ Delete
         \/ MarkFailed \/ AddToDlq \/ AckDead \/ DeleteDead
  PROVE  RestInv'
<1>1. worker # "idle" /\ Handled /\ (Kept \/ Left)
  BY EntryStep
<1>2. PICK x \in Entry : x = Current
  BY <1>1, CurrentFacts
<1>3. PICK j \in Jobs : j = x.job
  BY DEF Entry
<1>4. PICK c \in Contents : c = ContentOf[j]
  BY IngestionAssumption
<1>5. Settles(x)
  BY <1>2, EntryStepSettles
<1>6. /\ \A d \in Contents \ {c} : content'[d] = content[d]
      /\ \A k \in Jobs \ {j} : job'[k] = job[k]
      /\ \A kinds : Spared(kinds)' => Spared(kinds)
      /\ content[c] = "none" => content'[c] = "none"
      /\ job[j] = "none" <=> job'[j] = "none"
  BY <1>3, <1>4, <1>5 DEF Settles
<1>7. UNCHANGED <<request, pushes>>
  BY <1>1 DEF Handled
<1>8. /\ \A e \in Entry \ {x} : Settling(e)' <=> Settling(e)
      /\ Settling(x) <=> (x \in pending /\ worker \in {"start", "work", "mark"})
      /\ Settling(x)' <=> (x \in pending' /\ worker' \in {"idle", "start", "work", "mark"})
      /\ worker' # "idle" => Current' = x
  BY <1>1, <1>2, EntrySettles
<1>9. RowsInv'
  BY <1>3, <1>4, <1>6, <1>7, IngestionAssumption DEF RestInv, RowsInv
<1>10. \A d \in Contents : /\ Attended(d)' <=> Attended(d)
                           /\ Unrefused(d)' => Unrefused(d)
                           /\ d # c => (Unsettled(d)' <=> Unsettled(d))
                           /\ d # c => ~RunningOf(d) /\ ~RunningOf(d)'
  <2>1. \A d \in Contents : (Attended(d)' <=> Attended(d)) /\ (Unrefused(d)' => Unrefused(d))
    BY <1>6, <1>7 DEF Attended, Unrefused
  <2>2. \A d \in Contents : d # c => (Unsettled(d)' <=> Unsettled(d))
    BY <1>3, <1>4, <1>8 DEF Unsettled
  <2>3. \A d \in Contents : d # c => ~RunningOf(d) /\ ~RunningOf(d)'
    BY <1>2, <1>3, <1>4, <1>8 DEF RunningOf
  <2> QED BY <2>1, <2>2, <2>3
<1>11. Settling(x)' => Unsettled(c)'
  BY <1>3, <1>4 DEF Unsettled
<1>12. Unsettled(c) => Unsettled(c)' \/ (x \in pending /\ worker \in {"start", "work", "mark"})
  BY <1>8 DEF Unsettled
<1>13. ProcessingInv'
  <2> SUFFICES ASSUME NEW d \in Contents, content'[d] = "PROCESSING", Spared({"rows"})'
               PROVE  Attended(d)' \/ Unsettled(d)'
    BY DEF ProcessingInv
  <2>1. CASE d # c
    BY <1>6, <1>10, <2>1 DEF RestInv, ProcessingInv
  <2>2. CASE d = c
    <3>1. /\ content[c] = "PROCESSING"
          /\ worker \in {"start", "work", "mark"} =>
               worker' \in {"idle", "start", "work", "mark"} /\ pending' = pending
      BY <1>3, <1>4, <1>5, <2>2 DEF Settles
    <3>2. Attended(c) \/ Unsettled(c)
      BY <1>6, <3>1 DEF RestInv, ProcessingInv
    <3> QED BY <1>8, <1>10, <1>11, <1>12, <2>2, <3>1, <3>2
  <2> QED BY <2>1, <2>2
<1>14. OutcomeInv'
  <2> SUFFICES ASSUME NEW d \in Contents, Unrefused(d)'
               PROVE  /\ RunningOf(d)' /\ worker' \in {"start", "work", "finish", "ack", "mark"} =>
                           Current' \in pending'
                      /\ RunningOf(d)' /\ worker' \in {"work", "finish"} =>
                           job'[Current'.job] \in {"none", "PROCESSING"}
                      /\ content'[d] = "READY" =>
                           \/ Unsettled(d)'
                           \/ RunningOf(d)' /\ worker' = "finish"
                           \/ \E k \in Jobs : ContentOf[k] = d /\ job'[k] = "SUCCEEDED"
                      /\ content'[d] = "FAILED" =>
                           \/ Unsettled(d)'
                           \/ \E k \in Jobs : ContentOf[k] = d /\ (job'[k] = "FAILED" \/ request'[k] = "rejected")
    BY DEF OutcomeInv
  <2>1. Unrefused(d) /\ Spared({"rows", "ack"})'
    BY <1>10 DEF Unrefused
  <2>2. /\ RunningOf(d) /\ worker \in {"start", "work", "finish", "ack", "mark"} => Current \in pending
        /\ RunningOf(d) /\ worker \in {"work", "finish"} => job[Current.job] \in {"none", "PROCESSING"}
        /\ content[d] = "READY" =>
             \/ Unsettled(d)
             \/ RunningOf(d) /\ worker = "finish"
             \/ \E k \in Jobs : ContentOf[k] = d /\ job[k] = "SUCCEEDED"
        /\ content[d] = "FAILED" =>
             \/ Unsettled(d)
             \/ \E k \in Jobs : ContentOf[k] = d /\ (job[k] = "FAILED" \/ request[k] = "rejected")
    BY <2>1 DEF RestInv, OutcomeInv
  <2>3. CASE d # c
    <3>1. \A k \in Jobs : ContentOf[k] = d => job'[k] = job[k]
      BY <1>4, <1>6, <2>3
    <3> QED BY <1>6, <1>7, <1>10, <2>2, <2>3, <3>1
  <2>4. CASE d = c
    <3>1. RunningOf(c)
      BY <1>1, <1>2, <1>3, <1>4 DEF RunningOf
    <3>2. /\ worker \in {"start", "work", "finish", "ack", "mark"} => x \in pending
          /\ worker \in {"work", "finish"} => job[j] \in {"none", "PROCESSING"}
      BY <1>2, <1>3, <2>2, <2>4, <3>1
    <3>3. /\ worker' \in {"start", "work", "finish", "ack", "mark"} =>
               pending' = pending /\ worker \in {"start", "work", "finish", "mark"}
          /\ worker' \in {"work", "finish"} =>
               \/ job'[j] = "PROCESSING"
               \/ worker = "work" /\ job'[j] = job[j]
          /\ content'[c] \in {"READY", "FAILED"} =>
               \/ worker' \in {"idle", "start", "work", "mark"} /\ pending' = pending
                    /\ worker \in {"start", "work", "finish", "mark"}
               \/ worker = "work" /\ worker' = "finish" /\ content'[c] = "READY"
               \/ worker = "finish" /\ job'[j] = "SUCCEEDED" /\ content'[c] = content[c]
               \/ content'[c] = "FAILED" /\ job'[j] = "FAILED"
               \/ worker \in {"ack", "del", "dlq", "ackDead", "delDead"} /\ UNCHANGED <<content, job>>
      BY <1>3, <1>4, <1>5, <2>1 DEF Settles
    <3>4. RunningOf(d)' /\ worker' \in {"start", "work", "finish", "ack", "mark"} => Current' \in pending'
      BY <1>8, <3>2, <3>3
    <3>5. RunningOf(d)' /\ worker' \in {"work", "finish"} => job'[Current'.job] \in {"none", "PROCESSING"}
      BY <1>3, <1>8, <3>2, <3>3
    <3>6. content'[c] = "READY" => \/ Unsettled(c)'
                                   \/ RunningOf(c)' /\ worker' = "finish"
                                   \/ \E k \in Jobs : ContentOf[k] = c /\ job'[k] = "SUCCEEDED"
      <4> SUFFICES ASSUME content'[c] = "READY", ~Unsettled(c)'
                   PROVE  \/ RunningOf(c)' /\ worker' = "finish"
                          \/ \E k \in Jobs : ContentOf[k] = c /\ job'[k] = "SUCCEEDED"
        OBVIOUS
      <4>1. CASE worker = "work" /\ worker' = "finish"
        BY <1>3, <1>4, <1>8, <4>1 DEF RunningOf
      <4>2. CASE job'[j] = "SUCCEEDED"
        BY <1>4, <4>2
      <4>3. CASE worker \in {"ack", "del", "dlq", "ackDead", "delDead"} /\ UNCHANGED <<content, job>>
        BY <1>12, <2>2, <2>4, <4>3
      <4>4. ~(worker' \in {"idle", "start", "work", "mark"} /\ pending' = pending
               /\ worker \in {"start", "work", "finish", "mark"})
        BY <1>8, <1>11, <3>2
      <4> QED BY <3>3, <4>1, <4>2, <4>3, <4>4
    <3>7. content'[c] = "FAILED" =>
            \/ Unsettled(c)'
            \/ \E k \in Jobs : ContentOf[k] = c /\ (job'[k] = "FAILED" \/ request'[k] = "rejected")
      <4> SUFFICES ASSUME content'[c] = "FAILED", ~Unsettled(c)'
                   PROVE  \E k \in Jobs : ContentOf[k] = c /\ (job'[k] = "FAILED" \/ request'[k] = "rejected")
        OBVIOUS
      <4>1. CASE job'[j] = "FAILED"
        BY <1>4, <4>1
      <4>2. CASE worker = "finish" /\ content'[c] = content[c]
        <5>1. PICK k \in Jobs : ContentOf[k] = c /\ (job[k] = "FAILED" \/ request[k] = "rejected")
          BY <1>12, <2>2, <2>4, <4>2
        <5>2. k = j => job[k] # "FAILED"
          BY <3>2, <4>2
        <5> QED BY <1>6, <1>7, <5>1, <5>2
      <4>3. CASE worker \in {"ack", "del", "dlq", "ackDead", "delDead"} /\ UNCHANGED <<content, job>>
        BY <1>7, <1>12, <2>2, <2>4, <4>3
      <4>4. ~(worker' \in {"idle", "start", "work", "mark"} /\ pending' = pending
               /\ worker \in {"start", "work", "finish", "mark"})
        BY <1>8, <1>11, <3>2
      <4> QED BY <3>3, <4>1, <4>2, <4>3, <4>4
    <3> QED BY <2>4, <3>4, <3>5, <3>6, <3>7
  <2> QED BY <2>3, <2>4
<1> QED BY <1>9, <1>13, <1>14 DEF RestInv

\* Every step keeps what is at rest true.
LEMMA StepRest == IInv /\ RestInv /\ [Next]_vars => RestInv'
<1> SUFFICES ASSUME IInv, RestInv, [Next]_vars PROVE RestInv'
  OBVIOUS
<1>1. ASSUME NEW j \in Jobs, Request(j)
      PROVE  RestInv'
  <2>1. RowsInv'
    BY <1>1, RequestRows DEF RestInv
  <2>2. ProcessingInv' /\ OutcomeInv'
    BY <1>1, RequestProcessing, RequestOutcome, PushRest DEF Request
  <2> QED BY <2>1, <2>2 DEF RestInv
<1>2. CASE \E c \in Contents : DeleteContent(c)
  BY <1>2, DeleteContentRest
<1>3. CASE Worker
  BY <1>3, ReadBatchRest, TakeEntryRest, CrashRest, EntryRest DEF Worker
<1>4. CASE UNCHANGED vars
  <2>1. UNCHANGED <<content, job, request, pushes, log, pending, dropped, worker, batch, faults>>
    BY <1>4 DEF vars, rows, apiVars, streamVars, workerVars
  <2>2. \A c : (Unsettled(c)' <=> Unsettled(c)) /\ (RunningOf(c)' <=> RunningOf(c)) /\ Current' = Current
    BY <2>1, StreamCalm
  <2>3. \A kinds : Spared(kinds)' <=> Spared(kinds)
    BY <2>1, NoFault
  <2>4. \A c : (Attended(c)' <=> Attended(c)) /\ (Unrefused(c)' <=> Unrefused(c))
    BY <2>1, <2>3 DEF Attended, Unrefused
  <2> QED BY <2>1, <2>2, <2>3, <2>4 DEF RestInv, RowsInv, ProcessingInv, OutcomeInv
<1> QED BY <1>1, <1>2, <1>3, <1>4 DEF Next

\* A content at rest is not left PROCESSING, unless a request died over it or a
\* row access failed; and what its row says is what its jobs came to: for any
\* number of uploads and replacements of it, retries, copies in the stream,
\* trimmed entries and crashes (upload-content, replace-content-file, the worker).
THEOREM RestingTrue == Spec => []RestingRowsAreTrue
<1>1. Init => RestInv
  <2> SUFFICES ASSUME Init PROVE RestInv
    OBVIOUS
  <2>1. RowsInv
    BY DEF Init, RowsInv
  <2>2. ProcessingInv /\ OutcomeInv
    BY DEF Init, ProcessingInv, OutcomeInv, RunningOf
  <2> QED BY <2>1, <2>2 DEF RestInv
<1>2. IInv /\ RestInv => RestingRowsAreTrue
  <2> SUFFICES ASSUME IInv, RestInv, NEW c \in Contents, Quiet(c)
               PROVE  /\ content[c] = "PROCESSING" /\ Spared({"rows"}) =>
                           \E j \in Jobs : ContentOf[j] = c /\ request[j] = "dead"
                      /\ (\A j \in Jobs : ContentOf[j] = c => pushes[j] = 0 \/ request[j] = "accepted")
                           /\ Spared({"rows", "ack"}) =>
                             /\ content[c] = "READY" => \E j \in Jobs : ContentOf[j] = c /\ job[j] = "SUCCEEDED"
                             /\ content[c] = "FAILED" =>
                                  \E j \in Jobs : ContentOf[j] = c /\ (job[j] = "FAILED" \/ request[j] = "rejected")
    BY DEF RestingRowsAreTrue, NoContentStuckProcessing, RowAgreesWithJobs
  <2>1. \A e \in Entry : Settling(e) => e \in Stream \cup pending \cup dropped
    BY DEF Settling
  <2>2. ~Unsettled(c) /\ ~RunningOf(c)
    BY <2>1 DEF Quiet, Unsettled, RunningOf
  <2>3. Attended(c) => \E j \in Jobs : ContentOf[j] = c /\ request[j] = "dead"
    BY DEF Attended, Quiet, InFlight
  <2>4. ASSUME \A j \in Jobs : ContentOf[j] = c => pushes[j] = 0 \/ request[j] = "accepted",
               Spared({"rows", "ack"})
        PROVE  Unrefused(c)
    BY <2>4 DEF Unrefused
  <2> QED BY <2>2, <2>3, <2>4 DEF RestInv, ProcessingInv, OutcomeInv
<1> QED BY <1>1, <1>2, Invariance, StepRest, PTL DEF Spec

(***************************************************************************)
(* ContentFiles: what a request and the worker hold at each step, what the *)
(* one that owns the row guarantees, and what a request alone leaves.      *)
(***************************************************************************)

\* Steps of an upload or a replacement once its row is written, until it is marked failed.
RowWritten == {"store", "dropFile", "dropThumb", "enqueue", "undoRead", "undoWrite"}
\* All the steps of an upload or a replacement.
Writing == {"newFile", "newRow", "erase"} \cup RowWritten
\* Those of the worker once it has the file.
Examining == {"makeThumb", "dropThumb", "read", "write"}

\* What a request holds.
RequestHolds(r) ==
  /\ step[r] \in {"store", "erase"} => OperationOf[r] = "upload"
  /\ step[r] \in {"newFile", "newRow", "dropFile", "dropThumb"} => OperationOf[r] = "replace"
  /\ step[r] \in {"enqueue", "undoRead", "undoWrite"} => OperationOf[r] \in {"upload", "replace"}
  /\ step[r] \in {"patchRead", "patchWrite"} => OperationOf[r] = "patch"
  /\ step[r] \in {"deleteRow", "eraseFile", "eraseThumb"} => OperationOf[r] = "delete"
  /\ step[r] \in Writing => target[r] \in Mimes
  /\ step[r] \in {"newFile", "newRow", "dropFile", "dropThumb", "undoWrite", "patchRead",
                  "patchWrite", "deleteRow", "eraseFile", "eraseThumb"} => seen[r] \in Row
  /\ r \in uploaded => OperationOf[r] = "upload"
  /\ step[r] \in {"eraseFile", "eraseThumb"} => row = None

RequestsHold == \A r \in Requests : RequestHolds(r)

\* What the worker holds.
WorkerHolds ==
  /\ stage # "idle" => run.job \in Requests /\ run.attempt \in 1..MaxAttempts
  /\ stage \in {"download"} \cup Examining => run.content \in Row
  /\ stage \in Examining => run.data \in Requests
  /\ stage = "write" => run.base \in Row
  /\ stage \in {"start", "load", "download", "makeThumb"} => ~run.made

\* Before the first request there is nothing.
NothingYet ==
  (\A r \in Requests : step[r] = "idle") =>
     row = None /\ queue = << >> /\ stage = "idle" /\ \A m \in Mimes : files[m] = None

\* The history says what it should of the requests in progress.
MeetNow ==
  /\ alone => apart
  /\ alone => \A q, r \in Open : q = r
  /\ apart => \A q, r \in Open : q = r \/ "delete" \in {OperationOf[q], OperationOf[r]}

FilesBase == FilesTypeOK /\ RequestsHold /\ WorkerHolds /\ NothingYet /\ MeetNow

\* A job waits or runs.
Pending == queue # << >> \/ stage # "idle"

\* There is at most one, beside no request that writes, and its row is of its file.
OneJob ==
  Pending => /\ Len(queue) <= 1 /\ (stage # "idle" => queue = << >>)
             /\ \A r \in Requests : step[r] \notin Writing
             /\ row # None => row.status = "PROCESSING" /\ files[row.key] = row.sum

\* A request that writes owns the row until its job is in the queue; a patch writes
\* back what is there still.
OwnsRow(r) ==
  /\ row # None /\ step[r] \in RowWritten => row.status = "PROCESSING"
  /\ row # None /\ step[r] = "erase" => row.status # "READY"
  /\ row # None /\ step[r] = "newRow" => files[target[r]] = r
  /\ row # None /\ step[r] \in {"store", "dropFile", "dropThumb", "enqueue"} =>
       row.key = target[r] /\ row.sum = r /\ (step[r] # "store" => files[target[r]] = r)
  /\ row # None /\ step[r] = "undoWrite" => seen[r] = row
  /\ row # None /\ step[r] \in {"patchRead", "patchWrite"} => seen[r].sum = row.sum
  /\ row # None /\ step[r] = "patchWrite" => seen[r].key = row.key /\ (seen[r].thumb => row.thumb)

WritersOwnRow == \A r \in Requests : OwnsRow(r)

\* What the worker holds is of the row it works for.
WorkerKnowsRow ==
  row # None =>
    /\ stage \in {"download"} \cup Examining => run.content.key = row.key
    /\ stage \in Examining => run.data = row.sum /\ (run.made => thumb = run.data)
    /\ stage = "write" => run.base.key = row.key /\ run.base.sum = row.sum

\* A thumbnail is that of the file, and a READY row has its file.
RowIsTrue ==
  row # None => /\ row.thumb => row.status = "READY" /\ thumb = row.sum
                /\ row.status = "READY" => files[row.key] # None

FilesMatch == OneJob /\ WritersOwnRow /\ WorkerKnowsRow /\ RowIsTrue

NoPatch == \A r \in Requests : OperationOf[r] = "patch" => step[r] = "idle"

\* Without patches: the columns are of one file, once READY of the one in storage.
RowDescribes ==
  row # None /\ NoPatch =>
    /\ row.size = row.sum
    /\ row.status = "READY" /\ (\A r \in Requests : step[r] # "newRow") =>
         row.meta = row.sum /\ files[row.key] = row.sum

\* A request alone: its row is there, and has the key that it read.
RequestLeaves(r) ==
  /\ step[r] \in Writing \cup {"deleteRow"} => row # None
  /\ step[r] \in {"newFile", "newRow", "deleteRow"} => seen[r].key = row.key

\* The key is the row's, or the request that is alone will write or erase it.
LeftFor(m) ==
  \/ row # None /\ row.key = m
  \/ \E r \in Requests : step[r] = "newRow" /\ target[r] = m
  \/ \E r \in Requests : step[r] \in {"dropFile", "eraseFile"} /\ seen[r].key = m

NothingLeft ==
  /\ \A r \in Requests : RequestLeaves(r)
  /\ \A m \in Mimes : files[m] # None => LeftFor(m)

\* The failures after which files may be left over, or described wrongly.
Disturbing == {"store", "rows", "api", "late"}

\* The inductive invariant: each part with the history it needs.
FilesInv ==
  /\ FilesBase
  /\ apart /\ Without({"late"}) => FilesMatch
  /\ apart /\ Without(Disturbing) => RowDescribes
  /\ alone /\ Without(Disturbing) => NothingLeft

\* A step of a request: its type.
LEMMA ThenTyped ==
  ASSUME FilesTypeOK, NEW r \in Requests, NEW s \in Step, Then(r, s)
  PROVE  step' \in [Requests -> Step]
BY DEF FilesTypeOK, Then

\* Failures are counted.
LEMMA FailTyped ==
  ASSUME FilesTypeOK, NEW kind, Fail(kind)
  PROVE  failures' \in [Failures -> Nat]
BY DEF FilesTypeOK, Fail

\* What is put under a key is a file.
LEMMA PutTyped ==
  ASSUME FilesTypeOK, NEW m \in Mimes, NEW f \in File, Put(m, f)
  PROVE  files' \in [Mimes -> File]
BY DEF FilesTypeOK, Put

\* The columns of a row.
LEMMA RowFields ==
  ASSUME NEW x \in Row
  PROVE  /\ x.key \in Mimes /\ x.mime \in Mimes /\ x.sum \in Requests /\ x.size \in Requests
         /\ x.meta \in File /\ x.thumb \in BOOLEAN /\ x.status \in {"PROCESSING", "READY", "FAILED"}
BY DEF Row

\* A row whose status is set is a row.
LEMMA RowStatus ==
  ASSUME NEW x \in Row, NEW s \in {"PROCESSING", "READY", "FAILED"}
  PROVE  [x EXCEPT !.status = s] \in Row
BY DEF Row

\* Setting the status changes no other column.
LEMMA StatusOnly ==
  ASSUME NEW x \in Row, NEW s \in {"PROCESSING", "READY", "FAILED"}
  PROVE  LET y == [x EXCEPT !.status = s]
         IN  /\ y # None /\ y.status = s /\ y.key = x.key /\ y.sum = x.sum
             /\ y.size = x.size /\ y.meta = x.meta /\ y.thumb = x.thumb
BY FilesAssumption DEF Row

\* Nor does writing back the checksum and the size.
LEMMA SumOnly ==
  ASSUME NEW x \in Row, NEW y \in Row
  PROVE  LET z == [x EXCEPT !.sum = y.sum, !.size = y.size]
         IN  z.sum = y.sum /\ z.key = x.key /\ z.thumb = x.thumb
BY DEF Row

\* The row that a patch writes back is a row.
LEMMA RowSum ==
  ASSUME NEW x \in Row, NEW y \in Row
  PROVE  [x EXCEPT !.sum = y.sum, !.size = y.size] \in Row
BY DEF Row

\* The row that the worker writes is a row.
LEMMA ReadyRow ==
  ASSUME NEW x \in Row, NEW y \in Row, NEW f \in Requests, NEW b \in BOOLEAN
  PROVE  [x EXCEPT !.status = "READY", !.mime = y.mime, !.size = f, !.meta = f, !.thumb = b] \in Row
BY DEF Row, File

\* The row of a file just stored is a row.
LEMMA FreshRow ==
  ASSUME NEW r \in Requests, NEW m \in Mimes
  PROVE  Fresh(r, m) \in Row
BY DEF Row, Fresh, File

\* What the worker holds, field by field.
LEMMA RunFields ==
  ASSUME FilesTypeOK
  PROVE  /\ run = [job |-> run.job, attempt |-> run.attempt, content |-> run.content, data |-> run.data,
                   made |-> run.made, base |-> run.base]
         /\ run.job \in File /\ run.attempt \in 0..MaxAttempts /\ run.content \in Row \cup {None}
         /\ run.data \in File /\ run.made \in BOOLEAN /\ run.base \in Row \cup {None}
BY DEF FilesTypeOK, Run

\* One more entry, or two, in the queue.
LEMMA QueueTyped ==
  ASSUME NEW s \in Seq(Requests), NEW e \in Requests
  PROVE  Append(s, e) \in Seq(Requests) /\ s \o <<e, e>> \in Seq(Requests)
<1>1. <<e, e>> \in Seq(Requests)
  OBVIOUS
<1> QED BY <1>1, AppendProperties, ConcatProperties

\* Holding nothing.
LEMMA NoRunTyped ==
  NoRun \in Run
BY FilesAssumption DEF NoRun, Run, File

\* Holding only the job.
LEMMA NewRunTyped ==
  ASSUME NEW j \in Requests, NEW n \in 1..MaxAttempts
  PROVE  [NoRun EXCEPT !.job = j, !.attempt = n] \in Run
<1>1. n \in 0..MaxAttempts
  BY FilesAssumption
<1> QED BY <1>1, NoRunTyped DEF Run, File

\* A run that throws leaves the worker with a job.
LEMMA ThrowTyped ==
  ASSUME FilesTypeOK, WorkerHolds, stage # "idle", Throw
  PROVE  run' \in Run
<1>1. run.job \in Requests /\ run.attempt \in 1..MaxAttempts
  BY DEF WorkerHolds
<1>2. CASE run.attempt < MaxAttempts
  <2>1. run.attempt + 1 \in 1..MaxAttempts
    BY <1>1, <1>2, FilesAssumption
  <2> QED BY <1>1, <1>2, <2>1, NewRunTyped DEF Throw
<1>3. CASE ~(run.attempt < MaxAttempts)
  BY <1>3 DEF Throw, FilesTypeOK
<1> QED BY <1>2, <1>3

\* Every step keeps the types.
LEMMA FilesTypeStep ==
  ASSUME FilesTypeOK, RequestsHold, WorkerHolds, FilesNext
  PROVE  FilesTypeOK'
<1>m. alone' \in BOOLEAN /\ apart' \in BOOLEAN
  BY DEF FilesNext, Meet
<1>1. ASSUME NEW r \in Requests, CreateRow(r) PROVE FilesTypeOK'
  <2>1. step' \in [Requests -> Step]
    BY <1>1, ThenTyped DEF CreateRow, Begin, Step
  <2>2. row' \in Row \cup {None}
    BY <1>1, FreshRow DEF CreateRow, Begin
  <2>3. target' \in [Requests -> Mimes \cup {None}]
    BY <1>1 DEF CreateRow, Begin, FilesTypeOK
  <2> QED BY <1>1, <1>m, <2>1, <2>2, <2>3 DEF CreateRow, Begin, runVars, FilesTypeOK
<1>2. ASSUME NEW r \in Requests, StoreFile(r) PROVE FilesTypeOK'
  <2>1. step' \in [Requests -> Step]
    BY <1>2, ThenTyped DEF StoreFile, Step
  <2>2. failures' \in [Failures -> Nat]
    BY <1>2, FailTyped DEF StoreFile, FilesTypeOK
  <2>3. files' \in [Mimes -> File]
    BY <1>2, PutTyped DEF StoreFile, RequestsHold, RequestHolds, Writing, RowWritten, File,
       FilesTypeOK
  <2> QED BY <1>2, <1>m, <2>1, <2>2, <2>3 DEF StoreFile, runVars, FilesTypeOK
<1>3. ASSUME NEW r \in Requests, Enqueue(r) PROVE FilesTypeOK'
  <2>1. step' \in [Requests -> Step]
    BY <1>3, ThenTyped DEF Enqueue, Step
  <2>2. failures' \in [Failures -> Nat]
    BY <1>3, FailTyped DEF Enqueue, FilesTypeOK
  <2>3. Append(queue, r) \in Seq(Requests) /\ queue \o <<r, r>> \in Seq(Requests)
    BY <1>3, QueueTyped DEF Enqueue, FilesTypeOK
  <2>4. queue' \in Seq(Requests)
    BY <1>3, <2>3 DEF Enqueue, FilesTypeOK
  <2> QED BY <1>3, <1>m, <2>1, <2>2, <2>3, <2>4 DEF Enqueue, runVars, FilesTypeOK
<1>4. ASSUME NEW r \in Requests, UndoRead(r) PROVE FilesTypeOK'
  <2>1. step' \in [Requests -> Step]
    BY <1>4, ThenTyped DEF UndoRead, AfterUndo, Step
  <2>2. failures' \in [Failures -> Nat]
    BY <1>4, FailTyped DEF UndoRead, AfterUndo, FilesTypeOK
  <2>3. seen' \in [Requests -> Row \cup {None}]
    BY <1>4 DEF UndoRead, AfterUndo, FilesTypeOK
  <2> QED BY <1>4, <1>m, <2>1, <2>2, <2>3 DEF UndoRead, AfterUndo, runVars, FilesTypeOK
<1>5. ASSUME NEW r \in Requests, UndoWrite(r) PROVE FilesTypeOK'
  <2>1. step' \in [Requests -> Step]
    BY <1>5, ThenTyped DEF UndoWrite, AfterUndo, Step
  <2>2. failures' \in [Failures -> Nat]
    BY <1>5, FailTyped DEF UndoWrite, AfterUndo, FilesTypeOK
  <2>3. seen[r] \in Row
    BY <1>5 DEF UndoWrite, AfterUndo, RequestsHold, RequestHolds
  <2>4. [seen[r] EXCEPT !.status = "FAILED"] \in Row
    BY <1>5, <2>3, RowStatus DEF UndoWrite, AfterUndo
  <2>5. row' \in Row \cup {None}
    BY <1>5, <2>4 DEF UndoWrite, AfterUndo, FilesTypeOK
  <2> QED BY <1>5, <1>m, <2>1, <2>2, <2>3, <2>4, <2>5 DEF UndoWrite, AfterUndo, runVars,
     FilesTypeOK
<1>6. ASSUME NEW r \in Requests, EraseUpload(r) PROVE FilesTypeOK'
  <2>1. step' \in [Requests -> Step]
    BY <1>6, ThenTyped DEF EraseUpload, Step
  <2>2. failures' \in [Failures -> Nat]
    BY <1>6, FailTyped DEF EraseUpload, FilesTypeOK
  <2>3. files' \in [Mimes -> File]
    BY <1>6, PutTyped DEF EraseUpload, RequestsHold, RequestHolds, Writing, RowWritten, File,
       FilesTypeOK
  <2> QED BY <1>6, <1>m, <2>1, <2>2, <2>3 DEF EraseUpload, runVars, FilesTypeOK
<1>7. ASSUME NEW r \in Requests, ReadForReplace(r) PROVE FilesTypeOK'
  <2>1. step' \in [Requests -> Step]
    BY <1>7, ThenTyped DEF ReadForReplace, Begin, Step
  <2>2. target' \in [Requests -> Mimes \cup {None}]
    BY <1>7 DEF ReadForReplace, Begin, FilesTypeOK
  <2>3. seen' \in [Requests -> Row \cup {None}]
    BY <1>7 DEF ReadForReplace, Begin, FilesTypeOK
  <2> QED BY <1>7, <1>m, <2>1, <2>2, <2>3 DEF ReadForReplace, Begin, runVars, FilesTypeOK
<1>8. ASSUME NEW r \in Requests, StoreNewFile(r) PROVE FilesTypeOK'
  <2>1. step' \in [Requests -> Step]
    BY <1>8, ThenTyped DEF StoreNewFile, Step
  <2>2. failures' \in [Failures -> Nat]
    BY <1>8, FailTyped DEF StoreNewFile, FilesTypeOK
  <2>3. files' \in [Mimes -> File]
    BY <1>8, PutTyped DEF StoreNewFile, RequestsHold, RequestHolds, Writing, RowWritten,
       File, FilesTypeOK
  <2> QED BY <1>8, <1>m, <2>1, <2>2, <2>3 DEF StoreNewFile, runVars, FilesTypeOK
<1>9. ASSUME NEW r \in Requests, RewriteRow(r) PROVE FilesTypeOK'
  <2>1. step' \in [Requests -> Step]
    BY <1>9, ThenTyped DEF RewriteRow, Step
  <2>2. failures' \in [Failures -> Nat]
    BY <1>9, FailTyped DEF RewriteRow, FilesTypeOK
  <2>3. row' \in Row \cup {None}
    BY <1>9, FreshRow DEF RewriteRow, RequestsHold, RequestHolds, Writing, RowWritten,
       FilesTypeOK
  <2> QED BY <1>9, <1>m, <2>1, <2>2, <2>3 DEF RewriteRow, runVars, FilesTypeOK
<1>10. ASSUME NEW r \in Requests, DropOldFile(r) PROVE FilesTypeOK'
  <2>1. step' \in [Requests -> Step]
    BY <1>10, ThenTyped DEF DropOldFile, Step
  <2>2. failures' \in [Failures -> Nat]
    BY <1>10, FailTyped DEF DropOldFile, FilesTypeOK
  <2>3. files' \in [Mimes -> File]
    BY <1>10, PutTyped, RowFields DEF DropOldFile, RequestsHold, RequestHolds, File, FilesTypeOK
  <2> QED BY <1>10, <1>m, <2>1, <2>2, <2>3 DEF DropOldFile, runVars, FilesTypeOK
<1>11. ASSUME NEW r \in Requests, DropOldThumb(r) PROVE FilesTypeOK'
  <2>1. step' \in [Requests -> Step]
    BY <1>11, ThenTyped DEF DropOldThumb, Step
  <2>2. failures' \in [Failures -> Nat]
    BY <1>11, FailTyped DEF DropOldThumb, FilesTypeOK
  <2>3. thumb' \in File
    BY <1>11 DEF DropOldThumb, File, FilesTypeOK
  <2> QED BY <1>11, <1>m, <2>1, <2>2, <2>3 DEF DropOldThumb, runVars, FilesTypeOK
<1>12. ASSUME NEW r \in Requests, BeginPatch(r) PROVE FilesTypeOK'
  <2>1. step' \in [Requests -> Step]
    BY <1>12, ThenTyped DEF BeginPatch, Begin, Step
  <2>2. seen' \in [Requests -> Row \cup {None}]
    BY <1>12 DEF BeginPatch, Begin, FilesTypeOK
  <2> QED BY <1>12, <1>m, <2>1, <2>2 DEF BeginPatch, Begin, runVars, FilesTypeOK
<1>13. ASSUME NEW r \in Requests, PatchRead(r) PROVE FilesTypeOK'
  <2>1. step' \in [Requests -> Step]
    BY <1>13, ThenTyped DEF PatchRead, Step
  <2>2. seen[r] \in Row
    BY <1>13 DEF PatchRead, RequestsHold, RequestHolds
  <2>3. row # None => [row EXCEPT !.sum = seen[r].sum, !.size = seen[r].size] \in Row
    BY <1>13, <2>2, RowSum DEF PatchRead, FilesTypeOK
  <2>4. seen' \in [Requests -> Row \cup {None}]
    BY <1>13, <2>3 DEF PatchRead, FilesTypeOK
  <2> QED BY <1>13, <1>m, <2>1, <2>2, <2>3, <2>4 DEF PatchRead, runVars, FilesTypeOK
<1>14. ASSUME NEW r \in Requests, PatchWrite(r) PROVE FilesTypeOK'
  <2>1. step' \in [Requests -> Step]
    BY <1>14, ThenTyped DEF PatchWrite, Step
  <2>2. seen[r] \in Row
    BY <1>14 DEF PatchWrite, RequestsHold, RequestHolds
  <2>3. row # None => [seen[r] EXCEPT !.status = row.status] \in Row
    BY <1>14, <2>2, RowStatus, RowFields DEF PatchWrite, FilesTypeOK
  <2>4. row' \in Row \cup {None}
    BY <1>14, <2>3 DEF PatchWrite
  <2> QED BY <1>14, <1>m, <2>1, <2>2, <2>3, <2>4 DEF PatchWrite, runVars, FilesTypeOK
<1>15. ASSUME NEW r \in Requests, BeginDelete(r) PROVE FilesTypeOK'
  <2>1. step' \in [Requests -> Step]
    BY <1>15, ThenTyped DEF BeginDelete, Begin, Step
  <2>2. seen' \in [Requests -> Row \cup {None}]
    BY <1>15 DEF BeginDelete, Begin, FilesTypeOK
  <2> QED BY <1>15, <1>m, <2>1, <2>2 DEF BeginDelete, Begin, runVars, FilesTypeOK
<1>16. ASSUME NEW r \in Requests, DeleteRow(r) PROVE FilesTypeOK'
  <2>1. step' \in [Requests -> Step]
    BY <1>16, ThenTyped DEF DeleteRow, Step
  <2>2. failures' \in [Failures -> Nat]
    BY <1>16, FailTyped DEF DeleteRow, FilesTypeOK
  <2>3. row' \in Row \cup {None}
    BY <1>16 DEF DeleteRow, FilesTypeOK
  <2> QED BY <1>16, <1>m, <2>1, <2>2, <2>3 DEF DeleteRow, runVars, FilesTypeOK
<1>17. ASSUME NEW r \in Requests, EraseFile(r) PROVE FilesTypeOK'
  <2>1. step' \in [Requests -> Step]
    BY <1>17, ThenTyped DEF EraseFile, Step
  <2>2. failures' \in [Failures -> Nat]
    BY <1>17, FailTyped DEF EraseFile, FilesTypeOK
  <2>3. files' \in [Mimes -> File]
    BY <1>17, PutTyped, RowFields DEF EraseFile, RequestsHold, RequestHolds, File, FilesTypeOK
  <2> QED BY <1>17, <1>m, <2>1, <2>2, <2>3 DEF EraseFile, runVars, FilesTypeOK
<1>18. ASSUME NEW r \in Requests, EraseThumb(r) PROVE FilesTypeOK'
  <2>1. step' \in [Requests -> Step]
    BY <1>18, ThenTyped DEF EraseThumb, Step
  <2>2. failures' \in [Failures -> Nat]
    BY <1>18, FailTyped DEF EraseThumb, FilesTypeOK
  <2>3. thumb' \in File
    BY <1>18 DEF EraseThumb, File, FilesTypeOK
  <2> QED BY <1>18, <1>m, <2>1, <2>2, <2>3 DEF EraseThumb, runVars, FilesTypeOK
<1>19. ASSUME NEW r \in Requests, ApiDies(r) PROVE FilesTypeOK'
  <2>1. step' \in [Requests -> Step]
    BY <1>19, ThenTyped DEF ApiDies, Step
  <2>2. failures' \in [Failures -> Nat]
    BY <1>19, FailTyped DEF ApiDies
  <2> QED BY <1>19, <1>m, <2>1, <2>2 DEF ApiDies, runVars, FilesTypeOK
<1>20. ASSUME TakeJob PROVE FilesTypeOK'
  <2>1. stage' \in Stage
    BY <1>20 DEF TakeJob, Stage
  <2>2. queue' \in Seq(Requests) /\ Head(queue) \in Requests
    BY <1>20, HeadTailProperties DEF TakeJob, FilesTypeOK
  <2>3. run' = [NoRun EXCEPT !.job = Head(queue), !.attempt = 1] /\ 1 \in 1..MaxAttempts
    BY <1>20, FilesAssumption DEF TakeJob
  <2>4. [NoRun EXCEPT !.job = Head(queue), !.attempt = 1] \in Run
    BY <1>20, <2>2, <2>3, NewRunTyped DEF TakeJob
  <2>5. run' \in Run
    BY <1>20, <2>3, <2>4 DEF TakeJob
  <2> QED BY <1>20, <1>m, <2>1, <2>2, <2>3, <2>4, <2>5 DEF TakeJob, requestVars, FilesTypeOK
<1>21. ASSUME FindJob PROVE FilesTypeOK'
  <2>1. stage' \in Stage
    BY <1>21 DEF FindJob, Stage
  <2>2. run' \in Run
    BY <1>21, NoRunTyped DEF FindJob, FilesTypeOK
  <2> QED BY <1>21, <1>m, <2>1, <2>2 DEF FindJob, requestVars, FilesTypeOK
<1>22. ASSUME LoadContent PROVE FilesTypeOK'
  <2>1. stage' \in Stage
    BY <1>22 DEF LoadContent, Throw, Stage
  <2>2. Throw => run' \in Run
    BY <1>22, ThrowTyped DEF LoadContent
  <2>3. run' \in Run
    BY <1>22, <2>2, RunFields DEF LoadContent, Run, FilesTypeOK
  <2> QED BY <1>22, <1>m, <2>1, <2>2, <2>3 DEF LoadContent, requestVars, FilesTypeOK
<1>23. ASSUME Download PROVE FilesTypeOK'
  <2>1. stage' \in Stage
    BY <1>23 DEF Download, Throw, Stage
  <2>2. failures' \in [Failures -> Nat]
    BY <1>23, FailTyped DEF Download, FilesTypeOK
  <2>3. files[run.content.key] \in File
    BY <1>23, RowFields DEF Download, WorkerHolds, FilesTypeOK
  <2>4. Throw => run' \in Run
    BY <1>23, ThrowTyped DEF Download
  <2>5. run' \in Run
    BY <1>23, <2>3, <2>4, RunFields DEF Download, Run
  <2> QED BY <1>23, <1>m, <2>1, <2>2, <2>3, <2>4, <2>5 DEF Download, requestVars, FilesTypeOK
<1>24. ASSUME MakeThumb PROVE FilesTypeOK'
  <2>1. stage' \in Stage
    BY <1>24 DEF MakeThumb, Stage
  <2>2. failures' \in [Failures -> Nat]
    BY <1>24, FailTyped DEF MakeThumb, FilesTypeOK
  <2>3. run' \in Run
    BY <1>24, RunFields DEF MakeThumb, Run, FilesTypeOK
  <2>4. thumb' \in File
    BY <1>24, RunFields DEF MakeThumb, FilesTypeOK
  <2> QED BY <1>24, <1>m, <2>1, <2>2, <2>3, <2>4 DEF MakeThumb, requestVars, FilesTypeOK
<1>25. ASSUME DropStaleThumb PROVE FilesTypeOK'
  <2>1. stage' \in Stage
    BY <1>25 DEF DropStaleThumb, Stage
  <2>2. failures' \in [Failures -> Nat]
    BY <1>25, FailTyped DEF DropStaleThumb, FilesTypeOK
  <2>3. thumb' \in File
    BY <1>25 DEF DropStaleThumb, File, FilesTypeOK
  <2> QED BY <1>25, <1>m, <2>1, <2>2, <2>3 DEF DropStaleThumb, requestVars, FilesTypeOK
<1>26. ASSUME ReadRow PROVE FilesTypeOK'
  <2>1. stage' \in Stage
    BY <1>26 DEF ReadRow, Stage
  <2>2. run' \in Run
    BY <1>26, RunFields, NoRunTyped DEF ReadRow, Run, FilesTypeOK
  <2> QED BY <1>26, <1>m, <2>1, <2>2 DEF ReadRow, requestVars, FilesTypeOK
<1>27. ASSUME WriteReady PROVE FilesTypeOK'
  <2>1. stage' \in Stage
    BY <1>27 DEF WriteReady, Throw, Stage
  <2>2. Throw => run' \in Run
    BY <1>27, ThrowTyped DEF WriteReady
  <2>3. run' \in Run
    BY <1>27, <2>2, NoRunTyped DEF WriteReady
  <2>4. run.base \in Row /\ run.content \in Row /\ run.data \in Requests /\ run.made \in BOOLEAN
    BY <1>27, RunFields DEF WriteReady, WorkerHolds, Examining
  <2>5. [run.base EXCEPT !.status = "READY", !.mime = run.content.mime, !.size = run.data, !.meta = run.data, !.thumb = run.made] \in Row
    BY <1>27, <2>4, ReadyRow DEF WriteReady
  <2>6. row' \in Row \cup {None}
    BY <1>27, <2>5 DEF WriteReady
  <2> QED BY <1>27, <1>m, <2>1, <2>2, <2>3, <2>4, <2>5, <2>6 DEF WriteReady, requestVars,
     FilesTypeOK
<1>28. ASSUME GiveUp PROVE FilesTypeOK'
  <2>1. stage' \in Stage
    BY <1>28 DEF GiveUp, Stage
  <2>2. row' \in Row \cup {None}
    BY <1>28, RowStatus DEF GiveUp, FilesTypeOK
  <2>3. run' \in Run
    BY <1>28, NoRunTyped DEF GiveUp
  <2> QED BY <1>28, <1>m, <2>1, <2>2, <2>3 DEF GiveUp, requestVars, FilesTypeOK
<1>29. ASSUME WorkerDies PROVE FilesTypeOK'
  <2>1. stage' \in Stage
    BY <1>29 DEF WorkerDies, Stage
  <2>2. failures' \in [Failures -> Nat]
    BY <1>29, FailTyped DEF WorkerDies
  <2>3. run' \in Run
    BY <1>29, NoRunTyped DEF WorkerDies
  <2> QED BY <1>29, <1>m, <2>1, <2>2, <2>3 DEF WorkerDies, requestVars, FilesTypeOK
<1> QED BY <1>1, <1>2, <1>3, <1>4, <1>5, <1>6, <1>7, <1>8, <1>9, <1>10, <1>11, <1>12, <1>13,
   <1>14, <1>15, <1>16, <1>17, <1>18, <1>19, <1>20, <1>21, <1>22, <1>23, <1>24, <1>25, <1>26, <1>27, <1>28, <1>29 DEF FilesNext, ServeRequest, RunWorker

\* A run that throws.
LEMMA ThrowHolds ==
  ASSUME FilesTypeOK, WorkerHolds, stage # "idle", Throw
  PROVE  /\ stage' \in {"start", "fail"}
         /\ (stage' = "start" => ~run'.made)
         /\ run'.job \in Requests /\ run'.attempt \in 1..MaxAttempts
<1>1. run.job \in Requests /\ run.attempt \in 1..MaxAttempts
  BY DEF WorkerHolds
<1>2. CASE run.attempt < MaxAttempts
  <2>1. run.attempt + 1 \in 1..MaxAttempts
    BY <1>1, <1>2, FilesAssumption
  <2>2. stage' = "start" /\ ~run'.made /\ run'.job = run.job /\ run'.attempt = run.attempt + 1
    BY <1>2 DEF Throw, NoRun
  <2> QED BY <1>1, <2>1, <2>2
<1>3. CASE ~(run.attempt < MaxAttempts)
  BY <1>1, <1>3 DEF Throw
<1> QED BY <1>2, <1>3

\* Every step leaves each request holding what its next step needs.
LEMMA RequestsHoldStep ==
  ASSUME FilesTypeOK, RequestsHold, NothingYet, FilesNext
  PROVE  RequestsHold'
<1>1. ASSUME NEW r \in Requests, CreateRow(r) PROVE RequestsHold'
  <2>1. RequestHolds(r)'
    BY <1>1 DEF CreateRow, Begin, Then, Writing, RowWritten, Closed, FilesTypeOK, RequestHolds
  <2>2. ASSUME NEW q \in Requests, q # r PROVE RequestHolds(q)'
    BY <1>1, <2>2 DEF CreateRow, Begin, Then, RequestsHold, RequestHolds, NothingYet
  <2> QED BY <2>1, <2>2 DEF RequestsHold
<1>2. ASSUME NEW r \in Requests, StoreFile(r) PROVE RequestsHold'
  <2>1. RequestHolds(r)'
    BY <1>2 DEF StoreFile, Then, RequestsHold, RequestHolds, Writing, RowWritten, Closed,
       FilesTypeOK
  <2>2. ASSUME NEW q \in Requests, q # r PROVE RequestHolds(q)'
    BY <1>2, <2>2 DEF StoreFile, Then, RequestsHold, RequestHolds, FilesTypeOK
  <2> QED BY <2>1, <2>2 DEF RequestsHold
<1>3. ASSUME NEW r \in Requests, Enqueue(r) PROVE RequestsHold'
  <2>1. RequestHolds(r)'
    BY <1>3 DEF Enqueue, Then, RequestsHold, RequestHolds, Writing, RowWritten, Closed,
       FilesTypeOK
  <2>2. ASSUME NEW q \in Requests, q # r PROVE RequestHolds(q)'
    BY <1>3, <2>2 DEF Enqueue, Then, RequestsHold, RequestHolds, FilesTypeOK
  <2> QED BY <2>1, <2>2 DEF RequestsHold
<1>4. ASSUME NEW r \in Requests, UndoRead(r) PROVE RequestsHold'
  <2>1. RequestHolds(r)'
    BY <1>4 DEF UndoRead, AfterUndo, Then, RequestsHold, RequestHolds, Writing, RowWritten,
       Closed, FilesTypeOK
  <2>2. ASSUME NEW q \in Requests, q # r PROVE RequestHolds(q)'
    BY <1>4, <2>2 DEF UndoRead, AfterUndo, Then, RequestsHold, RequestHolds, FilesTypeOK
  <2> QED BY <2>1, <2>2 DEF RequestsHold
<1>5. ASSUME NEW r \in Requests, UndoWrite(r) PROVE RequestsHold'
  <2>1. RequestHolds(r)'
    BY <1>5 DEF UndoWrite, AfterUndo, Then, RequestsHold, RequestHolds, Writing, RowWritten,
       Closed
  <2>2. ASSUME NEW q \in Requests, q # r PROVE RequestHolds(q)'
    BY <1>5, <2>2 DEF UndoWrite, AfterUndo, Then, RequestsHold, RequestHolds
  <2> QED BY <2>1, <2>2 DEF RequestsHold
<1>6. ASSUME NEW r \in Requests, EraseUpload(r) PROVE RequestsHold'
  <2>1. RequestHolds(r)'
    BY <1>6 DEF EraseUpload, Then, RequestsHold, RequestHolds, Writing, RowWritten, Closed
  <2>2. ASSUME NEW q \in Requests, q # r PROVE RequestHolds(q)'
    BY <1>6, <2>2 DEF EraseUpload, Then, RequestsHold, RequestHolds
  <2> QED BY <2>1, <2>2 DEF RequestsHold
<1>7. ASSUME NEW r \in Requests, ReadForReplace(r) PROVE RequestsHold'
  <2>1. RequestHolds(r)'
    BY <1>7 DEF ReadForReplace, Begin, Then, RequestsHold, RequestHolds, Writing, RowWritten,
       Closed, FilesTypeOK
  <2>2. ASSUME NEW q \in Requests, q # r PROVE RequestHolds(q)'
    BY <1>7, <2>2 DEF ReadForReplace, Begin, Then, RequestsHold, RequestHolds
  <2> QED BY <2>1, <2>2 DEF RequestsHold
<1>8. ASSUME NEW r \in Requests, StoreNewFile(r) PROVE RequestsHold'
  <2>1. RequestHolds(r)'
    BY <1>8 DEF StoreNewFile, Then, RequestsHold, RequestHolds, Writing, RowWritten, Closed,
       FilesTypeOK
  <2>2. ASSUME NEW q \in Requests, q # r PROVE RequestHolds(q)'
    BY <1>8, <2>2 DEF StoreNewFile, Then, RequestsHold, RequestHolds, FilesTypeOK
  <2> QED BY <2>1, <2>2 DEF RequestsHold
<1>9. ASSUME NEW r \in Requests, RewriteRow(r) PROVE RequestsHold'
  <2>1. RequestHolds(r)'
    BY <1>9 DEF RewriteRow, Then, RequestsHold, RequestHolds, Writing, RowWritten, Closed,
       FilesTypeOK
  <2>2. ASSUME NEW q \in Requests, q # r PROVE RequestHolds(q)'
    BY <1>9, <2>2 DEF RewriteRow, Then, RequestsHold, RequestHolds, FilesTypeOK
  <2> QED BY <2>1, <2>2 DEF RequestsHold
<1>10. ASSUME NEW r \in Requests, DropOldFile(r) PROVE RequestsHold'
  <2>1. RequestHolds(r)'
    BY <1>10 DEF DropOldFile, Then, RequestsHold, RequestHolds, Writing, RowWritten, Closed
  <2>2. ASSUME NEW q \in Requests, q # r PROVE RequestHolds(q)'
    BY <1>10, <2>2 DEF DropOldFile, Then, RequestsHold, RequestHolds
  <2> QED BY <2>1, <2>2 DEF RequestsHold
<1>11. ASSUME NEW r \in Requests, DropOldThumb(r) PROVE RequestsHold'
  <2>1. RequestHolds(r)'
    BY <1>11 DEF DropOldThumb, Then, RequestsHold, RequestHolds, Writing, RowWritten, Closed
  <2>2. ASSUME NEW q \in Requests, q # r PROVE RequestHolds(q)'
    BY <1>11, <2>2 DEF DropOldThumb, Then, RequestsHold, RequestHolds
  <2> QED BY <2>1, <2>2 DEF RequestsHold
<1>12. ASSUME NEW r \in Requests, BeginPatch(r) PROVE RequestsHold'
  <2>1. RequestHolds(r)'
    BY <1>12 DEF BeginPatch, Begin, Then, RequestsHold, RequestHolds, Writing, RowWritten,
       Closed, FilesTypeOK
  <2>2. ASSUME NEW q \in Requests, q # r PROVE RequestHolds(q)'
    BY <1>12, <2>2 DEF BeginPatch, Begin, Then, RequestsHold, RequestHolds
  <2> QED BY <2>1, <2>2 DEF RequestsHold
<1>13. ASSUME NEW r \in Requests, PatchRead(r) PROVE RequestsHold'
  <2>3. seen[r] \in Row
    BY <1>13 DEF PatchRead, RequestsHold, RequestHolds
  <2>4. row # None => [row EXCEPT !.sum = seen[r].sum, !.size = seen[r].size] \in Row
    BY <2>3, RowSum DEF FilesTypeOK
  <2>1. RequestHolds(r)'
    BY <1>13, <2>3, <2>4 DEF PatchRead, Then, RequestsHold, RequestHolds, Writing,
       RowWritten, Closed, FilesTypeOK
  <2>2. ASSUME NEW q \in Requests, q # r PROVE RequestHolds(q)'
    BY <1>13, <2>2 DEF PatchRead, Then, RequestsHold, RequestHolds, FilesTypeOK
  <2> QED BY <2>1, <2>2 DEF RequestsHold
<1>14. ASSUME NEW r \in Requests, PatchWrite(r) PROVE RequestsHold'
  <2>1. RequestHolds(r)'
    BY <1>14 DEF PatchWrite, Then, RequestsHold, RequestHolds, Writing, RowWritten, Closed,
       FilesTypeOK
  <2>2. ASSUME NEW q \in Requests, q # r PROVE RequestHolds(q)'
    BY <1>14, <2>2 DEF PatchWrite, Then, RequestsHold, RequestHolds, FilesTypeOK
  <2> QED BY <2>1, <2>2 DEF RequestsHold
<1>15. ASSUME NEW r \in Requests, BeginDelete(r) PROVE RequestsHold'
  <2>1. RequestHolds(r)'
    BY <1>15 DEF BeginDelete, Begin, Then, RequestsHold, RequestHolds, Writing, RowWritten,
       Closed, FilesTypeOK
  <2>2. ASSUME NEW q \in Requests, q # r PROVE RequestHolds(q)'
    BY <1>15, <2>2 DEF BeginDelete, Begin, Then, RequestsHold, RequestHolds
  <2> QED BY <2>1, <2>2 DEF RequestsHold
<1>16. ASSUME NEW r \in Requests, DeleteRow(r) PROVE RequestsHold'
  <2>1. RequestHolds(r)'
    BY <1>16 DEF DeleteRow, Then, RequestsHold, RequestHolds, Writing, RowWritten, Closed,
       FilesTypeOK
  <2>2. ASSUME NEW q \in Requests, q # r PROVE RequestHolds(q)'
    BY <1>16, <2>2 DEF DeleteRow, Then, RequestsHold, RequestHolds, FilesTypeOK
  <2> QED BY <2>1, <2>2 DEF RequestsHold
<1>17. ASSUME NEW r \in Requests, EraseFile(r) PROVE RequestsHold'
  <2>1. RequestHolds(r)'
    BY <1>17 DEF EraseFile, Then, RequestsHold, RequestHolds, Writing, RowWritten, Closed,
       FilesTypeOK
  <2>2. ASSUME NEW q \in Requests, q # r PROVE RequestHolds(q)'
    BY <1>17, <2>2 DEF EraseFile, Then, RequestsHold, RequestHolds, FilesTypeOK
  <2> QED BY <2>1, <2>2 DEF RequestsHold
<1>18. ASSUME NEW r \in Requests, EraseThumb(r) PROVE RequestsHold'
  <2>1. RequestHolds(r)'
    BY <1>18 DEF EraseThumb, Then, RequestsHold, RequestHolds, Writing, RowWritten, Closed,
       FilesTypeOK
  <2>2. ASSUME NEW q \in Requests, q # r PROVE RequestHolds(q)'
    BY <1>18, <2>2 DEF EraseThumb, Then, RequestsHold, RequestHolds, FilesTypeOK
  <2> QED BY <2>1, <2>2 DEF RequestsHold
<1>19. ASSUME NEW r \in Requests, ApiDies(r) PROVE RequestsHold'
  <2>1. RequestHolds(r)'
    BY <1>19 DEF ApiDies, Then, RequestsHold, RequestHolds, Writing, RowWritten, Closed
  <2>2. ASSUME NEW q \in Requests, q # r PROVE RequestHolds(q)'
    BY <1>19, <2>2 DEF ApiDies, Then, RequestsHold, RequestHolds
  <2> QED BY <2>1, <2>2 DEF RequestsHold
<1>20. ASSUME TakeJob PROVE RequestsHold'
  BY <1>20 DEF TakeJob, requestVars, RequestsHold, RequestHolds
<1>21. ASSUME FindJob PROVE RequestsHold'
  BY <1>21 DEF FindJob, requestVars, RequestsHold, RequestHolds
<1>22. ASSUME LoadContent PROVE RequestsHold'
  BY <1>22 DEF LoadContent, requestVars, RequestsHold, RequestHolds
<1>23. ASSUME Download PROVE RequestsHold'
  BY <1>23 DEF Download, requestVars, RequestsHold, RequestHolds
<1>24. ASSUME MakeThumb PROVE RequestsHold'
  BY <1>24 DEF MakeThumb, requestVars, RequestsHold, RequestHolds
<1>25. ASSUME DropStaleThumb PROVE RequestsHold'
  BY <1>25 DEF DropStaleThumb, requestVars, RequestsHold, RequestHolds
<1>26. ASSUME ReadRow PROVE RequestsHold'
  BY <1>26 DEF ReadRow, requestVars, RequestsHold, RequestHolds
<1>27. ASSUME WriteReady PROVE RequestsHold'
  BY <1>27 DEF WriteReady, requestVars, RequestsHold, RequestHolds
<1>28. ASSUME GiveUp PROVE RequestsHold'
  BY <1>28 DEF GiveUp, requestVars, RequestsHold, RequestHolds
<1>29. ASSUME WorkerDies PROVE RequestsHold'
  BY <1>29 DEF WorkerDies, requestVars, RequestsHold, RequestHolds
<1> QED BY <1>1, <1>2, <1>3, <1>4, <1>5, <1>6, <1>7, <1>8, <1>9, <1>10, <1>11, <1>12, <1>13,
   <1>14, <1>15, <1>16, <1>17, <1>18, <1>19, <1>20, <1>21, <1>22, <1>23, <1>24, <1>25, <1>26, <1>27, <1>28, <1>29 DEF FilesNext, ServeRequest, RunWorker

\* Every step leaves the worker holding what its next step needs.
LEMMA WorkerHoldsStep ==
  ASSUME FilesTypeOK, WorkerHolds, FilesNext
  PROVE  WorkerHolds'
<1>1. ASSUME NEW r \in Requests, UNCHANGED runVars PROVE WorkerHolds'
  BY <1>1 DEF runVars, WorkerHolds, Examining
<1>2. ASSUME TakeJob PROVE WorkerHolds'
  <2>1. Head(queue) \in Requests
    BY <1>2, HeadTailProperties DEF TakeJob, FilesTypeOK
  <2>2. run'.job = Head(queue) /\ run'.attempt = 1 /\ ~run'.made /\ stage' = "start"
    BY <1>2 DEF TakeJob, NoRun
  <2> QED BY <2>1, <2>2, FilesAssumption DEF WorkerHolds, Examining
<1>3. ASSUME FindJob PROVE WorkerHolds'
  BY <1>3, RunFields DEF FindJob, WorkerHolds, Examining, File
<1>4. ASSUME LoadContent PROVE WorkerHolds'
  BY <1>4, RunFields, ThrowHolds DEF LoadContent, WorkerHolds, Examining, FilesTypeOK, File
<1>5. ASSUME Download PROVE WorkerHolds'
  <2>1. run.content \in Row /\ files[run.content.key] \in File
    BY <1>5, RowFields DEF Download, WorkerHolds, FilesTypeOK
  <2>2. CASE Throw
    BY <1>5, <2>2, ThrowHolds DEF Download, WorkerHolds, Examining
  <2>3. CASE stage' = "makeThumb" /\ run' = [run EXCEPT !.data = files[run.content.key]] /\ files[run.content.key] # None
    <3>1. /\ run'.job = run.job /\ run'.attempt = run.attempt /\ run'.content = run.content
          /\ run'.data = files[run.content.key] /\ run'.made = run.made
      BY <2>3, RunFields
    <3>2. run.job \in Requests /\ run.attempt \in 1..MaxAttempts /\ ~run.made
      BY <1>5 DEF Download, WorkerHolds
    <3> QED BY <2>1, <2>3, <3>1, <3>2 DEF WorkerHolds, File
  <2> QED BY <1>5, <2>2, <2>3 DEF Download
<1>6. ASSUME MakeThumb PROVE WorkerHolds'
  BY <1>6, RunFields DEF MakeThumb, WorkerHolds, Examining, File
<1>7. ASSUME DropStaleThumb PROVE WorkerHolds'
  BY <1>7, RunFields DEF DropStaleThumb, WorkerHolds, Examining, File
<1>8. ASSUME ReadRow PROVE WorkerHolds'
  BY <1>8, RunFields DEF ReadRow, WorkerHolds, Examining, FilesTypeOK, File
<1>9. ASSUME WriteReady PROVE WorkerHolds'
  BY <1>9, RunFields, ThrowHolds DEF WriteReady, WorkerHolds, Examining, File
<1>10. ASSUME GiveUp PROVE WorkerHolds'
  BY <1>10, RunFields DEF GiveUp, WorkerHolds, Examining, File
<1>11. ASSUME WorkerDies PROVE WorkerHolds'
  BY <1>11, RunFields DEF WorkerDies, WorkerHolds, Examining, File
<1> QED BY <1>1, <1>2, <1>3, <1>4, <1>5, <1>6, <1>7, <1>8, <1>9, <1>10, <1>11 DEF FilesNext,
   ServeRequest, RunWorker, CreateRow, StoreFile, Enqueue, UndoRead, UndoWrite, EraseUpload,
      ReadForReplace, StoreNewFile, RewriteRow, DropOldFile, DropOldThumb, BeginPatch,
         PatchRead, PatchWrite, BeginDelete, DeleteRow, EraseFile, EraseThumb, ApiDies

\* A served request moves on, the others stay where they are.
LEMMA Moves ==
  ASSUME FilesTypeOK, NEW r \in Requests, ServeRequest(r)
  PROVE  /\ step'[r] # "idle"
         /\ \A q \in Requests : q # r => step'[q] = step[q]
         /\ UNCHANGED runVars
BY DEF FilesTypeOK, ServeRequest, Then, AfterUndo, CreateRow, StoreFile, Enqueue, UndoRead,
   UndoWrite, EraseUpload, ReadForReplace, StoreNewFile, RewriteRow, DropOldFile,
      DropOldThumb, BeginPatch, PatchRead, PatchWrite, BeginDelete, DeleteRow, EraseFile,
         EraseThumb, ApiDies

\* Nothing is made before the first request.
LEMMA NothingYetStep ==
  ASSUME FilesTypeOK, NothingYet, FilesNext
  PROVE  NothingYet'
<1>1. ASSUME NEW r \in Requests, ServeRequest(r) PROVE NothingYet'
  BY <1>1, Moves DEF NothingYet
<1>2. ASSUME RunWorker, \A r \in Requests : step'[r] = "idle" PROVE FALSE
  BY <1>2 DEF NothingYet, RunWorker, requestVars, TakeJob, FindJob, LoadContent, Download,
     MakeThumb, DropStaleThumb, ReadRow, WriteReady, GiveUp, WorkerDies
<1> QED BY <1>1, <1>2 DEF FilesNext, NothingYet

\* The history keeps up with the requests in progress.
LEMMA MeetNowStep ==
  ASSUME MeetNow, FilesTypeOK, Meet
  PROVE  MeetNow'
BY DEF Meet, MeetNow

\* Beside a request that writes there are only deletions.
LEMMA OthersDelete ==
  ASSUME FilesTypeOK, RequestsHold, MeetNow, MeetNow', apart, apart',
         NEW r \in Requests, ServeRequest(r), OperationOf[r] # "delete",
         NEW q \in Requests, q # r
  PROVE  step[q] \notin Writing \cup {"patchRead", "patchWrite"} /\ step'[q] = step[q]
<1>1. step'[q] = step[q]
  BY Moves
<1>2. r \in Open \/ r \in Open'
  BY DEF ServeRequest, FilesTypeOK, Open, Closed, Then, AfterUndo, Begin, CreateRow,
     StoreFile, Enqueue, UndoRead, UndoWrite, EraseUpload, ReadForReplace, StoreNewFile,
        RewriteRow, DropOldFile, DropOldThumb, BeginPatch, PatchRead, PatchWrite,
           BeginDelete, DeleteRow, EraseFile, EraseThumb, ApiDies
<1>3. q \in Open => OperationOf[q] = "delete"
  BY <1>1, <1>2 DEF MeetNow, Open
<1>4. step[q] \in Writing \cup {"patchRead", "patchWrite"} => q \in Open /\ OperationOf[q] # "delete"
  BY DEF RequestsHold, RequestHolds, Open, Closed, Writing, RowWritten
<1> QED BY <1>1, <1>3, <1>4

\* While requests are apart and no enqueue is late, each step of a request keeps
\* the row, the files, the requests and the one job in agreement.
LEMMA MatchServed ==
  ASSUME FilesTypeOK, RequestsHold, NothingYet, MeetNow, MeetNow', apart, apart', FilesMatch, ~Fail("late"),
         NEW r \in Requests, ServeRequest(r)
  PROVE  FilesMatch'
<1>h. RequestHolds(r) /\ OwnsRow(r) /\ OneJob /\ WorkerKnowsRow /\ RowIsTrue
  BY DEF RequestsHold, FilesMatch, WritersOwnRow
<1>o. ASSUME OperationOf[r] # "delete", NEW q \in Requests, q # r
      PROVE  step[q] \notin Writing \cup {"patchRead", "patchWrite"} /\ step'[q] = step[q]
  BY <1>o, OthersDelete
<1>w. ASSUME OperationOf[r] # "delete", OwnsRow(r)' PROVE WritersOwnRow'
  BY <1>w, <1>o DEF WritersOwnRow, OwnsRow, Writing, RowWritten
<1>1. CASE CreateRow(r)
  <2>0. OperationOf[r] # "delete"
    BY <1>1, <1>h DEF CreateRow, Begin
  <2>5. row = None /\ ~Pending
    BY <1>1 DEF CreateRow, NothingYet, Pending
  <2>1. OneJob'
    BY <1>1, <1>h, <2>5, <1>o, <2>0 DEF CreateRow, Begin, Fresh, Then, runVars, OneJob,
       Pending, OwnsRow, Writing, RowWritten
  <2>2. OwnsRow(r)'
    BY <1>1, <1>h, <2>5 DEF CreateRow, Begin, Fresh, Then, runVars, OneJob, Pending, OwnsRow,
       RowIsTrue, Writing, RowWritten, FilesTypeOK
  <2>3. WorkerKnowsRow'
    BY <1>1, <1>h, <2>5 DEF CreateRow, Begin, Fresh, Then, runVars, WorkerKnowsRow, OneJob,
       Pending, OwnsRow, Writing, RowWritten, Examining
  <2>4. RowIsTrue'
    BY <1>1, <1>h, <2>5 DEF CreateRow, Begin, Fresh, Then, runVars, RowIsTrue, OneJob,
       Pending, OwnsRow, Writing, RowWritten
  <2> QED BY <1>w, <2>0, <2>1, <2>2, <2>3, <2>4 DEF FilesMatch
<1>2. CASE StoreFile(r)
  <2>0. OperationOf[r] # "delete"
    BY <1>2, <1>h DEF StoreFile, RequestHolds
  <2>1. OneJob'
    BY <1>2, <1>h, <1>o, <2>0 DEF StoreFile, Put, Then, runVars, OneJob, Pending, OwnsRow,
       Writing, RowWritten
  <2>2. OwnsRow(r)'
    BY <1>2, <1>h DEF StoreFile, Put, Then, runVars, OneJob, Pending, OwnsRow, RowIsTrue,
       Writing, RowWritten, FilesTypeOK, RequestHolds
  <2>3. WorkerKnowsRow'
    BY <1>2, <1>h DEF StoreFile, Put, Then, runVars, WorkerKnowsRow, OneJob, Pending,
       OwnsRow, Writing, RowWritten, Examining
  <2>4. RowIsTrue'
    BY <1>2, <1>h DEF StoreFile, Put, Then, runVars, RowIsTrue, OneJob, Pending, OwnsRow,
       Writing, RowWritten
  <2> QED BY <1>w, <2>0, <2>1, <2>2, <2>3, <2>4 DEF FilesMatch
<1>3. CASE Enqueue(r)
  <2>0. OperationOf[r] # "delete"
    BY <1>3, <1>h DEF Enqueue, RequestHolds
  <2>1. OneJob'
    BY <1>3, <1>h, <1>o, <2>0 DEF Enqueue, Then, runVars, OneJob, Pending, OwnsRow, Writing,
       RowWritten, FilesTypeOK
  <2>2. OwnsRow(r)'
    BY <1>3, <1>h DEF Enqueue, Then, runVars, OneJob, Pending, OwnsRow, RowIsTrue, Writing,
       RowWritten, FilesTypeOK
  <2>3. WorkerKnowsRow'
    BY <1>3, <1>h DEF Enqueue, Then, runVars, WorkerKnowsRow, OneJob, Pending, OwnsRow,
       Writing, RowWritten, Examining
  <2>4. RowIsTrue'
    BY <1>3, <1>h DEF Enqueue, Then, runVars, RowIsTrue, OneJob, Pending, OwnsRow, Writing,
       RowWritten
  <2> QED BY <1>w, <2>0, <2>1, <2>2, <2>3, <2>4 DEF FilesMatch
<1>4. CASE UndoRead(r)
  <2>0. OperationOf[r] # "delete"
    BY <1>4, <1>h DEF UndoRead, RequestHolds
  <2>1. OneJob'
    BY <1>4, <1>h, <1>o, <2>0 DEF UndoRead, AfterUndo, Then, runVars, OneJob, Pending,
       OwnsRow, Writing, RowWritten
  <2>2. OwnsRow(r)'
    BY <1>4, <1>h DEF UndoRead, AfterUndo, Then, runVars, OneJob, Pending, OwnsRow,
       RowIsTrue, Writing, RowWritten, FilesTypeOK
  <2>3. WorkerKnowsRow'
    BY <1>4, <1>h DEF UndoRead, AfterUndo, Then, runVars, WorkerKnowsRow, OneJob, Pending,
       OwnsRow, Writing, RowWritten, Examining
  <2>4. RowIsTrue'
    BY <1>4, <1>h DEF UndoRead, AfterUndo, Then, runVars, RowIsTrue, OneJob, Pending,
       OwnsRow, Writing, RowWritten
  <2> QED BY <1>w, <2>0, <2>1, <2>2, <2>3, <2>4 DEF FilesMatch
<1>5. CASE UndoWrite(r)
  <2>0. OperationOf[r] # "delete"
    BY <1>5, <1>h DEF UndoWrite, RequestHolds
  <2>5. ASSUME row # None, row' = [seen[r] EXCEPT !.status = "FAILED"]
        PROVE  /\ row' # None /\ row'.status = "FAILED" /\ row'.key = row.key
               /\ row'.sum = row.sum /\ row'.thumb = row.thumb
    BY <1>5, <1>h, <2>5, StatusOnly DEF UndoWrite, OwnsRow, RequestHolds
  <2>1. OneJob'
    BY <1>5, <1>h, <2>5, <1>o, <2>0 DEF UndoWrite, AfterUndo, Then, runVars, OneJob, Pending,
       OwnsRow, Writing, RowWritten
  <2>2. OwnsRow(r)'
    BY <1>5, <1>h, <2>5 DEF UndoWrite, AfterUndo, Then, runVars, OneJob, Pending, OwnsRow,
       RowIsTrue, Writing, RowWritten, FilesTypeOK
  <2>3. WorkerKnowsRow'
    BY <1>5, <1>h, <2>5 DEF UndoWrite, AfterUndo, Then, runVars, WorkerKnowsRow, OneJob,
       Pending, OwnsRow, Writing, RowWritten, Examining
  <2>4. RowIsTrue'
    BY <1>5, <1>h, <2>5 DEF UndoWrite, AfterUndo, Then, runVars, RowIsTrue, OneJob, Pending,
       OwnsRow, Writing, RowWritten
  <2> QED BY <1>w, <2>0, <2>1, <2>2, <2>3, <2>4 DEF FilesMatch
<1>6. CASE EraseUpload(r)
  <2>0. OperationOf[r] # "delete"
    BY <1>6, <1>h DEF EraseUpload, RequestHolds
  <2>1. OneJob'
    BY <1>6, <1>h, <1>o, <2>0 DEF EraseUpload, Put, Then, runVars, OneJob, Pending, OwnsRow,
       Writing, RowWritten
  <2>2. OwnsRow(r)'
    BY <1>6, <1>h DEF EraseUpload, Put, Then, runVars, OneJob, Pending, OwnsRow, RowIsTrue,
       Writing, RowWritten
  <2>3. WorkerKnowsRow'
    BY <1>6, <1>h DEF EraseUpload, Put, Then, runVars, WorkerKnowsRow, OneJob, Pending,
       OwnsRow, Writing, RowWritten, Examining
  <2>4. RowIsTrue'
    BY <1>6, <1>h DEF EraseUpload, Put, Then, runVars, RowIsTrue, OneJob, Pending, OwnsRow,
       Writing, RowWritten
  <2> QED BY <1>w, <2>0, <2>1, <2>2, <2>3, <2>4 DEF FilesMatch
<1>7. CASE ReadForReplace(r)
  <2>0. OperationOf[r] # "delete"
    BY <1>7, <1>h DEF ReadForReplace, Begin
  <2>1. OneJob'
    BY <1>7, <1>h, <1>o, <2>0 DEF ReadForReplace, Begin, Then, runVars, OneJob, Pending,
       OwnsRow, Writing, RowWritten
  <2>2. OwnsRow(r)'
    BY <1>7, <1>h DEF ReadForReplace, Begin, Then, runVars, OneJob, Pending, OwnsRow,
       RowIsTrue, Writing, RowWritten
  <2>3. WorkerKnowsRow'
    BY <1>7, <1>h DEF ReadForReplace, Begin, Then, runVars, WorkerKnowsRow, OneJob, Pending,
       OwnsRow, Writing, RowWritten, Examining
  <2>4. RowIsTrue'
    BY <1>7, <1>h DEF ReadForReplace, Begin, Then, runVars, RowIsTrue, OneJob, Pending,
       OwnsRow, Writing, RowWritten
  <2> QED BY <1>w, <2>0, <2>1, <2>2, <2>3, <2>4 DEF FilesMatch
<1>8. CASE StoreNewFile(r)
  <2>0. OperationOf[r] # "delete"
    BY <1>8, <1>h DEF StoreNewFile, RequestHolds
  <2>5. row # None => row.key \in Mimes
    BY RowFields DEF FilesTypeOK
  <2>1. OneJob'
    BY <1>8, <1>h, <2>5, <1>o, <2>0 DEF StoreNewFile, Put, Then, runVars, OneJob, Pending,
       OwnsRow, Writing, RowWritten
  <2>2. OwnsRow(r)'
    BY <1>8, <1>h, <2>5 DEF StoreNewFile, Put, Then, runVars, OneJob, Pending, OwnsRow,
       RowIsTrue, Writing, RowWritten, FilesTypeOK, RequestHolds
  <2>3. WorkerKnowsRow'
    BY <1>8, <1>h, <2>5 DEF StoreNewFile, Put, Then, runVars, WorkerKnowsRow, OneJob,
       Pending, OwnsRow, Writing, RowWritten, Examining
  <2>4. RowIsTrue'
    BY <1>8, <1>h, <2>5, FilesAssumption DEF StoreNewFile, Put, Then, runVars, RowIsTrue,
       OneJob, Pending, OwnsRow, Writing, RowWritten, FilesTypeOK
  <2> QED BY <1>w, <2>0, <2>1, <2>2, <2>3, <2>4 DEF FilesMatch
<1>9. CASE RewriteRow(r)
  <2>0. OperationOf[r] # "delete"
    BY <1>9, <1>h DEF RewriteRow, RequestHolds
  <2>1. OneJob'
    BY <1>9, <1>h, <1>o, <2>0 DEF RewriteRow, Fresh, Then, runVars, OneJob, Pending, OwnsRow,
       Writing, RowWritten
  <2>2. OwnsRow(r)'
    BY <1>9, <1>h DEF RewriteRow, Fresh, Then, runVars, OneJob, Pending, OwnsRow, RowIsTrue,
       Writing, RowWritten, FilesTypeOK
  <2>3. WorkerKnowsRow'
    BY <1>9, <1>h DEF RewriteRow, Fresh, Then, runVars, WorkerKnowsRow, OneJob, Pending,
       OwnsRow, Writing, RowWritten, Examining
  <2>4. RowIsTrue'
    BY <1>9, <1>h DEF RewriteRow, Fresh, Then, runVars, RowIsTrue, OneJob, Pending, OwnsRow,
       Writing, RowWritten
  <2> QED BY <1>w, <2>0, <2>1, <2>2, <2>3, <2>4 DEF FilesMatch
<1>10. CASE DropOldFile(r)
  <2>0. OperationOf[r] # "delete"
    BY <1>10, <1>h DEF DropOldFile, RequestHolds
  <2>1. OneJob'
    BY <1>10, <1>h, <1>o, <2>0 DEF DropOldFile, Put, Then, runVars, OneJob, Pending, OwnsRow,
       Writing, RowWritten
  <2>2. OwnsRow(r)'
    BY <1>10, <1>h DEF DropOldFile, Put, Then, runVars, OneJob, Pending, OwnsRow, RowIsTrue,
       Writing, RowWritten, FilesTypeOK, RequestHolds
  <2>3. WorkerKnowsRow'
    BY <1>10, <1>h DEF DropOldFile, Put, Then, runVars, WorkerKnowsRow, OneJob, Pending,
       OwnsRow, Writing, RowWritten, Examining
  <2>4. RowIsTrue'
    BY <1>10, <1>h DEF DropOldFile, Put, Then, runVars, RowIsTrue, OneJob, Pending, OwnsRow,
       Writing, RowWritten
  <2> QED BY <1>w, <2>0, <2>1, <2>2, <2>3, <2>4 DEF FilesMatch
<1>11. CASE DropOldThumb(r)
  <2>0. OperationOf[r] # "delete"
    BY <1>11, <1>h DEF DropOldThumb, RequestHolds
  <2>1. OneJob'
    BY <1>11, <1>h, <1>o, <2>0 DEF DropOldThumb, Then, runVars, OneJob, Pending, OwnsRow,
       Writing, RowWritten
  <2>2. OwnsRow(r)'
    BY <1>11, <1>h DEF DropOldThumb, Then, runVars, OneJob, Pending, OwnsRow, RowIsTrue,
       Writing, RowWritten
  <2>3. WorkerKnowsRow'
    BY <1>11, <1>h DEF DropOldThumb, Then, runVars, WorkerKnowsRow, OneJob, Pending, OwnsRow,
       Writing, RowWritten, Examining
  <2>4. RowIsTrue'
    BY <1>11, <1>h DEF DropOldThumb, Then, runVars, RowIsTrue, OneJob, Pending, OwnsRow,
       Writing, RowWritten
  <2> QED BY <1>w, <2>0, <2>1, <2>2, <2>3, <2>4 DEF FilesMatch
<1>12. CASE BeginPatch(r)
  <2>0. OperationOf[r] # "delete"
    BY <1>12, <1>h DEF BeginPatch, Begin
  <2>1. OneJob'
    BY <1>12, <1>h, <1>o, <2>0 DEF BeginPatch, Begin, Then, runVars, OneJob, Pending,
       OwnsRow, Writing, RowWritten
  <2>2. OwnsRow(r)'
    BY <1>12, <1>h DEF BeginPatch, Begin, Then, runVars, OneJob, Pending, OwnsRow, RowIsTrue,
       Writing, RowWritten, FilesTypeOK
  <2>3. WorkerKnowsRow'
    BY <1>12, <1>h DEF BeginPatch, Begin, Then, runVars, WorkerKnowsRow, OneJob, Pending,
       OwnsRow, Writing, RowWritten, Examining
  <2>4. RowIsTrue'
    BY <1>12, <1>h DEF BeginPatch, Begin, Then, runVars, RowIsTrue, OneJob, Pending, OwnsRow,
       Writing, RowWritten
  <2> QED BY <1>w, <2>0, <2>1, <2>2, <2>3, <2>4 DEF FilesMatch
<1>13. CASE PatchRead(r)
  <2>0. OperationOf[r] # "delete"
    BY <1>13, <1>h DEF PatchRead, RequestHolds
  <2>5. ASSUME row # None
        PROVE  LET x == [row EXCEPT !.sum = seen[r].sum, !.size = seen[r].size]
               IN  x.sum = seen[r].sum /\ x.key = row.key /\ x.thumb = row.thumb
    BY <1>13, <1>h, <2>5, SumOnly DEF PatchRead
  <2>1. OneJob'
    BY <1>13, <1>h, <2>5, <1>o, <2>0 DEF PatchRead, Then, runVars, OneJob, Pending, OwnsRow,
       Writing, RowWritten, FilesTypeOK
  <2>2. OwnsRow(r)'
    BY <1>13, <1>h, <2>5 DEF PatchRead, Then, runVars, OneJob, Pending, OwnsRow, RowIsTrue,
       Writing, RowWritten, FilesTypeOK
  <2>3. WorkerKnowsRow'
    BY <1>13, <1>h, <2>5 DEF PatchRead, Then, runVars, WorkerKnowsRow, OneJob, Pending,
       OwnsRow, Writing, RowWritten, Examining
  <2>4. RowIsTrue'
    BY <1>13, <1>h, <2>5 DEF PatchRead, Then, runVars, RowIsTrue, OneJob, Pending, OwnsRow,
       Writing, RowWritten
  <2> QED BY <1>w, <2>0, <2>1, <2>2, <2>3, <2>4 DEF FilesMatch
<1>14. CASE PatchWrite(r)
  <2>0. OperationOf[r] # "delete"
    BY <1>14, <1>h DEF PatchWrite, RequestHolds
  <2>5. ASSUME row # None, row' = [seen[r] EXCEPT !.status = row.status]
        PROVE  /\ row' # None /\ row'.status = row.status /\ row'.key = row.key
               /\ row'.sum = row.sum /\ (row'.thumb => row.thumb)
    BY <1>14, <1>h, <2>5, StatusOnly, RowFields DEF PatchWrite, OwnsRow, FilesTypeOK,
       RequestHolds
  <2>1. OneJob'
    BY <1>14, <1>h, <2>5, <1>o, <2>0 DEF PatchWrite, Then, runVars, OneJob, Pending, OwnsRow,
       Writing, RowWritten, FilesTypeOK
  <2>2. OwnsRow(r)'
    BY <1>14, <1>h, <2>5 DEF PatchWrite, Then, runVars, OneJob, Pending, OwnsRow, RowIsTrue,
       Writing, RowWritten, FilesTypeOK
  <2>3. WorkerKnowsRow'
    BY <1>14, <1>h, <2>5 DEF PatchWrite, Then, runVars, WorkerKnowsRow, OneJob, Pending,
       OwnsRow, Writing, RowWritten, Examining
  <2>4. RowIsTrue'
    BY <1>14, <1>h, <2>5 DEF PatchWrite, Then, runVars, RowIsTrue, OneJob, Pending, OwnsRow,
       Writing, RowWritten
  <2> QED BY <1>w, <2>0, <2>1, <2>2, <2>3, <2>4 DEF FilesMatch
<1>15. CASE BeginDelete(r)
  BY <1>15, <1>h DEF BeginDelete, Begin, Then, runVars, FilesMatch, OneJob, Pending,
     WritersOwnRow, OwnsRow, WorkerKnowsRow, RowIsTrue, Writing, RowWritten
<1>16. CASE DeleteRow(r)
  BY <1>16, <1>h DEF DeleteRow, Then, runVars, FilesMatch, OneJob, Pending, WritersOwnRow,
     OwnsRow, WorkerKnowsRow, RowIsTrue, Writing, RowWritten, FilesTypeOK
<1>17. CASE EraseFile(r)
  BY <1>17, <1>h DEF EraseFile, Put, Then, runVars, FilesMatch, OneJob, Pending,
     WritersOwnRow, OwnsRow, WorkerKnowsRow, RowIsTrue, Writing, RowWritten, FilesTypeOK,
        RequestHolds
<1>18. CASE EraseThumb(r)
  BY <1>18, <1>h DEF EraseThumb, Then, runVars, FilesMatch, OneJob, Pending, WritersOwnRow,
     OwnsRow, WorkerKnowsRow, RowIsTrue, Writing, RowWritten, FilesTypeOK, RequestHolds
<1>19. CASE ApiDies(r)
  BY <1>19, <1>h DEF ApiDies, Then, runVars, FilesMatch, OneJob, Pending, WritersOwnRow,
     OwnsRow, WorkerKnowsRow, RowIsTrue, Writing, RowWritten
<1> QED BY <1>1, <1>2, <1>3, <1>4, <1>5, <1>6, <1>7, <1>8, <1>9, <1>10, <1>11, <1>12, <1>13,
   <1>14, <1>15, <1>16, <1>17, <1>18, <1>19 DEF ServeRequest

\* The worker keeps the key and the checksum of the row, and brings no row back.
LEMMA RunKeepsRow ==
  ASSUME FilesTypeOK, WorkerHolds, WorkerKnowsRow, RunWorker
  PROVE  /\ UNCHANGED requestVars
         /\ files' = files
         /\ row' # None => row # None /\ row'.key = row.key /\ row'.sum = row.sum
         /\ row = None <=> row' = None
<1>1. UNCHANGED requestVars /\ files' = files
  BY DEF RunWorker, TakeJob, FindJob, LoadContent, Download, MakeThumb, DropStaleThumb,
     ReadRow, WriteReady, GiveUp, WorkerDies
<1>2. CASE WriteReady
  <2>1. CASE row = None
    BY <1>1, <1>2, <2>1 DEF WriteReady
  <2>2. CASE row # None
    <3>1. run.base \in Row /\ run.base.key = row.key /\ run.base.sum = row.sum
      BY <1>2, <2>2 DEF WriteReady, WorkerHolds, WorkerKnowsRow
    <3>2. row' = [run.base EXCEPT !.status = "READY", !.mime = run.content.mime,
                    !.size = run.data, !.meta = run.data, !.thumb = run.made]
      BY <1>2, <2>2 DEF WriteReady
    <3>3. row' \in Row
      BY <1>2, <3>1, <3>2, ReadyRow, RunFields DEF WriteReady, WorkerHolds, Examining
    <3>4. row'.key = run.base.key /\ row'.sum = run.base.sum
      BY <3>1, <3>2 DEF Row
    <3> QED BY <1>1, <2>2, <3>1, <3>3, <3>4, FilesAssumption
  <2> QED BY <2>1, <2>2
<1>3. CASE GiveUp
  <2>1. CASE row = None
    BY <1>1, <1>3, <2>1 DEF GiveUp
  <2>2. CASE row # None
    <3>1. row' = [row EXCEPT !.status = "FAILED"] /\ row \in Row
      BY <1>3, <2>2 DEF GiveUp, FilesTypeOK
    <3> QED BY <1>1, <2>2, <3>1, StatusOnly
  <2> QED BY <2>1, <2>2
<1>4. CASE UNCHANGED row
  BY <1>1, <1>4
<1> QED BY <1>2, <1>3, <1>4 DEF RunWorker, TakeJob, FindJob, LoadContent, Download,
   MakeThumb, DropStaleThumb, ReadRow, WorkerDies

\* A queue of one entry is empty once it is taken.
LEMMA OnlyOne ==
  ASSUME queue \in Seq(Requests), queue # << >>, Len(queue) <= 1
  PROVE  Tail(queue) = << >>
<1>1. Len(queue) \in Nat /\ Len(queue) # 0
  BY EmptySeq, LenProperties
<1>2. Len(queue) = 1
  BY <1>1
<1>3. Tail(queue) \in Seq(Requests) /\ Len(Tail(queue)) = 0
  BY <1>2, HeadTailProperties
<1> QED BY <1>3, EmptySeq

\* So does each step of the worker.
LEMMA MatchRun ==
  ASSUME FilesTypeOK, WorkerHolds, FilesMatch, RunWorker
  PROVE  FilesMatch'
<1>h. OneJob /\ WorkerKnowsRow /\ RowIsTrue
  BY DEF FilesMatch
<1>p. /\ Len(queue) <= 1 /\ (stage # "idle" => queue = << >>)
      /\ \A r \in Requests : step[r] \notin Writing
      /\ row # None => row.status = "PROCESSING" /\ files[row.key] = row.sum /\ row.thumb = FALSE
      /\ row # None => row \in Row
  BY <1>h, RowFields DEF OneJob, Pending, RowIsTrue, FilesTypeOK, RunWorker, TakeJob,
     FindJob, LoadContent, Download, MakeThumb, DropStaleThumb, ReadRow, WriteReady, GiveUp,
        WorkerDies
<1>k. /\ UNCHANGED requestVars /\ files' = files
      /\ row' # None => row # None /\ row'.key = row.key /\ row'.sum = row.sum
      /\ row = None => row' = None
  BY <1>h, RunKeepsRow
<1>w. WritersOwnRow'
  BY <1>k, <1>p DEF FilesMatch, WritersOwnRow, OwnsRow, Writing, RowWritten, requestVars
<1>s. row' # None => row'.key \in Mimes /\ files[row.key] # None
  BY <1>k, <1>p, RowFields, FilesAssumption
<1>1. CASE TakeJob
  <2>1. OneJob'
    BY <1>1, <1>k, <1>p, OnlyOne DEF TakeJob, NoRun, requestVars, OneJob, Pending
  <2>2. WorkerKnowsRow'
    BY <1>1, <1>h, <1>k, <1>p, RunFields DEF TakeJob, NoRun, requestVars, WorkerKnowsRow,
       Examining, WorkerHolds
  <2>3. RowIsTrue'
    BY <1>1, <1>h, <1>k, <1>p, <1>s DEF TakeJob, NoRun, requestVars, RowIsTrue, WorkerKnowsRow,
       Examining
  <2> QED BY <1>w, <2>1, <2>2, <2>3 DEF FilesMatch
<1>2. CASE FindJob
  <2>1. OneJob'
    BY <1>2, <1>k, <1>p DEF FindJob, NoRun, requestVars, OneJob, Pending
  <2>2. WorkerKnowsRow'
    BY <1>2, <1>h, <1>k, <1>p, RunFields DEF FindJob, NoRun, requestVars, WorkerKnowsRow,
       Examining, WorkerHolds
  <2>3. RowIsTrue'
    BY <1>2, <1>h, <1>k, <1>p, <1>s DEF FindJob, NoRun, requestVars, RowIsTrue, WorkerKnowsRow,
       Examining
  <2> QED BY <1>w, <2>1, <2>2, <2>3 DEF FilesMatch
<1>3. CASE LoadContent
  <2>1. OneJob'
    BY <1>3, <1>k, <1>p DEF LoadContent, Throw, NoRun, requestVars, OneJob, Pending
  <2>2. WorkerKnowsRow'
    BY <1>3, <1>h, <1>k, <1>p, RunFields DEF LoadContent, Throw, NoRun, requestVars,
       WorkerKnowsRow, Examining, WorkerHolds
  <2>3. RowIsTrue'
    BY <1>3, <1>h, <1>k, <1>p, <1>s DEF LoadContent, Throw, NoRun, requestVars, RowIsTrue,
       WorkerKnowsRow, Examining
  <2> QED BY <1>w, <2>1, <2>2, <2>3 DEF FilesMatch
<1>4. CASE Download
  <2>1. OneJob'
    BY <1>4, <1>k, <1>p DEF Download, Throw, NoRun, requestVars, OneJob, Pending
  <2>2. WorkerKnowsRow'
    BY <1>4, <1>h, <1>k, <1>p, RunFields DEF Download, Throw, NoRun, requestVars, WorkerKnowsRow,
       Examining, WorkerHolds
  <2>3. RowIsTrue'
    BY <1>4, <1>h, <1>k, <1>p, <1>s DEF Download, Throw, NoRun, requestVars, RowIsTrue,
       WorkerKnowsRow, Examining
  <2> QED BY <1>w, <2>1, <2>2, <2>3 DEF FilesMatch
<1>5. CASE MakeThumb
  <2>1. OneJob'
    BY <1>5, <1>k, <1>p DEF MakeThumb, NoRun, requestVars, OneJob, Pending
  <2>2. WorkerKnowsRow'
    BY <1>5, <1>h, <1>k, <1>p, RunFields DEF MakeThumb, NoRun, requestVars, WorkerKnowsRow,
       Examining, WorkerHolds
  <2>3. RowIsTrue'
    BY <1>5, <1>h, <1>k, <1>p, <1>s DEF MakeThumb, NoRun, requestVars, RowIsTrue, WorkerKnowsRow,
       Examining
  <2> QED BY <1>w, <2>1, <2>2, <2>3 DEF FilesMatch
<1>6. CASE DropStaleThumb
  <2>1. OneJob'
    BY <1>6, <1>k, <1>p DEF DropStaleThumb, NoRun, requestVars, OneJob, Pending
  <2>2. WorkerKnowsRow'
    BY <1>6, <1>h, <1>k, <1>p, RunFields DEF DropStaleThumb, NoRun, requestVars, WorkerKnowsRow,
       Examining, WorkerHolds
  <2>3. RowIsTrue'
    BY <1>6, <1>h, <1>k, <1>p, <1>s DEF DropStaleThumb, NoRun, requestVars, RowIsTrue,
       WorkerKnowsRow, Examining
  <2> QED BY <1>w, <2>1, <2>2, <2>3 DEF FilesMatch
<1>7. CASE ReadRow
  <2>1. OneJob'
    BY <1>7, <1>k, <1>p DEF ReadRow, NoRun, requestVars, OneJob, Pending
  <2>2. WorkerKnowsRow'
    BY <1>7, <1>h, <1>k, <1>p, RunFields DEF ReadRow, NoRun, requestVars, WorkerKnowsRow,
       Examining, WorkerHolds
  <2>3. RowIsTrue'
    BY <1>7, <1>h, <1>k, <1>p, <1>s DEF ReadRow, NoRun, requestVars, RowIsTrue, WorkerKnowsRow,
       Examining
  <2> QED BY <1>w, <2>1, <2>2, <2>3 DEF FilesMatch
<1>8. CASE WriteReady
  <2>4. row' # None => row'.thumb = run.made /\ row'.status = "READY" /\ thumb' = thumb
    BY <1>8, <1>k DEF WriteReady, WorkerHolds, Row
  <2>1. OneJob'
    BY <1>8, <1>k, <1>p DEF WriteReady, Throw, NoRun, requestVars, OneJob, Pending
  <2>2. WorkerKnowsRow'
    BY <1>8, <1>h, <1>k, <1>p, RunFields DEF WriteReady, Throw, NoRun, requestVars,
       WorkerKnowsRow, Examining, WorkerHolds
  <2>3. RowIsTrue'
    BY <1>8, <1>h, <1>k, <1>p, <1>s, <2>4 DEF WriteReady, Throw, NoRun, requestVars, RowIsTrue,
       WorkerKnowsRow, Examining
  <2> QED BY <1>w, <2>1, <2>2, <2>3 DEF FilesMatch
<1>9. CASE GiveUp
  <2>1. OneJob'
    BY <1>9, <1>k, <1>p DEF GiveUp, NoRun, requestVars, OneJob, Pending
  <2>2. WorkerKnowsRow'
    BY <1>9, <1>h, <1>k, <1>p, RunFields DEF GiveUp, NoRun, requestVars, WorkerKnowsRow,
       Examining, WorkerHolds
  <2>3. RowIsTrue'
    BY <1>9, <1>h, <1>k, <1>p, <1>s DEF GiveUp, NoRun, requestVars, RowIsTrue, WorkerKnowsRow,
       Examining
  <2> QED BY <1>w, <2>1, <2>2, <2>3 DEF FilesMatch
<1>10. CASE WorkerDies
  <2>1. OneJob'
    BY <1>10, <1>k, <1>p DEF WorkerDies, NoRun, requestVars, OneJob, Pending
  <2>2. WorkerKnowsRow'
    BY <1>10, <1>h, <1>k, <1>p, RunFields DEF WorkerDies, NoRun, requestVars, WorkerKnowsRow,
       Examining, WorkerHolds
  <2>3. RowIsTrue'
    BY <1>10, <1>h, <1>k, <1>p, <1>s DEF WorkerDies, NoRun, requestVars, RowIsTrue,
       WorkerKnowsRow, Examining
  <2> QED BY <1>w, <2>1, <2>2, <2>3 DEF FilesMatch
<1> QED BY <1>1, <1>2, <1>3, <1>4, <1>5, <1>6, <1>7, <1>8, <1>9, <1>10 DEF RunWorker

\* Failures are only ever added; so is what the history records.
LEMMA HistoryGrows ==
  ASSUME FilesTypeOK, FilesNext, NEW kinds, Without(kinds)'
  PROVE  Without(kinds) /\ \A k \in kinds : ~Fail(k)
<1>1. failures' = failures \/ \E k \in Failures : Fail(k)
  BY DEF FilesNext, ServeRequest, RunWorker, Fail, CreateRow, StoreFile, Enqueue, UndoRead,
     UndoWrite, EraseUpload, ReadForReplace, StoreNewFile, RewriteRow, DropOldFile,
        DropOldThumb, BeginPatch, PatchRead, PatchWrite, BeginDelete, DeleteRow, EraseFile,
           EraseThumb, ApiDies, TakeJob, FindJob, LoadContent, Download, MakeThumb,
              DropStaleThumb, ReadRow, WriteReady, GiveUp, WorkerDies
<1>2. ASSUME NEW k, Fail(k) PROVE k \in Failures /\ failures'[k] # 0 /\ \A j \in Failures : j # k => failures'[j] = failures[j]
  BY <1>2 DEF Fail, FilesTypeOK
<1>3. \A k \in kinds : ~Fail(k)
  BY <1>2 DEF Without
<1>4. Without(kinds)
  BY <1>1, <1>2, <1>3 DEF Without
<1> QED BY <1>3, <1>4

\* Nor did a patch.
LEMMA NoPatchBefore ==
  ASSUME FilesTypeOK, RequestsHold, NEW r \in Requests, ServeRequest(r), NoPatch'
  PROVE  NoPatch /\ OperationOf[r] # "patch"
BY Moves DEF NoPatch

\* While nothing fails and nothing is patched, each step of a request keeps a READY
\* row true of its file.
LEMMA DescribesServed ==
  ASSUME FilesTypeOK, RequestsHold, FilesMatch, RowDescribes, NoPatch',
         ~Fail("store"), ~Fail("rows"), ~Fail("api"), ~Fail("late"),
         NEW r \in Requests, ServeRequest(r)
  PROVE  RowDescribes'
<1>h. RequestHolds(r) /\ OwnsRow(r) /\ NoPatch /\ OperationOf[r] # "patch" /\ (row # None => row \in Row)
  BY NoPatchBefore DEF RequestsHold, FilesMatch, WritersOwnRow, FilesTypeOK
<1>o. ASSUME NEW q \in Requests, q # r PROVE step'[q] = step[q]
  BY <1>o, Moves
<1>k. ASSUME row' = row, files' = files, step[r] # "newRow" PROVE RowDescribes'
  BY <1>h, <1>k, <1>o DEF RowDescribes
<1>1. CASE CreateRow(r)
  BY <1>1, <1>h, <1>o, RowFields DEF CreateRow, Begin, Fresh, Then, RowDescribes, OwnsRow,
     Writing, RowWritten
<1>2. CASE StoreFile(r)
  BY <1>2, <1>h, <1>o, RowFields DEF StoreFile, Put, Then, RowDescribes, OwnsRow, Writing,
     RowWritten
<1>3. CASE Enqueue(r)
  BY <1>3, <1>k DEF Enqueue
<1>4. CASE UndoRead(r)
  BY <1>4, <1>k DEF UndoRead
<1>5. CASE UndoWrite(r)
  <2>1. ASSUME row # None, row' = [seen[r] EXCEPT !.status = "FAILED"]
        PROVE  row'.status = "FAILED" /\ row'.size = row.size /\ row'.sum = row.sum
    BY <1>5, <1>h, <2>1, StatusOnly DEF UndoWrite, OwnsRow
  <2>2. CASE row' = row
    BY <1>5, <1>k, <2>2 DEF UndoWrite
  <2> QED BY <1>5, <1>h, <2>1, <2>2 DEF UndoWrite, RowDescribes
<1>6. CASE EraseUpload(r)
  BY <1>6, <1>h, <1>o, RowFields DEF EraseUpload, Put, Then, RowDescribes, OwnsRow, Writing,
     RowWritten
<1>7. CASE ReadForReplace(r)
  BY <1>7, <1>k DEF ReadForReplace, Begin
<1>8. CASE StoreNewFile(r)
  BY <1>8, <1>h, <1>o, RowFields DEF StoreNewFile, Put, Then, RowDescribes, OwnsRow, Writing,
     RowWritten, FilesTypeOK
<1>9. CASE RewriteRow(r)
  BY <1>9, <1>h, <1>o, RowFields DEF RewriteRow, Fresh, Then, RowDescribes, OwnsRow, Writing,
     RowWritten
<1>10. CASE DropOldFile(r)
  BY <1>10, <1>h, <1>o, RowFields DEF DropOldFile, Put, Then, RowDescribes, OwnsRow, Writing,
     RowWritten
<1>11. CASE DropOldThumb(r)
  BY <1>11, <1>k DEF DropOldThumb
<1>12. CASE BeginPatch(r)
  BY <1>12, <1>h DEF BeginPatch, Begin
<1>13. CASE PatchRead(r)
  BY <1>13, <1>h DEF PatchRead, RequestHolds
<1>14. CASE PatchWrite(r)
  BY <1>14, <1>h DEF PatchWrite, RequestHolds
<1>15. CASE BeginDelete(r)
  BY <1>15, <1>k DEF BeginDelete, Begin
<1>16. CASE DeleteRow(r)
  BY <1>16, <1>h, <1>o, RowFields DEF DeleteRow, Then, RowDescribes, OwnsRow, Writing,
     RowWritten
<1>17. CASE EraseFile(r)
  BY <1>17, <1>h, <1>o, RowFields DEF EraseFile, Put, Then, RowDescribes, OwnsRow, Writing,
     RowWritten, RequestHolds
<1>18. CASE EraseThumb(r)
  BY <1>18, <1>k DEF EraseThumb
<1>19. CASE ApiDies(r)
  BY <1>19, <1>k DEF ApiDies
<1> QED BY <1>1, <1>2, <1>3, <1>4, <1>5, <1>6, <1>7, <1>8, <1>9, <1>10, <1>11, <1>12, <1>13,
   <1>14, <1>15, <1>16, <1>17, <1>18, <1>19 DEF ServeRequest

\* So does each step of the worker.
LEMMA DescribesRun ==
  ASSUME FilesTypeOK, WorkerHolds, FilesMatch, RowDescribes, NoPatch', RunWorker
  PROVE  RowDescribes'
<1>k. /\ UNCHANGED requestVars /\ files' = files
      /\ row' # None => row # None /\ row'.key = row.key /\ row'.sum = row.sum
  BY RunKeepsRow DEF FilesMatch
<1>1. CASE WriteReady
  <2>1. stage # "idle" /\ (row' # None => row # None)
    BY <1>k, <1>1 DEF WriteReady
  <2>2. row' # None => row'.size = run.data /\ row'.meta = run.data /\ run.data = row.sum
    BY <1>1, <1>k DEF WriteReady, WorkerHolds, FilesMatch, WorkerKnowsRow, Examining, Row
  <2>3. row' # None => files[row.key] = row.sum
    BY <2>1 DEF FilesMatch, OneJob, Pending
  <2> QED BY <1>k, <2>2, <2>3 DEF RowDescribes
<1>2. CASE GiveUp
  <2>1. row' # None => row'.size = row.size /\ row'.status = "FAILED"
    BY <1>2, <1>k, StatusOnly DEF GiveUp
  <2> QED BY <1>k, <2>1 DEF RowDescribes, NoPatch, requestVars
<1>3. CASE UNCHANGED row
  BY <1>k, <1>3 DEF RowDescribes, NoPatch, requestVars
<1> QED BY <1>1, <1>2, <1>3 DEF RunWorker, TakeJob, FindJob, LoadContent, Download,
   MakeThumb, DropStaleThumb, ReadRow, WorkerDies

\* A request served alone.
LEMMA OthersClosed ==
  ASSUME FilesTypeOK, MeetNow, MeetNow', alone, alone',
         NEW r \in Requests, ServeRequest(r), NEW q \in Requests, q # r
  PROVE  step[q] \in Closed /\ step'[q] = step[q]
<1>1. step'[q] = step[q]
  BY Moves
<1>2. r \in Open \/ r \in Open'
  BY DEF ServeRequest, FilesTypeOK, Open, Closed, Then, AfterUndo, Begin, CreateRow,
     StoreFile, Enqueue, UndoRead, UndoWrite, EraseUpload, ReadForReplace, StoreNewFile,
        RewriteRow, DropOldFile, DropOldThumb, BeginPatch, PatchRead, PatchWrite,
           BeginDelete, DeleteRow, EraseFile, EraseThumb, ApiDies
<1> QED BY <1>1, <1>2 DEF MeetNow, Open

\* Then a request leaves no file that neither the row nor the rest of it accounts for.
LEMMA LeftServed ==
  ASSUME FilesTypeOK, RequestsHold, NothingYet, MeetNow, MeetNow', alone, alone', FilesMatch, NothingLeft,
         ~Fail("store"), ~Fail("rows"), ~Fail("api"), ~Fail("late"),
         NEW r \in Requests, ServeRequest(r)
  PROVE  NothingLeft'
<1>h. RequestHolds(r) /\ OwnsRow(r) /\ RequestLeaves(r) /\ (row # None => row \in Row)
  BY DEF RequestsHold, FilesMatch, WritersOwnRow, FilesTypeOK, NothingLeft
<1>o. ASSUME NEW q \in Requests, q # r PROVE step[q] \in Closed /\ step'[q] = step[q]
  BY <1>o, OthersClosed
<1>w. ASSUME RequestLeaves(r)' PROVE \A q \in Requests : RequestLeaves(q)'
  BY <1>w, <1>o DEF RequestLeaves, Closed, Writing, RowWritten
<1>m. ASSUME NEW m \in Mimes, files[m] # None
      PROVE  \/ row # None /\ row.key = m
             \/ step[r] = "newRow" /\ target[r] = m
             \/ step[r] \in {"dropFile", "eraseFile"} /\ seen[r].key = m
  BY <1>m, <1>o DEF NothingLeft, LeftFor, Closed
<1>1. CASE CreateRow(r)
  <2>1. RequestLeaves(r)'
    BY <1>1, <1>h, FreshRow, RowFields, FilesAssumption DEF CreateRow, Begin, Fresh, Then,
       RequestLeaves, OwnsRow, Writing, RowWritten
  <2>2. ASSUME NEW m \in Mimes, files'[m] # None PROVE LeftFor(m)'
    BY <1>1, <1>h, <1>m, <2>2, FreshRow, RowFields DEF CreateRow, Begin, Fresh, Then,
       LeftFor, RequestLeaves, OwnsRow, Writing, RowWritten, NothingYet
  <2> QED BY <1>w, <2>1, <2>2 DEF NothingLeft
<1>2. CASE StoreFile(r)
  <2>1. RequestLeaves(r)'
    BY <1>2, <1>h, FreshRow, RowFields DEF StoreFile, Put, Then, RequestLeaves, OwnsRow,
       Writing, RowWritten, FilesTypeOK
  <2>2. ASSUME NEW m \in Mimes, files'[m] # None PROVE LeftFor(m)'
    BY <1>2, <1>h, <1>m, <2>2, FreshRow, RowFields DEF StoreFile, Put, Then, LeftFor,
       RequestLeaves, OwnsRow, Writing, RowWritten, FilesTypeOK
  <2> QED BY <1>w, <2>1, <2>2 DEF NothingLeft
<1>3. CASE Enqueue(r)
  <2>1. RequestLeaves(r)'
    BY <1>3, <1>h, FreshRow, RowFields DEF Enqueue, Then, RequestLeaves, OwnsRow, Writing,
       RowWritten, FilesTypeOK
  <2>2. ASSUME NEW m \in Mimes, files'[m] # None PROVE LeftFor(m)'
    BY <1>3, <1>h, <1>m, <2>2, FreshRow, RowFields DEF Enqueue, Then, LeftFor, RequestLeaves,
       OwnsRow, Writing, RowWritten
  <2> QED BY <1>w, <2>1, <2>2 DEF NothingLeft
<1>4. CASE UndoRead(r)
  <2>1. RequestLeaves(r)'
    BY <1>4, <1>h, FreshRow, RowFields DEF UndoRead, AfterUndo, Then, RequestLeaves, OwnsRow,
       Writing, RowWritten, FilesTypeOK
  <2>2. ASSUME NEW m \in Mimes, files'[m] # None PROVE LeftFor(m)'
    BY <1>4, <1>h, <1>m, <2>2, FreshRow, RowFields DEF UndoRead, AfterUndo, Then, LeftFor,
       RequestLeaves, OwnsRow, Writing, RowWritten
  <2> QED BY <1>w, <2>1, <2>2 DEF NothingLeft
<1>5. CASE UndoWrite(r)
  <2>3. ASSUME row # None, row' = [seen[r] EXCEPT !.status = "FAILED"]
        PROVE  row' # None /\ row'.key = row.key
    BY <1>5, <1>h, <2>3, StatusOnly, RowFields DEF UndoWrite, OwnsRow
  <2>1. RequestLeaves(r)'
    BY <1>5, <1>h, <2>3, FreshRow, RowFields DEF UndoWrite, AfterUndo, Then, RequestLeaves,
       OwnsRow, Writing, RowWritten
  <2>2. ASSUME NEW m \in Mimes, files'[m] # None PROVE LeftFor(m)'
    BY <1>5, <1>h, <1>m, <2>3, <2>2, FreshRow, RowFields DEF UndoWrite, AfterUndo, Then,
       LeftFor, RequestLeaves, OwnsRow, Writing, RowWritten
  <2> QED BY <1>w, <2>1, <2>2 DEF NothingLeft
<1>6. CASE EraseUpload(r)
  <2>1. RequestLeaves(r)'
    BY <1>6, <1>h, FreshRow, RowFields DEF EraseUpload, Put, Then, RequestLeaves, OwnsRow,
       Writing, RowWritten
  <2>2. ASSUME NEW m \in Mimes, files'[m] # None PROVE LeftFor(m)'
    BY <1>6, <1>h, <1>m, <2>2, FreshRow, RowFields DEF EraseUpload, Put, Then, LeftFor,
       RequestLeaves, OwnsRow, Writing, RowWritten, FilesTypeOK
  <2> QED BY <1>w, <2>1, <2>2 DEF NothingLeft
<1>7. CASE ReadForReplace(r)
  <2>1. RequestLeaves(r)'
    BY <1>7, <1>h, FreshRow, RowFields DEF ReadForReplace, Begin, Then, RequestLeaves,
       OwnsRow, Writing, RowWritten, FilesTypeOK
  <2>2. ASSUME NEW m \in Mimes, files'[m] # None PROVE LeftFor(m)'
    BY <1>7, <1>h, <1>m, <2>2, FreshRow, RowFields DEF ReadForReplace, Begin, Then, LeftFor,
       RequestLeaves, OwnsRow, Writing, RowWritten
  <2> QED BY <1>w, <2>1, <2>2 DEF NothingLeft
<1>8. CASE StoreNewFile(r)
  <2>1. RequestLeaves(r)'
    BY <1>8, <1>h, FreshRow, RowFields DEF StoreNewFile, Put, Then, RequestLeaves, OwnsRow,
       Writing, RowWritten
  <2>2. ASSUME NEW m \in Mimes, files'[m] # None PROVE LeftFor(m)'
    BY <1>8, <1>h, <1>m, <2>2, FreshRow, RowFields DEF StoreNewFile, Put, Then, LeftFor,
       RequestLeaves, OwnsRow, Writing, RowWritten, FilesTypeOK
  <2> QED BY <1>w, <2>1, <2>2 DEF NothingLeft
<1>9. CASE RewriteRow(r)
  <2>1. RequestLeaves(r)'
    BY <1>9, <1>h, FreshRow, RowFields, FilesAssumption DEF RewriteRow, Fresh, Then,
       RequestLeaves, OwnsRow, Writing, RowWritten, FilesTypeOK, RequestHolds
  <2>2. ASSUME NEW m \in Mimes, files'[m] # None PROVE LeftFor(m)'
    BY <1>9, <1>h, <1>m, <2>2, FreshRow, RowFields, FilesAssumption DEF RewriteRow, Fresh,
       Then, LeftFor, RequestLeaves, OwnsRow, Writing, RowWritten, FilesTypeOK
  <2> QED BY <1>w, <2>1, <2>2 DEF NothingLeft
<1>10. CASE DropOldFile(r)
  <2>1. RequestLeaves(r)'
    BY <1>10, <1>h, FreshRow, RowFields DEF DropOldFile, Put, Then, RequestLeaves, OwnsRow,
       Writing, RowWritten
  <2>2. ASSUME NEW m \in Mimes, files'[m] # None PROVE LeftFor(m)'
    BY <1>10, <1>h, <1>m, <2>2, FreshRow, RowFields DEF DropOldFile, Put, Then, LeftFor,
       RequestLeaves, OwnsRow, Writing, RowWritten, FilesTypeOK
  <2> QED BY <1>w, <2>1, <2>2 DEF NothingLeft
<1>11. CASE DropOldThumb(r)
  <2>1. RequestLeaves(r)'
    BY <1>11, <1>h, FreshRow, RowFields DEF DropOldThumb, Then, RequestLeaves, OwnsRow,
       Writing, RowWritten
  <2>2. ASSUME NEW m \in Mimes, files'[m] # None PROVE LeftFor(m)'
    BY <1>11, <1>h, <1>m, <2>2, FreshRow, RowFields DEF DropOldThumb, Then, LeftFor,
       RequestLeaves, OwnsRow, Writing, RowWritten
  <2> QED BY <1>w, <2>1, <2>2 DEF NothingLeft
<1>12. CASE BeginPatch(r)
  <2>1. RequestLeaves(r)'
    BY <1>12, <1>h, FreshRow, RowFields DEF BeginPatch, Begin, Then, RequestLeaves, OwnsRow,
       Writing, RowWritten
  <2>2. ASSUME NEW m \in Mimes, files'[m] # None PROVE LeftFor(m)'
    BY <1>12, <1>h, <1>m, <2>2, FreshRow, RowFields DEF BeginPatch, Begin, Then, LeftFor,
       RequestLeaves, OwnsRow, Writing, RowWritten
  <2> QED BY <1>w, <2>1, <2>2 DEF NothingLeft
<1>13. CASE PatchRead(r)
  <2>1. RequestLeaves(r)'
    BY <1>13, <1>h, FreshRow, RowFields DEF PatchRead, Then, RequestLeaves, OwnsRow, Writing,
       RowWritten, FilesTypeOK
  <2>2. ASSUME NEW m \in Mimes, files'[m] # None PROVE LeftFor(m)'
    BY <1>13, <1>h, <1>m, <2>2, FreshRow, RowFields DEF PatchRead, Then, LeftFor,
       RequestLeaves, OwnsRow, Writing, RowWritten
  <2> QED BY <1>w, <2>1, <2>2 DEF NothingLeft
<1>14. CASE PatchWrite(r)
  <2>3. ASSUME row # None, row' = [seen[r] EXCEPT !.status = row.status]
        PROVE  row' # None /\ row'.key = row.key
    BY <1>14, <1>h, <2>3, StatusOnly, RowFields DEF PatchWrite, OwnsRow, RequestHolds
  <2>1. RequestLeaves(r)'
    BY <1>14, <1>h, <2>3, FreshRow, RowFields DEF PatchWrite, Then, RequestLeaves, OwnsRow,
       Writing, RowWritten, FilesTypeOK
  <2>2. ASSUME NEW m \in Mimes, files'[m] # None PROVE LeftFor(m)'
    BY <1>14, <1>h, <1>m, <2>3, <2>2, FreshRow, RowFields DEF PatchWrite, Then, LeftFor,
       RequestLeaves, OwnsRow, Writing, RowWritten
  <2> QED BY <1>w, <2>1, <2>2 DEF NothingLeft
<1>15. CASE BeginDelete(r)
  <2>1. RequestLeaves(r)'
    BY <1>15, <1>h, FreshRow, RowFields DEF BeginDelete, Begin, Then, RequestLeaves, OwnsRow,
       Writing, RowWritten, FilesTypeOK
  <2>2. ASSUME NEW m \in Mimes, files'[m] # None PROVE LeftFor(m)'
    BY <1>15, <1>h, <1>m, <2>2, FreshRow, RowFields DEF BeginDelete, Begin, Then, LeftFor,
       RequestLeaves, OwnsRow, Writing, RowWritten
  <2> QED BY <1>w, <2>1, <2>2 DEF NothingLeft
<1>16. CASE DeleteRow(r)
  <2>1. RequestLeaves(r)'
    BY <1>16, <1>h, FreshRow, RowFields DEF DeleteRow, Then, RequestLeaves, OwnsRow, Writing,
       RowWritten, FilesTypeOK
  <2>2. ASSUME NEW m \in Mimes, files'[m] # None PROVE LeftFor(m)'
    BY <1>16, <1>h, <1>m, <2>2, FreshRow, RowFields DEF DeleteRow, Then, LeftFor,
       RequestLeaves, OwnsRow, Writing, RowWritten, FilesTypeOK
  <2> QED BY <1>w, <2>1, <2>2 DEF NothingLeft
<1>17. CASE EraseFile(r)
  <2>1. RequestLeaves(r)'
    BY <1>17, <1>h, FreshRow, RowFields DEF EraseFile, Put, Then, RequestLeaves, OwnsRow,
       Writing, RowWritten, FilesTypeOK
  <2>2. ASSUME NEW m \in Mimes, files'[m] # None PROVE LeftFor(m)'
    BY <1>17, <1>h, <1>m, <2>2, FreshRow, RowFields DEF EraseFile, Put, Then, LeftFor,
       RequestLeaves, OwnsRow, Writing, RowWritten, FilesTypeOK
  <2> QED BY <1>w, <2>1, <2>2 DEF NothingLeft
<1>18. CASE EraseThumb(r)
  <2>1. RequestLeaves(r)'
    BY <1>18, <1>h, FreshRow, RowFields DEF EraseThumb, Then, RequestLeaves, OwnsRow,
       Writing, RowWritten, FilesTypeOK
  <2>2. ASSUME NEW m \in Mimes, files'[m] # None PROVE LeftFor(m)'
    BY <1>18, <1>h, <1>m, <2>2, FreshRow, RowFields DEF EraseThumb, Then, LeftFor,
       RequestLeaves, OwnsRow, Writing, RowWritten
  <2> QED BY <1>w, <2>1, <2>2 DEF NothingLeft
<1>19. CASE ApiDies(r)
  <2>1. RequestLeaves(r)'
    BY <1>19, <1>h, FreshRow, RowFields DEF ApiDies, Then, RequestLeaves, OwnsRow, Writing,
       RowWritten
  <2>2. ASSUME NEW m \in Mimes, files'[m] # None PROVE LeftFor(m)'
    BY <1>19, <1>h, <1>m, <2>2, FreshRow, RowFields DEF ApiDies, Then, LeftFor,
       RequestLeaves, OwnsRow, Writing, RowWritten
  <2> QED BY <1>w, <2>1, <2>2 DEF NothingLeft
<1> QED BY <1>1, <1>2, <1>3, <1>4, <1>5, <1>6, <1>7, <1>8, <1>9, <1>10, <1>11, <1>12, <1>13,
   <1>14, <1>15, <1>16, <1>17, <1>18, <1>19 DEF ServeRequest

\* Nor does the worker.
LEMMA LeftRun ==
  ASSUME FilesTypeOK, WorkerHolds, FilesMatch, NothingLeft, RunWorker
  PROVE  NothingLeft'
<1>1. /\ UNCHANGED requestVars /\ files' = files
      /\ row' # None => row # None /\ row'.key = row.key
      /\ row = None <=> row' = None
  BY RunKeepsRow DEF FilesMatch
<1> QED BY <1>1 DEF NothingLeft, RequestLeaves, LeftFor, requestVars

\* The invariant holds at first.
LEMMA FilesInitially == FilesInit => FilesInv
<1> SUFFICES ASSUME FilesInit PROVE FilesInv
  OBVIOUS
<1>1. FilesTypeOK
  BY NoRunTyped DEF FilesInit, FilesTypeOK, File, Step, Stage
<1>2. RequestsHold
  BY DEF FilesInit, RequestsHold, RequestHolds, Writing, RowWritten
<1>3. WorkerHolds /\ NothingYet /\ MeetNow
  BY DEF FilesInit, WorkerHolds, NothingYet, MeetNow, Open, Closed, Examining, NoRun
<1>4. FilesMatch
  BY DEF FilesInit, FilesMatch, OneJob, Pending, WritersOwnRow, OwnsRow, WorkerKnowsRow,
     RowIsTrue
<1>5. RowDescribes
  BY DEF FilesInit, RowDescribes
<1>6. NothingLeft
  BY DEF FilesInit, NothingLeft, RequestLeaves, LeftFor, Writing, RowWritten
<1> QED BY <1>1, <1>2, <1>3, <1>4, <1>5, <1>6 DEF FilesInv, FilesBase

\* Every step keeps the invariant.
LEMMA FilesInvStep == FilesInv /\ [FilesNext]_filesVars => FilesInv'
<1> SUFFICES ASSUME FilesInv, FilesNext PROVE FilesInv'
  <2>1. ASSUME FilesInv, UNCHANGED filesVars PROVE FilesInv'
    BY <2>1 DEF filesVars, requestVars, runVars, FilesInv, FilesBase, FilesTypeOK, RequestsHold,
       RequestHolds,
       WorkerHolds, NothingYet, MeetNow, Open, Without, FilesMatch, OneJob, Pending,
          WritersOwnRow, OwnsRow,
       WorkerKnowsRow, RowIsTrue, RowDescribes, NoPatch, NothingLeft, RequestLeaves, LeftFor
  <2> QED BY <2>1
<1>b. FilesTypeOK /\ RequestsHold /\ WorkerHolds /\ NothingYet /\ MeetNow
  BY DEF FilesInv, FilesBase
<1>1. FilesBase'
  BY <1>b, FilesTypeStep, RequestsHoldStep, WorkerHoldsStep, NothingYetStep,
     MeetNowStep DEF FilesBase, FilesNext
<1>a. (alone' => alone) /\ (apart' => apart) /\ MeetNow'
  BY <1>1 DEF FilesNext, Meet, FilesBase
<1>c. Without(Disturbing) => Without({"late"})
  BY DEF Without, Disturbing
<1>d. Without(Disturbing)' => Without({"late"})'
  BY DEF Without, Disturbing
<1>2. ASSUME apart', Without({"late"})' PROVE FilesMatch'
  <2>1. FilesMatch /\ ~Fail("late")
    BY <1>a, <1>b, <1>2, HistoryGrows DEF FilesInv
  <2>2. ASSUME NEW r \in Requests, ServeRequest(r) PROVE FilesMatch'
    BY <1>a, <1>b, <1>2, <2>1, <2>2, MatchServed
  <2>3. ASSUME RunWorker PROVE FilesMatch'
    BY <1>b, <2>1, <2>3, MatchRun
  <2> QED BY <2>2, <2>3 DEF FilesNext
<1>f. ASSUME Without(Disturbing)'
      PROVE  Without(Disturbing) /\ ~Fail("store") /\ ~Fail("rows") /\ ~Fail("api") /\ ~Fail("late")
  BY <1>b, <1>f, HistoryGrows DEF Disturbing
<1>3. ASSUME apart', Without(Disturbing)' PROVE RowDescribes'
  <2>1. FilesMatch /\ RowDescribes
    BY <1>a, <1>c, <1>f, <1>3 DEF FilesInv
  <2>2. ASSUME NoPatch', NEW r \in Requests, ServeRequest(r) PROVE RowDescribes'
    BY <1>b, <1>f, <1>3, <2>1, <2>2, DescribesServed
  <2>3. ASSUME NoPatch', RunWorker PROVE RowDescribes'
    BY <1>b, <2>1, <2>3, DescribesRun
  <2> QED BY <2>2, <2>3 DEF FilesNext, RowDescribes
<1>4. ASSUME alone', Without(Disturbing)' PROVE NothingLeft'
  <2>1. FilesMatch /\ NothingLeft
    BY <1>a, <1>c, <1>f, <1>4, <1>b DEF FilesInv, MeetNow
  <2>2. ASSUME NEW r \in Requests, ServeRequest(r) PROVE NothingLeft'
    BY <1>a, <1>b, <1>f, <1>4, <2>1, <2>2, LeftServed
  <2>3. ASSUME RunWorker PROVE NothingLeft'
    BY <1>b, <2>1, <2>3, LeftRun
  <2> QED BY <2>2, <2>3 DEF FilesNext
<1> QED BY <1>1, <1>2, <1>3, <1>4 DEF FilesInv

\* The invariant of ContentFiles, from which the three properties follow.
THEOREM FilesInvariant == FilesSpec => []FilesInv
<1>1. FilesInit => FilesInv
  BY FilesInitially
<1>2. FilesInv /\ [FilesNext]_filesVars => FilesInv'
  BY FilesInvStep
<1> QED BY <1>1, <1>2, PTL DEF FilesSpec

\* A READY row points at a missing file only after a late enqueue or an overlap of
\* writers, whatever fails or dies (the order of delete-content, replace-content-file).
THEOREM GhostsComeLateAlways == FilesSpec => []GhostsComeLate
<1>1. FilesInv => GhostsComeLate
  BY DEF FilesInv, FilesMatch, RowIsTrue, GhostsComeLate, NoGhost, Ready
<1> QED BY <1>1, FilesInvariant, PTL

\* The state is well formed, a READY row describes its file, and its thumbnail was
\* made from it (processContentIngestionJob, replace-content-file).
THEOREM ReadyIsTrueAlways == FilesSpec => []ReadyIsTrue
<1>1. ASSUME FilesInv PROVE ReadyDescribesFile
  <2>1. Without(Disturbing) => Without({"late"})
    BY DEF Without, Disturbing
  <2>2. ASSUME apart, Ready, Without(Disturbing), \A r \in Requests : step[r] # "newRow", NoPatch
        PROVE  row.size = row.sum /\ row.meta = row.sum /\ files[row.key] = row.sum
    BY <1>1, <2>2 DEF FilesInv, RowDescribes, Ready
  <2> QED BY <2>2 DEF ReadyDescribesFile, NoPatch, Disturbing
<1>2. FilesInv => ThumbnailIsOfFile
  BY DEF FilesInv, FilesMatch, RowIsTrue, ThumbnailIsOfFile, Ready
<1>3. FilesInv => ReadyIsTrue
  BY <1>1, <1>2 DEF FilesInv, FilesBase, ReadyIsTrue
<1> QED BY <1>3, FilesInvariant, PTL

\* Requests one at a time that do not fail leave no file but the one of the row
\* (the clean-up of replace-content-file, upload-content and delete-content).
THEOREM NoOrphansAlways == FilesSpec => []NoOrphanFiles
<1>1. ASSUME FilesInv PROVE NoOrphanFiles
  <2>1. ASSUME alone, Open = {}, Without(Disturbing), NEW m \in Mimes, files[m] # None
        PROVE  row # None /\ row.key = m
    <3>1. \A r \in Requests : step[r] \in Closed
      BY <2>1 DEF Open
    <3> QED BY <1>1, <2>1, <3>1 DEF FilesInv, NothingLeft, LeftFor, Closed
  <2> QED BY <2>1 DEF NoOrphanFiles, Disturbing
<1> QED BY <1>1, FilesInvariant, PTL
=============================================================================
