------------------------ MODULE InferenceQueueProofs ------------------------
(***************************************************************************)
(* Safety of InferenceQueue for every set of jobs and every queue depth.   *)
(* IInv is inductive; each safety invariant follows from it, and with it   *)
(* every step is a step of SerialServer.  Callers are answered and runs    *)
(* delivered if the actions whose guards hold are enabled.                 *)
(***************************************************************************)
EXTENDS InferenceQueue, TLAPS, SequenceTheorems, WellFoundedInduction

(* What start() leaves behind satisfies every part of the invariant.         *)
LEMMA InitIInv == Init => IInv
<1> SUFFICES ASSUME Init PROVE IInv
  OBVIOUS
<1>1. TypeOK
  BY QueueAssumption DEF Init, TypeOK, Entry, Answers
<1>2. Len(puts) = 0 /\ gets = 0
  BY DEF Init
<1>3. CallerInv /\ UnstartedInv /\ WorkerInv
  BY <1>2 DEF Init, CallerInv, UnstartedInv, WorkerInv, Unread
<1>4. PutsInv /\ TakenInv /\ StopInv /\ GaugeTracksDepth
  BY <1>2 DEF Init, PutsInv, TakenInv, StopInv, GaugeTracksDepth, Unread, Depth
<1>5. QED
  BY <1>1, <1>3, <1>4 DEF IInv

(* The length and the entries of the queue after a put.                      *)
LEMMA PutEntry ==
  ASSUME puts \in Seq(Entry), NEW e \in Entry, puts' = Append(puts, e)
  PROVE  /\ puts' \in Seq(Entry)
         /\ Len(puts) \in Nat
         /\ Len(puts') = Len(puts) + 1
         /\ puts'[Len(puts) + 1] = e
         /\ \A i \in 1 .. Len(puts) : puts'[i] = puts[i]
  OBVIOUS

(* One turn of the worker's loop, from a state in which every entry taken    *)
(* before is dealt with: what get() and the dispatch leave behind.           *)
LEMMA TakeNextStep ==
  ASSUME QueueAssumption, TypeOK, TakeNext, UNCHANGED puts,
         future' \in [Jobs -> {"none", "pending", "result", "exception", "cancelled"}],
         \A i, k \in 1 .. Len(puts) : puts[i] = puts[k] => i = k,
         \A i \in 1 .. gets :
           /\ puts[i] # None
           /\ \/ pool[puts[i]] = "returned" /\ future'[puts[i]] \in {"result", "cancelled"}
              \/ pool[puts[i]] = "raised" /\ future'[puts[i]] \in {"exception", "cancelled"}
              \/ pool[puts[i]] = "out" /\ future'[puts[i]] = "cancelled",
         \A i \in Unread : puts[i] # None =>
           pool[puts[i]] = "out" /\ future'[puts[i]] \in {"pending", "cancelled"},
         GaugeTracksDepth
  PROVE  /\ gets' \in gets .. Len(puts)
         /\ worker' \in {"idle", "serving", "stopped"}
         /\ current' \in Entry
         /\ depthGauge' \in 0 .. MaxDepth
         /\ pool' \in [Jobs -> {"out", "submitted", "running", "returned", "raised"}]
         /\ \A j \in Jobs : pool'[j] # pool[j] => worker' = "serving" /\ j = current'
         /\ worker' = "serving" => pool[current'] = "out"
         /\ TakenInv'
         /\ WorkerInv'
         /\ \A i \in Unread' : puts[i] # None =>
              pool'[puts[i]] = "out" /\ future'[puts[i]] \in {"pending", "cancelled"}
         /\ GaugeTracksDepth'
<1> DEFINE done(j) ==
      \/ pool[j] = "returned" /\ future'[j] \in {"result", "cancelled"}
      \/ pool[j] = "raised" /\ future'[j] \in {"exception", "cancelled"}
      \/ pool[j] = "out" /\ future'[j] = "cancelled"
<1>0. /\ Len(puts) \in Nat /\ gets \in 0 .. Len(puts)
      /\ \A i \in 1 .. Len(puts) : puts[i] \in Jobs \cup {None}
      /\ pool \in [Jobs -> {"out", "submitted", "running", "returned", "raised"}]
  BY DEF TypeOK, Entry
<1>1. PICK n \in gets .. Len(puts) :
        /\ \A i \in gets + 1 .. n : puts[i] # None /\ future'[puts[i]] = "cancelled"
        /\ \/ n = Len(puts) /\ gets' = n /\ worker' = "idle" /\ current' = None /\ pool' = pool
           \/ /\ n < Len(puts) /\ puts[n + 1] = None /\ gets' = n + 1
              /\ worker' = "stopped" /\ current' = None /\ pool' = pool
           \/ /\ n < Len(puts) /\ puts[n + 1] # None /\ future'[puts[n + 1]] # "cancelled"
              /\ gets' = n + 1 /\ worker' = "serving" /\ current' = puts[n + 1]
              /\ pool' = [pool EXCEPT ![puts[n + 1]] = "submitted"]
        /\ depthGauge' = IF gets' = gets THEN depthGauge ELSE Len(puts) - gets'
  BY DEF TakeNext, Skips, Abandoned, GaugeAfterGet
<1>2. /\ gets' \in gets .. Len(puts)
      /\ worker' \in {"idle", "serving", "stopped"}
      /\ gets' = IF worker' = "idle" THEN n ELSE n + 1
  BY <1>0, <1>1
<1>3. /\ current' \in Entry
      /\ depthGauge' \in 0 .. MaxDepth
  BY <1>0, <1>1, <1>2 DEF Entry, TypeOK
<1>4. \A i \in gets + 1 .. n : /\ i \in Unread
                              /\ puts[i] # None /\ puts[i] \in Jobs
                              /\ pool[puts[i]] = "out" /\ future'[puts[i]] = "cancelled"
  BY <1>0, <1>1 DEF Unread
<1>5. \A i \in 1 .. n : puts[i] # None /\ puts[i] \in Jobs /\ done(puts[i])
  <2> SUFFICES ASSUME NEW i \in 1 .. n
               PROVE  puts[i] # None /\ puts[i] \in Jobs /\ done(puts[i])
    OBVIOUS
  <2>1. CASE i \in 1 .. gets
    BY <1>0, <2>1
  <2>2. CASE i \in gets + 1 .. n
    BY <1>4, <2>2
  <2>3. QED
    BY <1>0, <1>1, <2>1, <2>2
<1>6. Unread' \subseteq Unread /\ Unread' = gets' + 1 .. Len(puts)
  BY <1>0, <1>2 DEF Unread
<1>7. GaugeTracksDepth'
  <2> SUFFICES ASSUME \A i \in Unread' : puts[i] # None
               PROVE  depthGauge' = Len(puts) - gets'
    BY DEF GaugeTracksDepth, Depth
  <2>1. CASE gets' = gets
    BY <2>1, <1>1, <1>6 DEF GaugeTracksDepth, Depth, Unread
  <2>2. CASE gets' # gets
    BY <2>2, <1>1
  <2>3. QED
    BY <2>1, <2>2
<1>8. CASE worker' # "serving"
  <2>1. pool' = pool /\ current' = None
    BY <1>1, <1>8
  <2>2. TakenInv'
    <3> SUFFICES ASSUME NEW i \in 1 .. gets'
                 PROVE  \/ worker' = "stopped" /\ i = gets'
                        \/ puts[i] # None /\ DealtWith(puts[i])'
      BY DEF TakenInv
    <3>1. CASE i \in 1 .. n
      BY <3>1, <1>5, <2>1 DEF DealtWith
    <3>2. CASE i = n + 1
      BY <3>2, <1>0, <1>2, <1>8, <1>1
    <3>3. QED
      BY <3>1, <3>2, <1>0, <1>2
  <2>3. WorkerInv'
    BY <1>0, <1>1, <1>8, <2>1 DEF WorkerInv
  <2>4. \A i \in Unread' : puts[i] # None =>
          pool'[puts[i]] = "out" /\ future'[puts[i]] \in {"pending", "cancelled"}
    BY <1>6, <2>1
  <2>5. pool' \in [Jobs -> {"out", "submitted", "running", "returned", "raised"}]
    BY <1>0, <2>1
  <2>6. QED
    BY <1>2, <1>3, <1>7, <1>8, <2>1, <2>2, <2>3, <2>4, <2>5
<1>9. CASE worker' = "serving"
  <2>1. /\ n < Len(puts) /\ puts[n + 1] # None /\ future'[puts[n + 1]] # "cancelled"
        /\ gets' = n + 1 /\ current' = puts[n + 1]
        /\ pool' = [pool EXCEPT ![current'] = "submitted"]
    BY <1>1, <1>9
  <2>2. n + 1 \in Unread /\ n + 1 \in 1 .. Len(puts)
    BY <1>0, <2>1 DEF Unread
  <2>3. current' \in Jobs /\ pool[current'] = "out" /\ future'[current'] = "pending"
    BY <1>0, <2>1, <2>2
  <2>4. \A i \in 1 .. Len(puts) : i # n + 1 => puts[i] # current'
    BY <2>1, <2>2
  <2>5. \A i \in 1 .. Len(puts) : i # n + 1 /\ puts[i] \in Jobs => pool'[puts[i]] = pool[puts[i]]
    BY <1>0, <2>1, <2>3, <2>4
  <2>6. TakenInv'
    <3> SUFFICES ASSUME NEW i \in 1 .. gets', i # gets'
                 PROVE  puts[i] # None /\ DealtWith(puts[i])'
      BY <1>9 DEF TakenInv
    <3>1. i \in 1 .. n /\ i \in 1 .. Len(puts) /\ i # n + 1
      BY <1>0, <2>1
    <3>2. puts[i] # None /\ puts[i] \in Jobs /\ done(puts[i])
      BY <1>5, <3>1
    <3>3. pool'[puts[i]] = pool[puts[i]]
      BY <2>5, <3>1, <3>2
    <3>4. QED
      BY <3>2, <3>3 DEF DealtWith
  <2>7. pool'[current'] # "out"
    BY <1>0, <2>1, <2>3
  <2>8. WorkerInv'
    BY <1>9, <1>0, <2>1, <2>3, <2>7 DEF WorkerInv
  <2>9. \A i \in Unread' : puts[i] # None =>
          pool'[puts[i]] = "out" /\ future'[puts[i]] \in {"pending", "cancelled"}
    <3> SUFFICES ASSUME NEW i \in Unread', puts[i] # None
                 PROVE  pool'[puts[i]] = "out" /\ future'[puts[i]] \in {"pending", "cancelled"}
      OBVIOUS
    <3>1. i \in Unread /\ i \in 1 .. Len(puts) /\ i # n + 1 /\ puts[i] \in Jobs
      BY <1>0, <1>6, <2>1
    <3>2. QED
      BY <2>5, <3>1
  <2>10. pool' \in [Jobs -> {"out", "submitted", "running", "returned", "raised"}]
    BY <1>0, <2>1
  <2>11. \A j \in Jobs : pool'[j] # pool[j] => j = current'
    BY <1>0, <2>1
  <2>12. QED
    BY <1>2, <1>3, <1>7, <1>9, <2>3, <2>6, <2>8, <2>9, <2>10, <2>11
<1>10. QED
  BY <1>8, <1>9

-----------------------------------------------------------------------------
(* submit() *)

(* An admission puts a job that was not in the queue's history and creates   *)
(* its pending future.                                                       *)
LEMMA AcceptKeepsIInv ==
  ASSUME QueueAssumption, IInv, NEW j \in Jobs, Accept(j)
  PROVE  IInv'
<1> USE DEF IInv
<1>1. /\ j # None /\ puts' = Append(puts, j) /\ gets' = gets
      /\ future[j] = "none" /\ pool[j] = "out"
      /\ future' = [future EXCEPT ![j] = "pending"]
      /\ caller' = [caller EXCEPT ![j] = "waiting"]
  BY DEF Accept, QueueAssumption, CallerInv, UnstartedInv, TypeOK
<1>2. /\ puts' \in Seq(Entry)
      /\ Len(puts) \in Nat /\ gets \in 0 .. Len(puts)
      /\ Len(puts') = Len(puts) + 1
      /\ puts'[Len(puts) + 1] = j
      /\ \A i \in 1 .. Len(puts) : puts'[i] = puts[i] /\ puts[i] \in Entry
  BY <1>1, PutEntry DEF TypeOK, Entry
<1>3. \A i \in 1 .. Len(puts) : /\ puts[i] # j
                                /\ puts[i] # None => future'[puts[i]] = future[puts[i]]
  BY <1>1, <1>2 DEF PutsInv, TypeOK, Entry
<1>4. TypeOK'
  BY <1>1, <1>2, QueueAssumption DEF Accept, TypeOK, Depth, Full
<1>5. CallerInv'
  <2>1. ~expired[j]
    BY DEF Accept, CallerInv, TypeOK
  <2>2. QED
    BY <1>1, <2>1 DEF Accept, CallerInv, TypeOK
<1>6. PutsInv'
  <2>1. \A i, k \in 1 .. Len(puts') : puts'[i] = puts'[k] => i = k
    BY <1>2, <1>3 DEF PutsInv
  <2>2. \A i \in 1 .. Len(puts') : puts'[i] # None => future'[puts'[i]] # "none"
    BY <1>1, <1>2, <1>3 DEF PutsInv, TypeOK
  <2>3. ASSUME NEW h \in Jobs, future'[h] # "none" PROVE \E i \in 1 .. Len(puts') : puts'[i] = h
    <3>1. CASE h = j
      BY <3>1, <1>2
    <3>2. CASE h # j
      <4>1. PICK i \in 1 .. Len(puts) : puts[i] = h
        BY <3>2, <2>3, <1>1 DEF PutsInv, TypeOK
      <4>2. QED
        BY <4>1, <1>2
    <3>3. QED
      BY <3>1, <3>2
  <2>4. QED
    BY <2>1, <2>2, <2>3 DEF PutsInv
<1>7. UnstartedInv'
  <2>1. \A h \in Jobs : future'[h] = "none" => pool'[h] = "out"
    BY <1>1 DEF Accept, UnstartedInv, TypeOK
  <2>2. ASSUME NEW i \in Unread', puts'[i] # None
        PROVE  pool'[puts'[i]] = "out" /\ future'[puts'[i]] \in {"pending", "cancelled"}
    <3>1. CASE i = Len(puts) + 1
      BY <3>1, <1>1, <1>2 DEF Accept, TypeOK
    <3>2. CASE i # Len(puts) + 1
      <4>1. i \in Unread /\ i \in 1 .. Len(puts) /\ puts'[i] = puts[i]
        BY <3>2, <1>1, <1>2 DEF Unread
      <4>2. QED
        BY <4>1, <2>2, <1>3 DEF Accept, UnstartedInv
    <3>3. QED
      BY <3>1, <3>2
  <2>3. QED
    BY <2>1, <2>2 DEF UnstartedInv
<1>8. TakenInv'
  BY <1>1, <1>2, <1>3 DEF Accept, TakenInv, DealtWith
<1>9. WorkerInv'
  <2>1. worker = "serving" => current # j
    BY <1>1 DEF WorkerInv
  <2>2. gets > 0 => puts'[gets] = puts[gets]
    BY <1>2
  <2>3. worker = "serving" => future'[current] = future[current]
    BY <1>1, <2>1 DEF TypeOK, Entry, WorkerInv
  <2>4. QED
    BY <1>1, <1>2, <2>2, <2>3 DEF Accept, WorkerInv
<1>10. StopInv'
  BY <1>1, <1>2 DEF Accept, StopInv
<1>11. GaugeTracksDepth'
  BY <1>1, <1>2 DEF Accept, GaugeTracksDepth, Depth
<1>12. QED
  BY <1>4, <1>5, <1>6, <1>7, <1>8, <1>9, <1>10, <1>11

(* A refusal touches only the caller, whose job never gets a future.         *)
LEMMA RefuseKeepsIInv ==
  ASSUME QueueAssumption, IInv, NEW j \in Jobs, Refuse(j)
  PROVE  IInv'
<1> USE DEF IInv
<1>1. TypeOK' /\ CallerInv'
  BY DEF Refuse, TypeOK, CallerInv, Answers
<1>2. PutsInv' /\ UnstartedInv' /\ TakenInv' /\ WorkerInv' /\ StopInv' /\ GaugeTracksDepth'
  BY DEF Refuse, PutsInv, UnstartedInv, Unread, TakenInv, DealtWith, WorkerInv, StopInv,
         GaugeTracksDepth, Depth
<1>3. QED
  BY <1>1, <1>2

(* A timer cancels a pending future and changes no other, so no entry that   *)
(* is dealt with becomes undone.                                             *)
LEMMA ExpireKeepsIInv ==
  ASSUME QueueAssumption, IInv, NEW j \in Jobs, Expire(j)
  PROVE  IInv'
<1> USE DEF IInv
<1>1. /\ future' \in [Jobs -> {"none", "pending", "result", "exception", "cancelled"}]
      /\ \A h \in Jobs : \/ future'[h] = future[h]
                         \/ h = j /\ future[h] = "pending" /\ future'[h] = "cancelled"
      /\ \A h \in Jobs : future'[h] = "pending" => future[h] = "pending" /\ h # j
      /\ expired' = [expired EXCEPT ![j] = TRUE]
  BY DEF Expire, TypeOK
<1>2. \A i \in 1 .. Len(puts) : puts[i] \in Entry
  BY DEF TypeOK
<1>3. TypeOK'
  BY <1>1 DEF Expire, TypeOK
<1>4. CallerInv'
  BY <1>1 DEF Expire, CallerInv, TypeOK
<1>5. PutsInv'
  BY <1>1, <1>2 DEF Expire, PutsInv, Entry
<1>6. UnstartedInv'
  BY <1>1, <1>2 DEF Expire, UnstartedInv, Unread, Entry, TypeOK
<1>7. TakenInv'
  <2> SUFFICES ASSUME NEW i \in 1 .. gets, puts[i] # None, DealtWith(puts[i])
               PROVE  DealtWith(puts[i])'
    BY DEF Expire, TakenInv
  <2>1. puts[i] \in Jobs
    BY <1>2 DEF Entry, TypeOK
  <2>2. QED
    BY <1>1, <2>1 DEF Expire, DealtWith
<1>8. WorkerInv'
  BY <1>1 DEF Expire, WorkerInv, Entry, TypeOK
<1>9. StopInv' /\ GaugeTracksDepth'
  BY DEF Expire, StopInv, GaugeTracksDepth, Depth, Unread
<1>10. QED
  BY <1>3, <1>4, <1>5, <1>6, <1>7, <1>8, <1>9

(* The resumed caller's answer is the one its future and its timer call for. *)
LEMMA ResumeKeepsIInv ==
  ASSUME QueueAssumption, IInv, NEW j \in Jobs, Resume(j)
  PROVE  IInv'
<1> USE DEF IInv
<1>1. TypeOK'
  BY DEF Resume, Answer, TypeOK, Answers
<1>2. CallerInv'
  <2>1. /\ future[j] \in {"result", "exception", "cancelled"}
        /\ future[j] = "cancelled" => expired[j]
        /\ caller' = [caller EXCEPT ![j] = IF expired[j] THEN "timeout"
                                           ELSE IF future[j] = "result" THEN "ok" ELSE "error"]
    BY DEF Resume, Answer, CallerInv, TypeOK
  <2>2. QED
    BY <2>1 DEF Resume, CallerInv, TypeOK
<1>3. PutsInv' /\ UnstartedInv' /\ TakenInv' /\ WorkerInv' /\ StopInv' /\ GaugeTracksDepth'
  BY DEF Resume, PutsInv, UnstartedInv, Unread, TakenInv, DealtWith, WorkerInv, StopInv,
         GaugeTracksDepth, Depth
<1>4. QED
  BY <1>1, <1>2, <1>3

-----------------------------------------------------------------------------
(* _run() *)

(* A turn of the loop keeps the invariant, given what the step that leads to *)
(* it did to the futures.                                                    *)
LEMMA TakeNextKeepsIInv ==
  ASSUME QueueAssumption, IInv, TakeNext, UNCHANGED <<caller, expired, puts, stopper>>,
         worker \in {"idle", "serving"},
         future' \in [Jobs -> {"none", "pending", "result", "exception", "cancelled"}],
         \A j \in Jobs : future'[j] = "none" <=> future[j] = "none",
         CallerInv',
         \A i \in 1 .. gets :
           /\ puts[i] # None
           /\ \/ pool[puts[i]] = "returned" /\ future'[puts[i]] \in {"result", "cancelled"}
              \/ pool[puts[i]] = "raised" /\ future'[puts[i]] \in {"exception", "cancelled"}
              \/ pool[puts[i]] = "out" /\ future'[puts[i]] = "cancelled",
         \A i \in Unread : puts[i] # None =>
           pool[puts[i]] = "out" /\ future'[puts[i]] \in {"pending", "cancelled"}
  PROVE  IInv'
<1> USE DEF IInv
<1>1. \A i, k \in 1 .. Len(puts) : puts[i] = puts[k] => i = k
  BY DEF PutsInv
<1>2. /\ gets' \in gets .. Len(puts)
      /\ worker' \in {"idle", "serving", "stopped"}
      /\ current' \in Entry
      /\ depthGauge' \in 0 .. MaxDepth
      /\ pool' \in [Jobs -> {"out", "submitted", "running", "returned", "raised"}]
      /\ \A j \in Jobs : pool'[j] # pool[j] => worker' = "serving" /\ j = current'
      /\ TakenInv' /\ WorkerInv' /\ GaugeTracksDepth'
      /\ \A i \in Unread' : puts[i] # None =>
           pool'[puts[i]] = "out" /\ future'[puts[i]] \in {"pending", "cancelled"}
  BY <1>1, TakeNextStep
<1>3. TypeOK'
  BY <1>2 DEF TypeOK, Entry
<1>4. PutsInv'
  BY DEF PutsInv, TypeOK, Entry
<1>5. UnstartedInv'
  <2>1. ASSUME NEW j \in Jobs, future'[j] = "none" PROVE pool'[j] = "out"
    <3>1. pool[j] = "out"
      BY <2>1 DEF UnstartedInv
    <3>2. worker' = "serving" => j # current'
      BY <1>2, <2>1 DEF WorkerInv
    <3>3. QED
      BY <1>2, <3>1, <3>2
  <2>2. QED
    BY <1>2, <2>1 DEF UnstartedInv
<1>6. StopInv'
  BY DEF StopInv
<1>7. QED
  BY <1>2, <1>3, <1>4, <1>5, <1>6

(* A put wakes the worker with every taken entry dealt with.                 *)
LEMMA WakeKeepsIInv ==
  ASSUME QueueAssumption, IInv, Wake
  PROVE  IInv'
<1> USE DEF IInv
<1>1. /\ UNCHANGED <<caller, future, expired, puts, stopper>> /\ TakeNext
      /\ worker = "idle"
  BY DEF Wake
<1>2. future' \in [Jobs -> {"none", "pending", "result", "exception", "cancelled"}] /\ CallerInv'
  BY <1>1 DEF TypeOK, CallerInv
<1>3. /\ \A i \in 1 .. gets :
           /\ puts[i] # None
           /\ \/ pool[puts[i]] = "returned" /\ future'[puts[i]] \in {"result", "cancelled"}
              \/ pool[puts[i]] = "raised" /\ future'[puts[i]] \in {"exception", "cancelled"}
              \/ pool[puts[i]] = "out" /\ future'[puts[i]] = "cancelled"
      /\ \A i \in Unread : puts[i] # None =>
           pool[puts[i]] = "out" /\ future'[puts[i]] \in {"pending", "cancelled"}
  BY <1>1 DEF TakenInv, DealtWith, UnstartedInv
<1>4. QED
  BY <1>1, <1>2, <1>3, TakeNextKeepsIInv

(* The worker settles the job it awaited, which is then dealt with, and goes *)
(* round: its future is pending or cancelled, never set already.             *)
LEMMA SettleKeepsIInv ==
  ASSUME QueueAssumption, IInv, Settle
  PROVE  IInv'
<1> USE DEF IInv
<1>1. /\ worker = "serving" /\ gets \in 1 .. Len(puts)
      /\ current = puts[gets] /\ current \in Jobs
      /\ pool[current] \in {"returned", "raised"}
      /\ future[current] \in {"pending", "cancelled"}
      /\ UNCHANGED <<caller, expired, puts, stopper>>
  BY DEF Settle, WorkerInv, TypeOK, Entry
<1>2. /\ TakeNext
      /\ future' = IF future[current] = "pending"
                   THEN [future EXCEPT ![current] =
                           IF pool[current] = "returned" THEN "result" ELSE "exception"]
                   ELSE future
  BY <1>1 DEF Settle, MayDeliver, Delivery
<1>3. /\ future' \in [Jobs -> {"none", "pending", "result", "exception", "cancelled"}]
      /\ \A j \in Jobs : j # current => future'[j] = future[j]
      /\ \/ pool[current] = "returned" /\ future'[current] \in {"result", "cancelled"}
         \/ pool[current] = "raised" /\ future'[current] \in {"exception", "cancelled"}
  BY <1>1, <1>2 DEF TypeOK
<1>4. \A j \in Jobs : future'[j] = "none" <=> future[j] = "none"
  BY <1>1, <1>3
<1>5. CallerInv'
  <2>1. caller[current] \in {"waiting", "timeout"}
    BY <1>1 DEF CallerInv, TypeOK, Answers
  <2>2. QED
    BY <1>1, <1>2, <1>3, <2>1 DEF CallerInv, TypeOK
<1>6. \A i \in 1 .. Len(puts) : puts[i] \in Entry /\ (i # gets => puts[i] # current)
  BY <1>1 DEF PutsInv, TypeOK
<1>7. \A i \in 1 .. gets :
        /\ puts[i] # None
        /\ \/ pool[puts[i]] = "returned" /\ future'[puts[i]] \in {"result", "cancelled"}
           \/ pool[puts[i]] = "raised" /\ future'[puts[i]] \in {"exception", "cancelled"}
           \/ pool[puts[i]] = "out" /\ future'[puts[i]] = "cancelled"
  <2> SUFFICES ASSUME NEW i \in 1 .. gets
               PROVE  /\ puts[i] # None
                      /\ \/ pool[puts[i]] = "returned" /\ future'[puts[i]] \in {"result", "cancelled"}
                         \/ pool[puts[i]] = "raised" /\ future'[puts[i]] \in {"exception", "cancelled"}
                         \/ pool[puts[i]] = "out" /\ future'[puts[i]] = "cancelled"
    OBVIOUS
  <2>1. CASE i = gets
    BY <2>1, <1>1, <1>3 DEF QueueAssumption
  <2>2. CASE i # gets
    <3>1. puts[i] # None /\ DealtWith(puts[i])
      BY <2>2, <1>1 DEF TakenInv
    <3>2. puts[i] \in Jobs /\ puts[i] # current
      BY <2>2, <3>1, <1>1, <1>6 DEF Entry
    <3>3. QED
      BY <3>1, <3>2, <1>3 DEF DealtWith
  <2>3. QED
    BY <2>1, <2>2
<1>8. \A i \in Unread : puts[i] # None =>
        pool[puts[i]] = "out" /\ future'[puts[i]] \in {"pending", "cancelled"}
  <2> SUFFICES ASSUME NEW i \in Unread, puts[i] # None
               PROVE  pool[puts[i]] = "out" /\ future'[puts[i]] \in {"pending", "cancelled"}
    OBVIOUS
  <2>1. i \in 1 .. Len(puts) /\ i # gets
    BY <1>1 DEF Unread
  <2>2. puts[i] \in Jobs /\ puts[i] # current
    BY <1>6, <2>1 DEF Entry
  <2>3. QED
    BY <2>2, <1>3 DEF UnstartedInv
<1>9. QED
  BY <1>1, <1>2, <1>3, <1>4, <1>5, <1>7, <1>8, TakeNextKeepsIInv

-----------------------------------------------------------------------------
(* The executor, and stop() *)

(* The executor moves only a job it has been given: never one that is still  *)
(* queued, and, by IInv, never one that is dealt with.                       *)
LEMMA PoolKeepsIInv ==
  ASSUME QueueAssumption, IInv, NEW j \in Jobs, Start(j) \/ Return(j) \/ Raise(j)
  PROVE  IInv'
<1> USE DEF IInv
<1>1. /\ pool[j] \in {"submitted", "running"}
      /\ UNCHANGED loopVars
      /\ pool' \in [Jobs -> {"out", "submitted", "running", "returned", "raised"}]
      /\ \A h \in Jobs : h # j => pool'[h] = pool[h]
      /\ pool'[j] # "out"
  BY DEF Start, Return, Raise, TypeOK
<1>2. \A i \in 1 .. Len(puts) : puts[i] \in Entry
  BY DEF TypeOK
<1>3. TypeOK' /\ CallerInv' /\ PutsInv' /\ StopInv' /\ GaugeTracksDepth'
  BY <1>1 DEF loopVars, TypeOK, CallerInv, PutsInv, StopInv, GaugeTracksDepth, Depth, Unread
<1>4. UnstartedInv'
  BY <1>1, <1>2 DEF loopVars, UnstartedInv, Unread, Entry, TypeOK
<1>5. TakenInv'
  <2> SUFFICES ASSUME NEW i \in 1 .. gets, puts[i] # None, DealtWith(puts[i])
               PROVE  DealtWith(puts[i])'
    BY <1>1 DEF loopVars, TakenInv
  <2>1. puts[i] \in Jobs /\ puts[i] # j
    BY <1>1, <1>2 DEF Entry, TypeOK, DealtWith
  <2>2. QED
    BY <1>1, <2>1 DEF loopVars, DealtWith
<1>6. WorkerInv'
  BY <1>1 DEF loopVars, WorkerInv, TypeOK, Entry
<1>7. QED
  BY <1>3, <1>4, <1>5, <1>6

(* The only sentinel enters the history once stop() leaves "putting".        *)
LEMMA PutSentinelKeepsIInv ==
  ASSUME QueueAssumption, IInv, PutSentinel
  PROVE  IInv'
<1> USE DEF IInv
<1>1. /\ puts' = Append(puts, None) /\ stopper' = "joining"
      /\ UNCHANGED <<caller, future, expired, gets, depthGauge, worker, current, pool>>
      /\ \A i \in 1 .. Len(puts) : puts[i] # None
  BY DEF PutSentinel, StopInv
<1>2. /\ puts' \in Seq(Entry)
      /\ Len(puts) \in Nat /\ gets \in 0 .. Len(puts)
      /\ Len(puts') = Len(puts) + 1
      /\ puts'[Len(puts) + 1] = None
      /\ \A i \in 1 .. Len(puts) : puts'[i] = puts[i]
  BY <1>1, PutEntry DEF TypeOK, Entry
<1>3. TypeOK'
  BY <1>1, <1>2, QueueAssumption DEF PutSentinel, Full, Depth, TypeOK
<1>4. CallerInv'
  BY <1>1 DEF CallerInv
<1>5. PutsInv'
  BY <1>1, <1>2 DEF PutsInv
<1>6. UnstartedInv'
  <2>1. \A i \in Unread' : puts'[i] # None => i \in Unread /\ puts'[i] = puts[i]
    BY <1>1, <1>2 DEF Unread
  <2>2. QED
    BY <1>1, <2>1 DEF UnstartedInv
<1>7. TakenInv' /\ WorkerInv'
  BY <1>1, <1>2 DEF TakenInv, DealtWith, WorkerInv
<1>8. StopInv'
  BY <1>1 DEF StopInv
<1>9. GaugeTracksDepth'
  BY <1>1, <1>2 DEF GaugeTracksDepth, Unread
<1>10. QED
  BY <1>3, <1>4, <1>5, <1>6, <1>7, <1>8, <1>9

(* The other steps of stop(), and stuttering, change the stopper at most.    *)
LEMMA StopKeepsIInv ==
  ASSUME QueueAssumption, IInv, BlockOnPut \/ Join \/ UNCHANGED vars
  PROVE  IInv'
<1> USE DEF IInv
<1>1. UNCHANGED <<caller, future, expired, puts, gets, depthGauge, worker, current, pool>>
  BY DEF BlockOnPut, Join, vars
<1>2. TypeOK' /\ StopInv'
  BY DEF BlockOnPut, Join, vars, TypeOK, StopInv
<1>3. CallerInv' /\ PutsInv' /\ UnstartedInv' /\ TakenInv' /\ WorkerInv' /\ GaugeTracksDepth'
  BY <1>1 DEF CallerInv, PutsInv, UnstartedInv, Unread, TakenInv, DealtWith, WorkerInv,
              GaugeTracksDepth, Depth
<1>4. QED
  BY <1>2, <1>3

-----------------------------------------------------------------------------
(* The inductive invariant *)

(* Every step of the queue, its callers, its worker and its executor keeps   *)
(* IInv.                                                                     *)
LEMMA NextKeepsIInv == IInv /\ [Next]_vars => IInv'
<1> SUFFICES ASSUME IInv, [Next]_vars PROVE IInv'
  OBVIOUS
<1> USE QueueAssumption
<1>1. ASSUME NEW j \in Jobs, Accept(j) PROVE IInv'
  BY <1>1, AcceptKeepsIInv
<1>2. ASSUME NEW j \in Jobs, Refuse(j) PROVE IInv'
  BY <1>2, RefuseKeepsIInv
<1>3. ASSUME NEW j \in Jobs, Expire(j) PROVE IInv'
  BY <1>3, ExpireKeepsIInv
<1>4. ASSUME NEW j \in Jobs, Resume(j) PROVE IInv'
  BY <1>4, ResumeKeepsIInv
<1>5. ASSUME NEW j \in Jobs, Start(j) \/ Return(j) \/ Raise(j) PROVE IInv'
  BY <1>5, PoolKeepsIInv
<1>6. CASE Wake
  BY <1>6, WakeKeepsIInv
<1>7. CASE Settle
  BY <1>7, SettleKeepsIInv
<1>8. CASE PutSentinel
  BY <1>8, PutSentinelKeepsIInv
<1>9. CASE BlockOnPut \/ Join \/ Exited \/ UNCHANGED vars
  BY <1>9, StopKeepsIInv DEF Exited
<1>10. QED
  BY <1>1, <1>2, <1>3, <1>4, <1>5, <1>6, <1>7, <1>8, <1>9 DEF Next

(* IInv holds in every reachable state, for any set of jobs and any depth.   *)
THEOREM Invariance == Spec => []IInv
<1>1. Init => IInv
  BY InitIInv
<1>2. IInv /\ [Next]_vars => IInv'
  BY NextKeepsIInv
<1>3. QED
  BY <1>1, <1>2, PTL DEF Spec

(* Every variable keeps to its type: the gauge is a natural number, and the  *)
(* worker never takes more entries than were put.                            *)
THEOREM TypeCorrect == Spec => []TypeOK
<1>1. IInv => TypeOK
  BY DEF IInv
<1>2. QED
  BY <1>1, Invariance, PTL

-----------------------------------------------------------------------------
(* What the invariant implies *)

(* Where an admitted job is: queued, at the worker, or dealt with.           *)
LEMMA Whereabouts ==
  ASSUME IInv, NEW j \in Jobs, future[j] # "none"
  PROVE  \/ /\ Queued(j)
            /\ pool[j] = "out" /\ future[j] \in {"pending", "cancelled"}
         \/ /\ worker = "serving" /\ current = j
            /\ pool[j] # "out" /\ future[j] \in {"pending", "cancelled"}
         \/ DealtWith(j)
<1> USE DEF IInv
<1>1. PICK i \in 1 .. Len(puts) : puts[i] = j
  BY DEF PutsInv
<1>2. j # None
  BY QueueAssumption
<1>3. CASE i \in Unread
  BY <1>1, <1>2, <1>3 DEF UnstartedInv, Queued
<1>4. CASE i \in 1 .. gets
  BY <1>1, <1>2, <1>4 DEF TakenInv, WorkerInv
<1>5. i \in Unread \/ i \in 1 .. gets
  BY DEF Unread, TypeOK
<1>6. QED
  BY <1>3, <1>4, <1>5

(* Past the worker's position every taken entry is a job dealt with.         *)
LEMMA BeforeTheLatest ==
  ASSUME IInv, NEW k \in 1 .. Len(puts), k <= gets, NEW i \in 1 .. k - 1
  PROVE  puts[i] # None /\ puts[i] \in Jobs /\ DealtWith(puts[i])
<1>1. i \in 1 .. gets /\ i # gets /\ i \in 1 .. Len(puts)
  BY DEF IInv, TypeOK
<1>2. QED
  BY <1>1 DEF IInv, TakenInv, TypeOK, Entry

(* A run, its timeout and a result may interleave in any way: the worker     *)
(* task is never ended by an InvalidStateError (_run() in app/queue.py).     *)
THEOREM WorkerNeverDies == Spec => []WorkerSurvives
<1>1. IInv => WorkerSurvives
  BY DEF IInv, WorkerInv, WorkerSurvives
<1>2. QED
  BY <1>1, Invariance, PTL

(* At most the worker's current job is in the executor.                      *)
THEOREM OneRunAtATime == Spec => []SerialGpu
<1>1. ASSUME IInv, NEW j \in Jobs, InFlight(j) PROVE worker = "serving" /\ current = j
  <2>1. pool[j] \in {"submitted", "running"}
    BY <1>1 DEF InFlight
  <2>2. future[j] # "none"
    BY <1>1, <2>1 DEF IInv, UnstartedInv
  <2>3. QED
    BY <1>1, <2>1, <2>2, Whereabouts DEF DealtWith
<1>2. IInv => SerialGpu
  BY <1>1 DEF SerialGpu
<1>3. QED
  BY <1>2, Invariance, PTL

(* A pending future is held by the queue or by the worker.                   *)
THEOREM FuturesAreHeld == Spec => []NoHungFuture
<1>1. IInv => NoHungFuture
  BY Whereabouts DEF NoHungFuture, DealtWith
<1>2. QED
  BY <1>1, Invariance, PTL

(* Jobs are started in the order of admission, none behind the sentinel.     *)
THEOREM FirstInFirstServed == Spec => []NoOvertaking
<1>1. ASSUME IInv, NEW k \in 1 .. Len(puts), puts[k] # None, pool[puts[k]] # "out",
             NEW i \in 1 .. k - 1
      PROVE  /\ puts[i] # None
             /\ Finished(puts[i]) \/ (pool[puts[i]] = "out" /\ future[puts[i]] = "cancelled")
  <2>1. k <= gets
    BY <1>1 DEF IInv, UnstartedInv, Unread, TypeOK
  <2>2. puts[i] # None /\ DealtWith(puts[i])
    BY <1>1, <2>1, BeforeTheLatest
  <2>3. QED
    BY <2>2 DEF DealtWith, Finished
<1>2. IInv => NoOvertaking
  BY <1>1 DEF NoOvertaking
<1>3. QED
  BY <1>2, Invariance, PTL

(* submit() answers with what happened to that very job.                     *)
THEOREM AnswersAreTrue == Spec => []AnswerAgrees
<1>1. ASSUME IInv, NEW j \in Jobs
      PROVE  /\ caller[j] = "ok" => pool[j] = "returned"
             /\ caller[j] = "error" => pool[j] = "raised"
             /\ caller[j] = "timeout" => expired[j] /\ future[j] # "pending"
             /\ caller[j] = "full" => pool[j] = "out" /\ ~Queued(j)
  <2>1. /\ caller[j] = "ok" => future[j] = "result"
        /\ caller[j] = "error" => future[j] = "exception"
        /\ caller[j] = "timeout" => expired[j] /\ future[j] # "pending"
        /\ caller[j] = "full" => future[j] = "none"
    BY <1>1 DEF IInv, CallerInv
  <2>2. future[j] = "result" => pool[j] = "returned"
    BY <1>1, Whereabouts DEF DealtWith
  <2>3. future[j] = "exception" => pool[j] = "raised"
    BY <1>1, Whereabouts DEF DealtWith
  <2>4. future[j] = "none" => pool[j] = "out"
    BY <1>1 DEF IInv, UnstartedInv
  <2>5. Queued(j) => future[j] # "none"
    BY <1>1, QueueAssumption DEF IInv, UnstartedInv, Queued
  <2>6. QED
    BY <2>1, <2>2, <2>3, <2>4, <2>5
<1>2. IInv => AnswerAgrees
  BY <1>1 DEF AnswerAgrees
<1>3. QED
  BY <1>2, Invariance, PTL

(* The gauge is the queue's size until the sentinel is put.                  *)
THEOREM GaugeIsExact == Spec => []GaugeTracksDepth
<1>1. IInv => GaugeTracksDepth
  BY DEF IInv
<1>2. QED
  BY <1>1, Invariance, PTL

(* After stop() nothing runs, and every job ahead of the sentinel has been   *)
(* settled.                                                                  *)
THEOREM StopIsClean == Spec => []StopDrains
<1>1. ASSUME IInv, stopper = "done", NEW j \in Jobs PROVE ~InFlight(j)
  <2>1. worker = "stopped"
    BY <1>1 DEF IInv, StopInv
  <2>2. pool[j] # "out" => DealtWith(j)
    BY <1>1, <2>1, Whereabouts DEF IInv, UnstartedInv
  <2>3. QED
    BY <2>2 DEF InFlight, DealtWith
<1>2. ASSUME IInv, stopper = "done", NEW k \in 1 .. Len(puts), puts[k] = None,
             NEW i \in 1 .. k - 1
      PROVE  puts[i] # None /\ future[puts[i]] # "pending"
  <2>1. gets > 0 /\ gets \in 1 .. Len(puts) /\ puts[gets] = None
    BY <1>2 DEF IInv, StopInv, WorkerInv, TypeOK
  <2>2. k = gets
    BY <1>2, <2>1 DEF IInv, PutsInv
  <2>3. puts[i] # None /\ DealtWith(puts[i])
    BY <1>2, <2>1, <2>2, BeforeTheLatest DEF IInv, TypeOK
  <2>4. QED
    BY <2>3 DEF DealtWith
<1>3. IInv => StopDrains
  BY <1>1, <1>2 DEF StopDrains
<1>4. QED
  BY <1>3, Invariance, PTL

(* A worker that serves can always move: no other job holds the thread.      *)
LEMMA ServingMoves ==
  ASSUME IInv, worker = "serving"
  PROVE  WorkerCanMove
<1> USE DEF IInv
<1>1. current \in Jobs /\ pool[current] # "out"
  BY DEF WorkerInv, TypeOK, Entry
<1>2. ASSUME NEW j \in Jobs, pool[j] = "running" PROVE j = current
  <2>1. future[j] # "none"
    BY <1>2 DEF UnstartedInv
  <2>2. QED
    BY <1>2, <2>1, Whereabouts DEF DealtWith
<1>3. pool[current] \in {"submitted", "running", "returned", "raised"}
  BY <1>1 DEF TypeOK
<1>4. pool[current] = "submitted" => ThreadFree
  BY <1>2 DEF ThreadFree
<1>5. QED
  BY <1>3, <1>4 DEF WorkerCanMove, Finished

(* The wait-for relation never closes: a full queue, an unread sentinel and  *)
(* a queued job each give an idle worker something to take, and a serving    *)
(* worker has the thread to itself.                                          *)
LEMMA WaitsEnd == IInv => NobodyStuck
<1> USE DEF IInv
<1>1. ASSUME IInv, Unread # {}, worker # "stopped" PROVE WorkerCanMove
  BY <1>1, ServingMoves DEF WorkerCanMove, WorkerInv, TypeOK
<1>2. ASSUME IInv, NEW j \in Jobs, future[j] = "pending"
      PROVE  WorkerCanMove \/ \E i \in 1 .. gets : puts[i] = None
  <2>1. CASE Queued(j)
    <3>1. Unread # {}
      BY <2>1 DEF Queued
    <3>2. worker = "stopped" => gets \in 1 .. gets /\ puts[gets] = None
      BY <1>2 DEF WorkerInv, TypeOK
    <3>3. QED
      BY <1>1, <1>2, <3>1, <3>2
  <2>2. CASE ~Queued(j)
    <3>1. worker = "serving"
      BY <1>2, <2>2, Whereabouts DEF DealtWith
    <3>2. QED
      BY <1>2, <3>1, ServingMoves
  <2>3. QED
    BY <2>1, <2>2
<1>3. ASSUME IInv, stopper = "putting", Full PROVE WorkerCanMove
  <2>1. gets \in 0 .. Len(puts) /\ Len(puts) \in Nat /\ Len(puts) - gets >= 1
    BY <1>3, QueueAssumption DEF Full, Depth, TypeOK
  <2>2. Len(puts) \in Unread
    BY <2>1 DEF Unread
  <2>3. worker # "stopped"
    BY <1>3, <2>1 DEF StopInv, WorkerInv
  <2>4. QED
    BY <1>1, <1>3, <2>2, <2>3
<1>4. ASSUME IInv, stopper = "joining", worker # "stopped" PROVE WorkerCanMove
  <2>1. PICK i \in 1 .. Len(puts) : puts[i] = None
    BY <1>4 DEF StopInv
  <2>2. i \notin 1 .. gets
    BY <1>4, <2>1 DEF TakenInv, WorkerInv
  <2>3. i \in Unread
    BY <1>4, <2>2 DEF Unread, TypeOK
  <2>4. QED
    BY <1>1, <1>4, <2>3
<1>5. QED
  BY <1>2, <1>3, <1>4 DEF NobodyStuck

(* Deadlock freedom, for every depth and every set of jobs: each coroutine   *)
(* that waits, in submit() or in stop(), waits for a worker that can move.   *)
THEOREM NoDeadlock == Spec => []NobodyStuck
BY WaitsEnd, Invariance, PTL

(* A job abandoned while queued is never given to the executor.              *)
THEOREM AbandonedJobsAreSkipped == Spec => AbandonedNeverStarts
<1> DEFINE Step == \A j \in Jobs : future[j] = "cancelled" /\ pool[j] = "out" => pool'[j] = "out"
<1>1. ASSUME IInv, Next PROVE Step
  <2> SUFFICES ASSUME NEW j \in Jobs, future[j] = "cancelled", pool[j] = "out"
               PROVE  pool'[j] = "out"
    OBVIOUS
  <2> USE DEF IInv
  <2>1. ASSUME TakeNext, future'[j] = "cancelled" PROVE pool'[j] = "out"
    <3>1. CASE UNCHANGED pool
      BY <3>1
    <3>2. CASE ~UNCHANGED pool
      <4>1. PICK n \in gets .. Len(puts) :
              /\ n < Len(puts) /\ future'[puts[n + 1]] # "cancelled"
              /\ pool' = [pool EXCEPT ![puts[n + 1]] = "submitted"]
        BY <2>1, <3>2 DEF TakeNext, Skips, Abandoned
      <4>2. puts[n + 1] # j
        BY <4>1, <2>1
      <4>3. QED
        BY <1>1, <4>1, <4>2 DEF TypeOK
    <3>3. QED
      BY <3>1, <3>2
  <2>2. ASSUME NEW h \in Jobs, Start(h) \/ Return(h) \/ Raise(h) PROVE pool'[j] = "out"
    BY <1>1, <2>2 DEF Start, Return, Raise, TypeOK
  <2>3. CASE Wake
    BY <2>1, <2>3 DEF Wake
  <2>4. CASE Settle
    <3>1. current # j
      BY <1>1, <2>4 DEF Settle, WorkerInv
    <3>2. CASE UNCHANGED pool
      BY <3>2
    <3>3. CASE ~UNCHANGED pool
      <4>1. TakeNext /\ future'[j] = future[j]
        BY <1>1, <2>4, <3>1, <3>3 DEF Settle, TypeOK
      <4>2. QED
        BY <4>1, <2>1
    <3>4. QED
      BY <3>2, <3>3
  <2>5. CASE UNCHANGED pool
    BY <2>5
  <2>6. QED
    BY <1>1, <2>2, <2>3, <2>4, <2>5
    DEF Next, Accept, Refuse, Expire, Resume, PutSentinel, BlockOnPut, Join, Exited, vars
<1>2. ASSUME IInv, [Next]_vars PROVE [Step]_vars
  BY <1>1, <1>2
<1>3. QED
  BY <1>2, Invariance, PTL DEF Spec, AbandonedNeverStarts

-----------------------------------------------------------------------------
(* Liveness.  The provers do not evaluate ENABLED, so what it is of a timer  *)
(* and of a resumption is a hypothesis: each is enabled whenever its guards  *)
(* hold, for its other conjuncts only say what the next state is.            *)

DueIsEnabled(j) ==
  [](/\ caller[j] = "waiting" /\ ~expired[j] => ENABLED <<Expire(j)>>_vars
     /\ caller[j] = "waiting" /\ future[j] # "pending" => ENABLED <<Resume(j)>>_vars)

(* One caller's answer needs that caller's timer and task to be run, and no  *)
(* fairness of anybody else: not of the worker, and not of the GPU.          *)
LEMMA OneCallerIsAnswered ==
  ASSUME NEW j \in Jobs
  PROVE  Init /\ [][Next]_vars /\ CallerFairness(j) /\ DueIsEnabled(j)
           => (caller[j] = "waiting" ~> caller[j] \in Answers)
<1> DEFINE Waits == caller[j] = "waiting"
           Ends == caller[j] \in Answers
           Late == expired[j]
           Done == future[j] # "pending"
<1>1. IInv /\ [Next]_vars /\ Waits => Waits' \/ Ends'
  BY DEF IInv, TypeOK, Next, vars, Accept, Refuse, Expire, Resume, Answer, Answers, Start, Return, Raise,
         loopVars, Wake, Settle, PutSentinel, BlockOnPut, Join, Exited
<1>2. IInv /\ [Next]_vars /\ Waits /\ Late => Late'
  BY DEF IInv, TypeOK, Next, vars, Accept, Refuse, Expire, Resume, Answer, Answers, Start, Return, Raise,
         loopVars, Wake, Settle, PutSentinel, BlockOnPut, Join, Exited
<1>3. IInv /\ <<Expire(j)>>_vars => Late'
  BY DEF IInv, TypeOK, Expire
<1>4. IInv /\ Waits /\ Late => Done
  BY DEF IInv, CallerInv
<1>5. IInv /\ <<Resume(j)>>_vars => Ends'
  BY DEF IInv, TypeOK, Resume, Answer, Answers
<1>6. Init /\ [][Next]_vars => []IInv
  BY InitIInv, NextKeepsIInv, PTL
<1> HIDE DEF Waits, Ends, Late, Done
<1>7. /\ [](Waits /\ ~Late => ENABLED <<Expire(j)>>_vars)
      /\ [](Waits /\ Done => ENABLED <<Resume(j)>>_vars)
      /\ []IInv /\ [][Next]_vars /\ WF_vars(Expire(j)) /\ WF_vars(Resume(j))
     => (Waits ~> Ends)
  BY <1>1, <1>2, <1>3, <1>4, <1>5, PTL
<1>8. QED
  BY <1>6, <1>7, PTL DEF DueIsEnabled, CallerFairness, Waits, Ends, Late, Done

(* Every caller is answered, for any number of them and any depth, also when *)
(* the GPU hangs and when the job is behind the sentinel.                    *)
THEOREM CallersAreAnswered == Spec /\ (\A j \in Jobs : DueIsEnabled(j)) => EveryCallerAnswered
<1>1. ASSUME NEW j \in Jobs
      PROVE  Spec /\ (\A k \in Jobs : DueIsEnabled(k))
               => (caller[j] = "waiting" ~> caller[j] \in Answers)
  <2>1. Spec => Init /\ [][Next]_vars /\ CallersFairness
    BY PTL DEF Spec, LoopFairness
  <2>2. CallersFairness => CallerFairness(j)
    BY DEF CallersFairness
  <2>3. (\A k \in Jobs : DueIsEnabled(k)) => DueIsEnabled(j)
    OBVIOUS
  <2>4. QED
    BY <2>1, <2>2, <2>3, OneCallerIsAnswered, PTL
<1>2. QED
  BY <1>1 DEF EveryCallerAnswered

(* The worker's part.  A turn of its loop can always be completed: behind    *)
(* what is cancelled there is a first entry to stop at, or the queue's end.  *)
(* So here, too, an action whose guards hold is enabled, and a hypothesis    *)
(* says it.                                                                  *)
LEMMA SomeTurn ==
  ASSUME IInv
  PROVE  \E n \in gets .. Len(puts) :
           /\ \A i \in gets + 1 .. n : puts[i] # None /\ future[puts[i]] = "cancelled"
           /\ n < Len(puts) => puts[n + 1] = None \/ future[puts[n + 1]] # "cancelled"
<1> DEFINE stops == {n \in gets .. Len(puts) :
                       n < Len(puts) => puts[n + 1] = None \/ future[puts[n + 1]] # "cancelled"}
<1>1. gets \in Nat /\ Len(puts) \in Nat /\ gets <= Len(puts)
  BY DEF IInv, TypeOK
<1>2. stops \in SUBSET Nat /\ Len(puts) \in stops
  BY <1>1
<1>3. \E n \in stops : \A m \in stops : ~(m < n)
  <2> HIDE DEF stops
  <2>1. PICK n \in stops : \A m \in stops : <<m, n>> \notin OpToRel(<, Nat)
    BY <1>2, WFMin, NatLessThanWellFounded, Zenon
  <2>2. QED
    BY <1>2, <2>1, Zenon DEF OpToRel
<1>4. PICK n \in stops : \A m \in stops : ~(m < n)
  BY <1>3
<1>5. ASSUME NEW i \in gets + 1 .. n PROVE puts[i] # None /\ future[puts[i]] = "cancelled"
  <2>1. n \in Nat /\ n <= Len(puts)
    BY <1>1, <1>4
  <2>2. i - 1 \in gets .. Len(puts) /\ i - 1 < Len(puts) /\ i - 1 < n /\ i - 1 + 1 = i
    BY <1>1, <2>1
  <2>3. i - 1 \notin stops
    BY <1>4, <2>2
  <2>4. QED
    BY <2>2, <2>3
<1>6. QED
  BY <1>4, <1>5

TurnsAreEnabled ==
  [](/\ worker = "idle" /\ gets < Len(puts) => ENABLED <<Wake>>_vars
     /\ worker = "serving" /\ Finished(current) => ENABLED <<Settle>>_vars)

(* Delivering an outcome finishes with the job it belongs to.                *)
LEMMA SettleDealsWith ==
  ASSUME IInv, Settle, NEW j \in Jobs, current = j
  PROVE  DealtWith(j)'
<1> USE DEF IInv
<1>1. /\ worker = "serving" /\ pool[j] \in {"returned", "raised"}
      /\ future[j] \in {"pending", "cancelled"}
  BY DEF Settle, WorkerInv
<1>2. /\ TakeNext
      /\ future' = IF future[j] = "pending" THEN [future EXCEPT ![j] = Delivery(j)] ELSE future
  BY <1>1 DEF Settle, MayDeliver
<1>3. future'[j] = IF future[j] = "pending" THEN Delivery(j) ELSE "cancelled"
  BY <1>1, <1>2 DEF TypeOK
<1>4. pool'[j] = pool[j]
  <2>1. CASE UNCHANGED pool
    BY <2>1
  <2>2. CASE ~UNCHANGED pool
    <3>1. PICK n \in gets .. Len(puts) :
            /\ n < Len(puts) /\ puts[n + 1] # None
            /\ pool' = [pool EXCEPT ![puts[n + 1]] = "submitted"]
      BY <1>2, <2>2 DEF TakeNext
    <3>2. n + 1 \in Unread
      BY <3>1 DEF Unread, TypeOK
    <3>3. puts[n + 1] # j
      BY <1>1, <3>1, <3>2 DEF UnstartedInv
    <3>4. QED
      BY <3>1, <3>3 DEF TypeOK
  <2>3. QED
    BY <2>1, <2>2
<1>5. QED
  BY <1>1, <1>3, <1>4 DEF DealtWith, Delivery

(* Nothing but the worker's own next turn ends its service of a job, and the *)
(* outcome of a run that has ended stays for it.                             *)
LEMMA ServiceOfOneJob ==
  ASSUME IInv, [Next]_vars, NEW j \in Jobs, worker = "serving", current = j
  PROVE  /\ (worker' = "serving" /\ current' = j) \/ DealtWith(j)'
         /\ Finished(j) => Finished(j)' \/ DealtWith(j)'
<1> USE DEF IInv
<1>1. CASE Settle
  BY <1>1, SettleDealsWith
<1>2. ASSUME NEW k \in Jobs, Accept(k) \/ Refuse(k) \/ Expire(k) \/ Resume(k)
      PROVE  UNCHANGED <<worker, current, pool>>
  BY <1>2 DEF Accept, Refuse, Expire, Resume
<1>3. ASSUME NEW k \in Jobs, Start(k) \/ Return(k) \/ Raise(k)
      PROVE  UNCHANGED <<worker, current>> /\ (Finished(j) => pool'[j] = pool[j])
  BY <1>3 DEF Start, Return, Raise, loopVars, Finished, TypeOK
<1>4. CASE PutSentinel \/ BlockOnPut \/ Join \/ Exited \/ UNCHANGED vars
  BY <1>4 DEF PutSentinel, BlockOnPut, Join, Exited, vars, Finished
<1>5. CASE Wake
  BY <1>5 DEF Wake
<1>6. QED
  BY <1>1, <1>2, <1>3, <1>4, <1>5 DEF Next, Finished

(* A run that ends is delivered, or found abandoned, whatever the other jobs *)
(* do: failed and abandoned runs do not stop the worker.  It is the step     *)
(* from one entry to the next in EveryEntryTaken.                            *)
THEOREM RunsAreDelivered ==
  Spec /\ TurnsAreEnabled =>
    \A j \in Jobs : <>[]InFlight(j) \/ (worker = "serving" /\ current = j ~> DealtWith(j))
<1>1. ASSUME NEW j \in Jobs
      PROVE  Spec /\ TurnsAreEnabled =>
               <>[]InFlight(j) \/ (worker = "serving" /\ current = j ~> DealtWith(j))
  <2> DEFINE Serves == worker = "serving" /\ current = j
             Over == DealtWith(j)
             Flies == InFlight(j)
             Ended == Finished(j)
             Due == worker = "serving" /\ Finished(current)
  <2>1. IInv /\ [Next]_vars /\ Serves => Serves' \/ Over'
    BY ServiceOfOneJob
  <2>2. IInv /\ [Next]_vars /\ Serves /\ Ended => Ended' \/ Over'
    BY ServiceOfOneJob
  <2>3. IInv /\ Serves /\ ~Flies => Ended
    BY DEF IInv, TypeOK, WorkerInv, InFlight, Finished
  <2>4. Serves /\ Ended => Due
    OBVIOUS
  <2>5. IInv /\ Serves /\ <<Settle>>_vars => Over'
    BY SettleDealsWith
  <2>6. Spec /\ TurnsAreEnabled => /\ []IInv /\ [][Next]_vars /\ WF_vars(Settle)
                                   /\ [](Due => ENABLED <<Settle>>_vars)
    BY Invariance, PTL DEF Spec, LoopFairness, TurnsAreEnabled
  <2> HIDE DEF Serves, Over, Flies, Ended, Due
  <2>7. /\ []IInv /\ [][Next]_vars /\ WF_vars(Settle) /\ [](Due => ENABLED <<Settle>>_vars)
        => <>[]Flies \/ (Serves ~> Over)
    BY <2>1, <2>2, <2>3, <2>4, <2>5, PTL
  <2>8. QED
    BY <2>6, <2>7, PTL DEF Serves, Over, Flies
<1>2. QED
  BY <1>1

(* A worker that waits while the queue has entries is woken and takes one.   *)
THEOREM WorkerWakesUp ==
  Spec /\ TurnsAreEnabled =>
    \A g \in Nat : worker = "idle" /\ gets = g /\ g < Len(puts) ~> gets > g
<1>1. ASSUME NEW g \in Nat
      PROVE  Spec /\ TurnsAreEnabled => (worker = "idle" /\ gets = g /\ g < Len(puts) ~> gets > g)
  <2> DEFINE Waits == worker = "idle" /\ gets = g /\ g < Len(puts)
             Over == gets > g
             Due == worker = "idle" /\ gets < Len(puts)
  <2>1. IInv /\ Waits /\ Wake => Over'
    <3> SUFFICES ASSUME IInv, Waits, Wake PROVE Over'
      OBVIOUS
    <3>1. PICK n \in gets .. Len(puts) : (gets' = n /\ n = Len(puts)) \/ gets' = n + 1
      BY DEF Wake, TakeNext
    <3>2. Len(puts) \in Nat
      BY DEF IInv, TypeOK
    <3>3. QED
      BY <3>1, <3>2
  <2>2. IInv /\ [Next]_vars /\ Waits => Waits' \/ Over'
    <3> SUFFICES ASSUME IInv, [Next]_vars, Waits PROVE Waits' \/ Over'
      OBVIOUS
    <3>1. CASE Wake
      BY <2>1, <3>1
    <3>2. CASE Settle
      BY <3>2 DEF Settle
    <3>3. ASSUME NEW j \in Jobs, \/ Refuse(j) \/ Expire(j) \/ Resume(j)
                                 \/ Start(j) \/ Return(j) \/ Raise(j)
          PROVE  UNCHANGED <<worker, gets, puts>>
      BY <3>3 DEF Refuse, Expire, Resume, Start, Return, Raise, loopVars
    <3>4. ASSUME (\E j \in Jobs : Accept(j)) \/ PutSentinel
          PROVE  Waits'
      <4>1. PICK e \in Entry : puts' = Append(puts, e) /\ UNCHANGED <<worker, gets>>
        BY <3>4 DEF Accept, PutSentinel, Entry
      <4>2. Len(puts') = Len(puts) + 1 /\ Len(puts) \in Nat
        BY <4>1, PutEntry DEF IInv, TypeOK
      <4>3. QED
        BY <4>1, <4>2
    <3>5. CASE BlockOnPut \/ Join \/ Exited \/ UNCHANGED vars
      BY <3>5 DEF BlockOnPut, Join, Exited, vars
    <3>6. QED
      BY <3>1, <3>2, <3>3, <3>4, <3>5 DEF Next
  <2>3. Waits => Due
    OBVIOUS
  <2>4. Spec /\ TurnsAreEnabled => /\ []IInv /\ [][Next]_vars /\ WF_vars(Wake)
                                   /\ [](Due => ENABLED <<Wake>>_vars)
    BY Invariance, PTL DEF Spec, LoopFairness, TurnsAreEnabled
  <2> HIDE DEF Waits, Over, Due
  <2>5. []IInv /\ [][Next]_vars /\ WF_vars(Wake) /\ [](Due => ENABLED <<Wake>>_vars)
        => (Waits ~> Over)
    BY <2>1, <2>2, <2>3, PTL
  <2>6. QED
    BY <2>4, <2>5, PTL DEF Waits, Over
<1>2. QED
  BY <1>1

-----------------------------------------------------------------------------
(* Refinement: InferenceQueue implements SerialServer.  The mapping is that  *)
(* of Server in InferenceQueue; IInv says what a step may rely on.           *)

serves == IF worker = "serving" THEN {current} ELSE {}
outcomes == [j \in Jobs |-> RunOutcome(j)]
told == [j \in Jobs |-> Told(j)]

(* At the start the line is empty and nobody has been told anything.         *)
LEMMA InitRefines == Init => Server!Init
<1> SUFFICES ASSUME Init PROVE Server!Init
  OBVIOUS
<1>1. \A j \in Jobs : RunOutcome(j) = "none" /\ Told(j) = "none"
  BY DEF Init, RunOutcome, Told
<1>2. QED
  BY <1>1 DEF Init, Server!Init

(* What a job still in the queue, or never put, looks like from outside.     *)
LEMMA QueuedTold ==
  ASSUME IInv, NEW i \in Unread, puts[i] # None
  PROVE  /\ puts[i] \in Jobs
         /\ future[puts[i]] = "cancelled" => Told(puts[i]) = "timeout"
         /\ future[puts[i]] # "cancelled" => Told(puts[i]) = "awaited"
<1>1. puts[i] \in Jobs /\ i \in 1 .. Len(puts)
  BY DEF IInv, TypeOK, Entry, Unread
<1>2. future[puts[i]] \in {"pending", "cancelled"}
  BY DEF IInv, UnstartedInv
<1>3. CASE future[puts[i]] = "pending"
  BY <1>1, <1>3 DEF IInv, CallerInv, Told
<1>4. CASE future[puts[i]] = "cancelled"
  <2>1. expired[puts[i]] /\ caller[puts[i]] \in {"waiting", "timeout"}
    BY <1>1, <1>4 DEF IInv, CallerInv, TypeOK, Answers
  <2>2. QED
    BY <1>1, <1>4, <2>1 DEF Told
<1>5. QED
  BY <1>1, <1>2, <1>3, <1>4

-----------------------------------------------------------------------------
(* submit() *)

LEMMA AcceptRefines ==
  ASSUME QueueAssumption, IInv, NEW j \in Jobs, Accept(j)
  PROVE  Server!Enter(j)
<1>1. Told(j) = "none" /\ ~expired[j]
  BY DEF Accept, Told, IInv, CallerInv
<1>2. told' = [told EXCEPT ![j] = "awaited"]
  BY <1>1 DEF Accept, Told, told, IInv, TypeOK
<1>3. outcomes' = outcomes /\ serves' = serves /\ gets' = gets
  BY DEF Accept, outcomes, serves, RunOutcome
<1>4. Len(puts) - gets < MaxDepth
  BY DEF Accept, Full, Depth, IInv, TypeOK, QueueAssumption
<1>5. puts' = Append(puts, j) /\ told[j] = "none"
  BY <1>1 DEF Accept, told
<1>6. QED
  BY <1>2, <1>3, <1>4, <1>5 DEF Server!Enter, Server!Places, told, outcomes, serves

(* QueueFullError is the server turning a customer away: its line is as long *)
(* as the queue, sentinel apart.                                             *)
LEMMA RefuseRefines ==
  ASSUME QueueAssumption, IInv, NEW j \in Jobs, Refuse(j)
  PROVE  Server!TurnAway(j)
<1>1. Told(j) = "none"
  BY DEF Refuse, Told
<1>2. told' = [told EXCEPT ![j] = "full"]
  BY <1>1 DEF Refuse, Told, told, IInv, TypeOK
<1>3. outcomes' = outcomes /\ serves' = serves /\ gets' = gets /\ puts' = puts
  BY DEF Refuse, outcomes, serves, RunOutcome
<1>4. Len(puts) - gets >= MaxDepth
  BY DEF Refuse, Full, Depth, IInv, TypeOK, QueueAssumption
<1>5. told[j] = "none"
  BY <1>1 DEF told
<1>6. QED
  BY <1>2, <1>3, <1>4, <1>5 DEF Server!TurnAway, Server!Places, told, outcomes, serves

(* The timer is the moment at which the caller gives up.                     *)
LEMMA ExpireRefines ==
  ASSUME IInv, NEW j \in Jobs, Expire(j)
  PROVE  Server!GiveUp(j)
<1>1. Told(j) = "awaited"
  BY DEF Expire, Told
<1>2. told' = [told EXCEPT ![j] = "timeout"]
  BY DEF Expire, Told, told, IInv, TypeOK
<1>3. outcomes' = outcomes /\ serves' = serves /\ gets' = gets /\ puts' = puts
  BY DEF Expire, outcomes, serves, RunOutcome
<1>4. told[j] = "awaited"
  BY <1>1 DEF told
<1>5. QED
  BY <1>2, <1>3, <1>4 DEF Server!GiveUp, told, outcomes, serves

(* submit() ends: after the timer has fired that changes nothing any more.   *)
LEMMA ResumeRefines ==
  ASSUME IInv, NEW j \in Jobs, Resume(j)
  PROVE  Server!Tell(j) \/ UNCHANGED Server!vars
<1>1. caller[j] = "waiting" /\ future[j] # "pending" /\ future[j] # "none"
  BY DEF Resume, IInv, CallerInv
<1>2. outcomes' = outcomes /\ serves' = serves /\ gets' = gets /\ puts' = puts
  BY DEF Resume, outcomes, serves, RunOutcome
<1>3. CASE expired[j]
  <2>1. told' = told
    BY <1>1, <1>3 DEF Resume, Answer, Told, told, IInv, TypeOK
  <2>2. QED
    BY <1>2, <2>1 DEF Server!vars, told, outcomes, serves
<1>4. CASE ~expired[j]
  <2>1. Answer(j) = RunOutcome(j) /\ Answer(j) \in {"ok", "error"}
    <3>1. future[j] \in {"result", "exception"}
      BY <1>1, <1>4 DEF IInv, CallerInv, TypeOK
    <3>2. DealtWith(j)
      BY <1>1, <3>1, Whereabouts
    <3>3. QED
      BY <1>4, <3>1, <3>2 DEF DealtWith, Answer, RunOutcome
  <2>2. told' = [told EXCEPT ![j] = RunOutcome(j)]
    BY <1>1, <1>4, <2>1 DEF Resume, Told, told, IInv, TypeOK
  <2>3. told[j] = "awaited" /\ outcomes[j] = RunOutcome(j) /\ outcomes[j] # "none"
    BY <1>1, <1>4, <2>1 DEF told, outcomes, Told
  <2>4. QED
    BY <1>2, <2>2, <2>3 DEF Server!Tell, told, outcomes, serves
<1>5. QED
  BY <1>3, <1>4

-----------------------------------------------------------------------------
(* The executor and stop() *)

LEMMA PoolRefines ==
  ASSUME QueueAssumption, IInv, NEW j \in Jobs, Start(j) \/ Return(j) \/ Raise(j)
  PROVE  Server!ServiceEnds(j) \/ UNCHANGED Server!vars
<1>1. told' = told /\ serves' = serves /\ gets' = gets /\ puts' = puts
  BY DEF Start, Return, Raise, loopVars, told, Told, serves
<1>2. CASE Start(j)
  <2>1. \A k \in Jobs : RunOutcome(k)' = RunOutcome(k)
    BY <1>2 DEF Start, RunOutcome, IInv, TypeOK
  <2>2. outcomes' = outcomes
    BY <2>1 DEF outcomes
  <2>3. QED
    BY <1>1, <2>2 DEF Server!vars, told, outcomes, serves
<1>3. CASE Return(j) \/ Raise(j)
  <2>1. pool[j] = "running" /\ pool \in [Jobs -> {"out", "submitted", "running", "returned", "raised"}]
    BY <1>3 DEF Return, Raise, IInv, TypeOK
  <2>2. future[j] # "none"
    BY <2>1 DEF IInv, UnstartedInv
  <2>3. j \in serves
    BY <2>1, <2>2, Whereabouts DEF DealtWith, serves
  <2>4. PICK o \in {"returned", "raised"} : pool' = [pool EXCEPT ![j] = o]
    BY <1>3 DEF Return, Raise
  <2>5. PICK a \in {"ok", "error"} : outcomes' = [outcomes EXCEPT ![j] = a]
    BY <2>1, <2>4 DEF outcomes, RunOutcome
  <2>6. outcomes[j] = "none"
    BY <2>1 DEF outcomes, RunOutcome
  <2>7. QED
    BY <1>1, <2>3, <2>5, <2>6 DEF Server!ServiceEnds, told, outcomes, serves
<1>4. QED
  BY <1>2, <1>3

(* Of stop() the server knows only that it closes its line.                  *)
LEMMA StopRefines ==
  ASSUME QueueAssumption, IInv, PutSentinel \/ BlockOnPut \/ Join \/ Exited
  PROVE  Server!Close \/ UNCHANGED Server!vars
<1>1. told' = told /\ serves' = serves /\ gets' = gets /\ outcomes' = outcomes
  BY DEF PutSentinel, BlockOnPut, Join, Exited, vars, told, Told, serves, outcomes, RunOutcome
<1>2. CASE PutSentinel
  <2>1. \A i \in 1 .. Len(puts) : puts[i] # None
    BY <1>2 DEF PutSentinel, IInv, StopInv
  <2>2. Len(puts) - gets < MaxDepth /\ puts' = Append(puts, None)
    BY <1>2 DEF PutSentinel, Full, Depth, IInv, TypeOK, QueueAssumption
  <2>3. QED
    BY <1>1, <2>1, <2>2 DEF Server!Close, Server!Places, told, outcomes, serves
<1>3. CASE ~PutSentinel
  <2>1. puts' = puts
    BY <1>3 DEF BlockOnPut, Join, Exited, vars
  <2>2. QED
    BY <1>1, <2>1 DEF Server!vars, told, outcomes, serves
<1>4. QED
  BY <1>2, <1>3

-----------------------------------------------------------------------------
(* The worker *)

(* A turn of the loop calls up whom the serial server would.                 *)
LEMMA TakeNextRefines ==
  ASSUME IInv, TakeNext, UNCHANGED <<puts, expired, caller>>,
         \A i \in Unread : puts[i] # None => future'[puts[i]] = future[puts[i]],
         \A i \in 1 .. gets : puts[i] # None,
         \A j \in serves : outcomes[j] # "none"
  PROVE  Server!NextPlease
<1>0. Len(puts) \in Nat /\ gets \in 0 .. Len(puts)
  BY DEF IInv, TypeOK
<1>1. PICK n \in gets .. Len(puts) :
        /\ \A i \in gets + 1 .. n : puts[i] # None /\ future'[puts[i]] = "cancelled"
        /\ \/ n = Len(puts) /\ gets' = n /\ worker' = "idle" /\ pool' = pool
           \/ /\ n < Len(puts) /\ puts[n + 1] = None /\ gets' = n + 1
              /\ worker' = "stopped" /\ pool' = pool
           \/ /\ n < Len(puts) /\ puts[n + 1] # None /\ future'[puts[n + 1]] # "cancelled"
              /\ gets' = n + 1 /\ worker' = "serving" /\ current' = puts[n + 1]
              /\ pool' = [pool EXCEPT ![puts[n + 1]] = "submitted"]
  BY DEF TakeNext, Skips, Abandoned
<1>2. \A i \in gets + 1 .. n : puts[i] # None /\ told[puts[i]] = "timeout"
  <2> SUFFICES ASSUME NEW i \in gets + 1 .. n PROVE puts[i] # None /\ told[puts[i]] = "timeout"
    OBVIOUS
  <2>1. i \in Unread /\ puts[i] # None /\ future[puts[i]] = "cancelled"
    BY <1>0, <1>1 DEF Unread
  <2>2. QED
    BY <2>1, QueuedTold DEF told
<1>3. told' = told
  BY DEF told, Told
<1>4. CASE worker' # "serving"
  <2>1. outcomes' = outcomes /\ serves' = {}
    BY <1>1, <1>4 DEF outcomes, RunOutcome, serves
  <2>2. \/ n = Len(puts) /\ gets' = n
        \/ n < Len(puts) /\ gets' = n + 1 /\ puts[n + 1] = None
    BY <1>1, <1>4
  <2>3. QED
    BY <1>2, <1>3, <2>1, <2>2 DEF Server!NextPlease, told, outcomes, serves
<1>5. CASE worker' = "serving"
  <2>1. /\ n < Len(puts) /\ puts[n + 1] # None /\ future'[puts[n + 1]] # "cancelled"
        /\ gets' = n + 1 /\ serves' = {puts[n + 1]}
        /\ pool' = [pool EXCEPT ![puts[n + 1]] = "submitted"]
    BY <1>1, <1>5 DEF serves
  <2>2. n + 1 \in Unread
    BY <1>0, <2>1 DEF Unread
  <2>3. puts[n + 1] \in Jobs /\ told[puts[n + 1]] = "awaited"
    BY <2>1, <2>2, QueuedTold DEF told
  <2>4. pool[puts[n + 1]] = "out"
    BY <2>1, <2>2 DEF IInv, UnstartedInv
  <2>5. \A j \in Jobs : RunOutcome(j)' = RunOutcome(j)
    BY <2>1, <2>3, <2>4 DEF RunOutcome, IInv, TypeOK
  <2>6. outcomes' = outcomes
    BY <2>5 DEF outcomes
  <2>7. QED
    BY <1>2, <1>3, <2>1, <2>3, <2>6 DEF Server!NextPlease, told, outcomes, serves
<1>6. QED
  BY <1>4, <1>5

(* The two turns of the worker's loop: after get(), and after a delivery.    *)
LEMMA WakeRefines ==
  ASSUME IInv, Wake
  PROVE  Server!NextPlease
<1>1. serves = {}
  BY DEF Wake, serves
<1>2. \A i \in 1 .. gets : puts[i] # None
  BY DEF Wake, IInv, TakenInv
<1>3. QED
  BY <1>1, <1>2, TakeNextRefines DEF Wake

LEMMA SettleRefines ==
  ASSUME QueueAssumption, IInv, Settle
  PROVE  Server!NextPlease
<1>1. /\ worker = "serving" /\ gets > 0 /\ current = puts[gets] /\ current # None
      /\ pool[current] \in {"returned", "raised"}
      /\ future[current] \in {"pending", "cancelled"}
  BY DEF Settle, IInv, WorkerInv
<1>2. Len(puts) \in Nat /\ gets \in 1 .. Len(puts) /\ current \in Jobs
  BY <1>1 DEF IInv, TypeOK, Entry
<1>3. /\ TakeNext
      /\ future' = IF MayDeliver(current)
                   THEN [future EXCEPT ![current] = Delivery(current)] ELSE future
      /\ UNCHANGED <<puts, expired, caller>>
  BY <1>1 DEF Settle, MayDeliver
<1>4. \A i \in Unread : puts[i] # None => future'[puts[i]] = future[puts[i]]
  <2> SUFFICES ASSUME NEW i \in Unread, puts[i] # None PROVE future'[puts[i]] = future[puts[i]]
    OBVIOUS
  <2>1. i \in 1 .. Len(puts) /\ i # gets
    BY <1>2 DEF Unread
  <2>2. puts[i] # current /\ puts[i] \in Jobs
    BY <1>1, <1>2, <2>1 DEF IInv, PutsInv, TypeOK, Entry
  <2>3. QED
    BY <1>3, <2>2 DEF IInv, TypeOK
<1>5. \A i \in 1 .. gets : puts[i] # None
  BY <1>1, <1>2 DEF IInv, TakenInv
<1>6. \A j \in serves : outcomes[j] # "none"
  BY <1>1, <1>2 DEF serves, outcomes, RunOutcome
<1>7. QED
  BY <1>3, <1>4, <1>5, <1>6, TakeNextRefines

-----------------------------------------------------------------------------
(* Every step of the queue is a step of the server or leaves it as it is.    *)
LEMMA StepRefines == IInv /\ [Next]_vars => [Server!Next]_(Server!vars)
<1> SUFFICES ASSUME IInv, [Next]_vars PROVE Server!Next \/ UNCHANGED Server!vars
  OBVIOUS
<1>1. ASSUME NEW j \in Jobs, Accept(j) \/ Refuse(j) \/ Expire(j) \/ Resume(j)
      PROVE  Server!Next \/ UNCHANGED Server!vars
  BY <1>1, QueueAssumption, AcceptRefines, RefuseRefines, ExpireRefines, ResumeRefines
  DEF Server!Next
<1>2. ASSUME NEW j \in Jobs, Start(j) \/ Return(j) \/ Raise(j)
      PROVE  Server!Next \/ UNCHANGED Server!vars
  BY <1>2, QueueAssumption, PoolRefines DEF Server!Next
<1>3. CASE Wake \/ Settle
  BY <1>3, QueueAssumption, WakeRefines, SettleRefines DEF Server!Next
<1>4. CASE PutSentinel \/ BlockOnPut \/ Join \/ Exited
  BY <1>4, QueueAssumption, StopRefines DEF Server!Next
<1>5. CASE UNCHANGED vars
  BY <1>5 DEF vars, Server!vars, Told, RunOutcome
<1>6. QED
  BY <1>1, <1>2, <1>3, <1>4, <1>5 DEF Next

(* No fairness is needed for it: a client that merely keeps to the queue's   *)
(* steps sees a serial server.                                               *)
LEMMA StepsOfSerialServer == Init /\ [][Next]_vars => ServerBehaviour
<1>1. Init => IInv /\ Server!Init
  BY InitIInv, InitRefines
<1>2. IInv /\ [Next]_vars => IInv' /\ [Server!Next]_(Server!vars)
  BY NextKeepsIInv, StepRefines
<1>3. QED
  BY <1>1, <1>2, PTL DEF ServerBehaviour, Server!Spec

(* Seen from its callers the queue is a serial server (app/queue.py): one    *)
(* job at a time, in order, passing over those who gave up and nobody else.  *)
THEOREM QueueIsSerialServer == Spec => ServerBehaviour
BY StepsOfSerialServer, PTL DEF Spec

=============================================================================
