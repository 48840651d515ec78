------------------------- MODULE RequestQueueProofs -------------------------
(* Proofs about RequestQueue, for any set of bios and any limits.          *)
EXTENDS RequestQueue, FiniteSetTheorems, TLAPS

(* The bios of the list the worker serves, followed by those of the        *)
(* deferred list, are the last that arrived, in their order and still      *)
(* queued; the ones before them are started, the writes among those ended. *)
Served == Len(arrived) - Len(list) - Len(deferred)

Order ==
  /\ Served >= 0
  /\ \A i \in 1 .. Len(list) : list[i] = arrived[Served + i]
  /\ \A i \in 1 .. Len(deferred) : deferred[i] = arrived[Served + Len(list) + i]
  /\ \A i, k \in 1 .. Len(arrived) : i # k => arrived[i] # arrived[k]
  /\ \A i \in 1 .. Len(arrived) : i > Served => pc[arrived[i]] = "queued"
  /\ \A i \in 1 .. Len(arrived) :
       i <= Served => /\ pc[arrived[i]] \notin {"new", "queued"}
                      /\ kind[arrived[i]] = "write" => pc[arrived[i]] = "ended"
  /\ worker = "run" <=> list # <<>>

(* wait_cnt counts the I/Os that are not decrypted; a completion that did  *)
(* not fire early fired at the last of them.                               *)
Count(b) ==
  /\ wait_cnt[b] = flying[b] + decrypt[b] + lost[b]
  /\ pc[b] \in {"new", "queued"} => wait_cnt[b] = 0 /\ done[b] = 0
  /\ pc[b] # "submit" => todo[b] = 0
  /\ b \notin early /\ done[b] > 0 => todo[b] = 0 /\ wait_cnt[b] = 0
  /\ b \notin early /\ pc[b] \in {"up", "ended"} => wait_cnt[b] = 0

Counts == \A b \in Bios : Count(b)

Readers == IsFiniteSet(Active) /\ ReadersCounted

IInv == TypeOK /\ Order /\ Counts

-----------------------------------------------------------------------------
LEMMA InitInv == Init => IInv
<1> SUFFICES ASSUME Init PROVE IInv
  OBVIOUS
<1>1. TypeOK
  <2>1. deferred \in Seq(Bios) /\ list \in Seq(Bios) /\ arrived \in Seq(Bios)
    BY DEF Init
  <2>2. kind \in [Bios -> Kinds] /\ pc \in [Bios -> BioPc]
    BY DEF Init, Kinds, BioPc
  <2>3. Zero \in [Bios -> Nat] /\ max_reader \in Nat /\ timeouts \in Nat /\ errors \in Nat
    BY RequestAssumption DEF Init, Zero
  <2> QED BY <2>1, <2>2, <2>3 DEF Init, TypeOK
<1>2. Order
  BY DEF Init, Order, Served
<1>3. Counts
  BY DEF Init, Counts, Count, Zero
<1> QED BY <1>1, <1>2, <1>3 DEF IInv

(* The bio the worker serves.                                              *)
LEMMA HeadBio ==
  ASSUME TypeOK, Order, worker = "run"
  PROVE  /\ list # <<>> /\ Len(list) \in Nat \ {0}
         /\ Head(list) = list[1] /\ Head(list) \in Bios
         /\ Tail(list) \in Seq(Bios) /\ Len(Tail(list)) = Len(list) - 1
         /\ \A i \in 1 .. Len(list) - 1 : Tail(list)[i] = list[i + 1]
         /\ Served + 1 \in 1 .. Len(arrived)
         /\ Head(list) = arrived[Served + 1]
         /\ pc[Head(list)] = "queued"
<1>1. list # <<>> /\ list \in Seq(Bios) /\ arrived \in Seq(Bios) /\ deferred \in Seq(Bios)
  BY DEF Order, TypeOK
<1>2. Len(list) \in Nat \ {0} /\ Head(list) = list[1] /\ Head(list) \in Bios
  BY <1>1
<1>3. Served + 1 \in 1 .. Len(arrived) /\ Served + 1 > Served
  BY <1>1, <1>2 DEF Order, Served
<1>4. list[1] = arrived[Served + 1]
  BY <1>2 DEF Order
<1>5. pc[arrived[Served + 1]] = "queued"
  BY <1>3 DEF Order
<1> QED BY <1>1, <1>2, <1>3, <1>4, <1>5

LEMMA StepType == IInv /\ [Next]_vars => TypeOK'
<1> SUFFICES ASSUME IInv, [Next]_vars PROVE TypeOK'
  OBVIOUS
<1> USE DEF TypeOK, queue, ios, history
<1>0. TypeOK /\ Order /\ Counts
  BY DEF IInv
<1>1. ASSUME NEW b \in Bios, target_map(b) PROVE TypeOK'
  BY <1>0, <1>1 DEF target_map, Kinds, BioPc
<1>2. ASSUME NEW b \in Bios, merge_read_io(b) PROVE TypeOK'
  BY <1>0, <1>2 DEF merge_read_io
<1>3. ASSUME NEW b \in Bios, ReadCheck(b) PROVE TypeOK'
  BY <1>0, <1>3 DEF ReadCheck, BioPc
<1>4. ASSUME NEW b \in Bios, wait_for_completion(b) PROVE TypeOK'
  BY <1>0, <1>4 DEF wait_for_completion, BioPc
<1>5. ASSUME NEW b \in Bios, async_read_up(b) PROVE TypeOK'
  BY <1>0, <1>5 DEF async_read_up, BioPc
<1>6. ASSUME NEW b \in Bios, read_iocb(b) PROVE TypeOK'
  <2>1. flying' \in [Bios -> Nat]
    BY <1>0, <1>6 DEF read_iocb
  <2>2. decrypt' \in [Bios -> Nat] /\ lost' \in [Bios -> Nat] /\ errors' \in Nat
    <3>1. CASE decrypt' = [decrypt EXCEPT ![b] = @ + 1] /\ UNCHANGED <<lost, errors>>
      BY <1>0, <3>1
    <3>2. CASE /\ errors' = errors + 1
               /\ lost' = [lost EXCEPT ![b] = @ + 1]
               /\ UNCHANGED decrypt
      BY <1>0, <3>2
    <3> QED BY <1>6, <3>1, <3>2 DEF read_iocb
  <2> QED BY <1>0, <1>6, <2>1, <2>2 DEF read_iocb
<1>7. ASSUME NEW b \in Bios, decrypt_work(b) PROVE TypeOK'
  <2>1. wait_cnt[b] - 1 \in Nat /\ decrypt[b] - 1 \in Nat
    BY <1>0, <1>7 DEF decrypt_work, Counts, Count
  <2>2. done' \in [Bios -> Nat] /\ early' \subseteq Bios
    BY <1>0, <1>7 DEF decrypt_work
  <2> QED BY <1>0, <1>7, <2>1, <2>2 DEF decrypt_work
<1>8. CASE WorkerStart
  BY <1>0, <1>8 DEF WorkerStart
<1>9. CASE bio_list_take
  BY <1>0, <1>9 DEF bio_list_take
<1>10. CASE do_write
  BY <1>0, <1>10, HeadBio DEF do_write, PopBio, BioPc
<1>11. CASE StartRead
  <2>1. max_reader' \in Nat /\ timeouts' \in Nat
    BY <1>0, <1>11 DEF StartRead
  <2>2. pc' \in [Bios -> BioPc]
    BY <1>0, <1>11, HeadBio DEF StartRead, BioPc
  <2>3. todo' \in [Bios -> Nat]
    <3>1. PICK m \in 0 .. MaxRange : todo' = [todo EXCEPT ![Head(list)] = m]
      BY <1>11 DEF StartRead
    <3>2. m \in Nat
      BY RequestAssumption
    <3> QED BY <1>0, <3>1, <3>2
  <2> QED BY <1>0, <1>11, <2>1, <2>2, <2>3, HeadBio DEF StartRead, PopBio
<1>12. CASE UNCHANGED vars
  BY <1>0, <1>12 DEF vars
<1> QED BY <1>1, <1>2, <1>3, <1>4, <1>5, <1>6, <1>7, <1>8, <1>9, <1>10, <1>11, <1>12
        DEF Next, Reader, Device, Worker

-----------------------------------------------------------------------------
LEMMA StepCounts == IInv /\ [Next]_vars => Counts'
<1> SUFFICES ASSUME IInv, [Next]_vars, NEW c \in Bios PROVE Count(c)'
  BY DEF Counts
<1> USE DEF TypeOK, Count, queue, ios, history
<1>0. TypeOK /\ Order /\ Counts /\ Count(c)
  BY DEF IInv, Counts
<1>1. ASSUME NEW b \in Bios, target_map(b) PROVE Count(c)'
  <2>1. CASE c = b
    BY <1>0, <1>1, <2>1 DEF target_map
  <2>2. CASE c # b
    BY <1>0, <1>1, <2>2 DEF target_map
  <2> QED BY <2>1, <2>2
<1>2. ASSUME NEW b \in Bios, merge_read_io(b) PROVE Count(c)'
  <2>1. CASE c = b
    BY <1>0, <1>2, <2>1 DEF merge_read_io
  <2>2. CASE c # b
    BY <1>0, <1>2, <2>2 DEF merge_read_io
  <2> QED BY <2>1, <2>2
<1>3. ASSUME NEW b \in Bios, ReadCheck(b) PROVE Count(c)'
  <2>1. CASE c = b
    BY <1>0, <1>3, <2>1 DEF ReadCheck
  <2>2. CASE c # b
    BY <1>0, <1>3, <2>2 DEF ReadCheck
  <2> QED BY <2>1, <2>2
<1>4. ASSUME NEW b \in Bios, wait_for_completion(b) PROVE Count(c)'
  <2>1. CASE c = b
    BY <1>0, <1>4, <2>1 DEF wait_for_completion
  <2>2. CASE c # b
    BY <1>0, <1>4, <2>2 DEF wait_for_completion
  <2> QED BY <2>1, <2>2
<1>5. ASSUME NEW b \in Bios, async_read_up(b) PROVE Count(c)'
  <2>1. CASE c = b
    BY <1>0, <1>5, <2>1 DEF async_read_up
  <2>2. CASE c # b
    BY <1>0, <1>5, <2>2 DEF async_read_up
  <2> QED BY <2>1, <2>2
<1>6. ASSUME NEW b \in Bios, read_iocb(b) PROVE Count(c)'
  <2>1. CASE c = b
    BY <1>0, <1>6, <2>1 DEF read_iocb
  <2>2. CASE c # b
    BY <1>0, <1>6, <2>2 DEF read_iocb
  <2> QED BY <2>1, <2>2
<1>7. ASSUME NEW b \in Bios, decrypt_work(b) PROVE Count(c)'
  <2>1. CASE c = b
    BY <1>0, <1>7, <2>1 DEF decrypt_work
  <2>2. CASE c # b
    BY <1>0, <1>7, <2>2 DEF decrypt_work
  <2> QED BY <2>1, <2>2
<1>8. CASE WorkerStart
  BY <1>0, <1>8 DEF WorkerStart
<1>9. CASE bio_list_take
  BY <1>0, <1>9 DEF bio_list_take
<1>10. CASE do_write
  BY <1>0, <1>10, HeadBio DEF do_write
<1>11. CASE StartRead
  <2>1. CASE c = Head(list)
    <3>1. pc'[c] = "submit" /\ wait_cnt[c] = 0 /\ done[c] = 0
      BY <1>0, <1>11, <2>1, HeadBio DEF StartRead
    <3> QED BY <1>0, <1>11, <3>1 DEF StartRead
  <2>2. CASE c # Head(list)
    <3>1. pc'[c] = pc[c] /\ todo'[c] = todo[c]
      BY <1>0, <1>11, <2>2, HeadBio DEF StartRead
    <3> QED BY <1>0, <1>11, <3>1 DEF StartRead
  <2> QED BY <2>1, <2>2
<1>12. CASE UNCHANGED vars
  BY <1>0, <1>12 DEF vars
<1> QED BY <1>1, <1>2, <1>3, <1>4, <1>5, <1>6, <1>7, <1>8, <1>9, <1>10, <1>11, <1>12
        DEF Next, Reader, Device, Worker

-----------------------------------------------------------------------------
(* A step that leaves the queue alone keeps the order if no queued bio     *)
(* starts and no write changes.                                            *)
LEMMA OrderKept ==
  ASSUME TypeOK, Order, UNCHANGED <<deferred, list, arrived, kind>>,
         worker' = "run" <=> worker = "run",
         \A b \in Bios : pc[b] \in {"queued", "ended"} => pc'[b] = pc[b],
         \A b \in Bios : pc[b] \notin {"new", "queued"} => pc'[b] \notin {"new", "queued"}
  PROVE  Order'
<1>1. Served' = Served
  BY DEF Served
<1>2. \A i \in 1 .. Len(arrived) : arrived[i] \in Bios
  BY DEF TypeOK
<1> QED BY <1>1, <1>2 DEF Order

(* The worker's bio starts: the next ones are still queued.                *)
LEMMA OrderPop ==
  ASSUME TypeOK, Order, worker = "run", PopBio, UNCHANGED <<arrived, kind>>,
         NEW p \in {"submit", "ended"}, pc' = [pc EXCEPT ![Head(list)] = p],
         kind[Head(list)] = "write" => p = "ended"
  PROVE  Order'
<1> DEFINE h == Served + 1
<1>1. /\ Len(list) \in Nat \ {0} /\ Head(list) \in Bios /\ Len(Tail(list)) = Len(list) - 1
      /\ \A i \in 1 .. Len(list) - 1 : Tail(list)[i] = list[i + 1]
      /\ h \in 1 .. Len(arrived) /\ Head(list) = arrived[h]
  BY HeadBio
<1>2. /\ deferred' = deferred /\ list' = Tail(list) /\ arrived' = arrived
      /\ Len(deferred) \in Nat /\ Len(arrived) \in Nat
      /\ \A i \in 1 .. Len(arrived) : arrived[i] \in Bios
  BY DEF PopBio, TypeOK
<1>3. Served' = h /\ Served \in Nat
  BY <1>1, <1>2 DEF Served, Order
<1>4. \A i \in 1 .. Len(arrived) : i # h => pc'[arrived[i]] = pc[arrived[i]]
  BY <1>1, <1>2 DEF Order, TypeOK
<1>5. pc'[arrived[h]] = p
  BY <1>1 DEF TypeOK
<1>6. \A i \in 1 .. Len(list') : list'[i] = arrived'[Served' + i]
  <2> SUFFICES ASSUME NEW i \in 1 .. Len(list') PROVE list'[i] = arrived'[Served' + i]
    OBVIOUS
  <2>1. i \in 1 .. Len(list) - 1 /\ i + 1 \in 1 .. Len(list)
    BY <1>1, <1>2
  <2>2. list'[i] = list[i + 1] /\ list[i + 1] = arrived[Served + (i + 1)]
    BY <1>1, <1>2, <2>1 DEF Order
  <2>3. Served' + i = Served + (i + 1)
    BY <1>3, <2>1
  <2> QED BY <1>2, <2>2, <2>3
<1>7. \A i \in 1 .. Len(deferred') : deferred'[i] = arrived'[Served' + Len(list') + i]
  <2> SUFFICES ASSUME NEW i \in 1 .. Len(deferred)
               PROVE  deferred[i] = arrived[Served' + Len(list') + i]
    BY <1>2
  <2>1. Served' + Len(list') + i = Served + Len(list) + i
    BY <1>1, <1>2, <1>3
  <2> QED BY <2>1 DEF Order
<1>8. \A i \in 1 .. Len(arrived') : i > Served' => pc'[arrived'[i]] = "queued"
  BY <1>1, <1>2, <1>3, <1>4 DEF Order
<1>9. \A i \in 1 .. Len(arrived') :
       i <= Served' => /\ pc'[arrived'[i]] \notin {"new", "queued"}
                       /\ kind'[arrived'[i]] = "write" => pc'[arrived'[i]] = "ended"
  <2> SUFFICES ASSUME NEW i \in 1 .. Len(arrived), i <= h
               PROVE  /\ pc'[arrived[i]] \notin {"new", "queued"}
                      /\ kind[arrived[i]] = "write" => pc'[arrived[i]] = "ended"
    BY <1>2, <1>3
  <2>1. CASE i = h
    BY <2>1, <1>1, <1>5
  <2>2. CASE i # h
    BY <2>2, <1>1, <1>3, <1>4 DEF Order
  <2> QED BY <2>1, <2>2
<1>10. worker' = "run" <=> list' # <<>>
  <2>1. list' \in Seq(Bios) /\ Len(list') = Len(list) - 1
    BY <1>1, <1>2, HeadBio
  <2>2. list' = <<>> <=> Len(list') = 0
    BY <2>1
  <2>3. worker' = IF Len(list) = 1 THEN "idle" ELSE "run"
    BY DEF PopBio
  <2> QED BY <1>1, <2>1, <2>2, <2>3
<1>11. \A i, k \in 1 .. Len(arrived') : i # k => arrived'[i] # arrived'[k]
  BY <1>2 DEF Order
<1>12. Served' >= 0
  BY <1>3
<1> QED BY <1>6, <1>7, <1>8, <1>9, <1>10, <1>11, <1>12 DEF Order

LEMMA StepOrder == IInv /\ [Next]_vars => Order'
<1> SUFFICES ASSUME IInv, [Next]_vars PROVE Order'
  OBVIOUS
<1>0. TypeOK /\ Order /\ Counts
  BY DEF IInv
<1>1. ASSUME NEW b \in Bios, target_map(b) PROVE Order'
  <2> DEFINE n == Len(arrived)
  <2>1. /\ deferred \in Seq(Bios) /\ arrived \in Seq(Bios) /\ list \in Seq(Bios)
        /\ deferred' = Append(deferred, b) /\ arrived' = Append(arrived, b)
        /\ list' = list /\ worker' = worker /\ pc' = [pc EXCEPT ![b] = "queued"]
        /\ pc[b] = "new"
        /\ \A c \in Bios : c # b => kind'[c] = kind[c]
    BY <1>0, <1>1 DEF target_map, TypeOK
  <2>2. /\ n \in Nat /\ Len(arrived') = n + 1 /\ arrived'[n + 1] = b
        /\ \A i \in 1 .. n : arrived'[i] = arrived[i] /\ arrived[i] \in Bios
    BY <2>1
  <2>3. /\ Len(deferred) \in Nat /\ Len(deferred') = Len(deferred) + 1
        /\ deferred'[Len(deferred) + 1] = b
        /\ \A i \in 1 .. Len(deferred) : deferred'[i] = deferred[i]
    BY <2>1
  <2>4. Served' = Served /\ Served \in Nat /\ Len(list) \in Nat
        /\ Served + Len(list) + Len(deferred) = n
    BY <1>0, <2>1, <2>2, <2>3 DEF Served, Order
  <2>5. \A i \in 1 .. n : arrived[i] # b
    <3> SUFFICES ASSUME NEW i \in 1 .. n PROVE pc[arrived[i]] # "new"
      BY <2>1
    <3> QED BY <1>0, <2>2, <2>4 DEF Order
  <2>6. \A i \in 1 .. n : pc'[arrived[i]] = pc[arrived[i]] /\ kind'[arrived[i]] = kind[arrived[i]]
    BY <1>0, <2>1, <2>2, <2>5 DEF TypeOK
  <2>7. pc'[b] = "queued"
    BY <1>0, <2>1 DEF TypeOK
  <2>8. \A i \in 1 .. Len(list') : list'[i] = arrived'[Served' + i]
    BY <1>0, <2>1, <2>2, <2>3, <2>4 DEF Order
  <2>9. \A i \in 1 .. Len(deferred') : deferred'[i] = arrived'[Served' + Len(list') + i]
    <3> SUFFICES ASSUME NEW i \in 1 .. Len(deferred) + 1
                 PROVE  deferred'[i] = arrived'[Served + Len(list) + i]
      BY <2>1, <2>3, <2>4
    <3>1. CASE i \in 1 .. Len(deferred)
      <4>1. Served + Len(list) + i \in 1 .. n
        BY <2>2, <2>3, <2>4, <3>1
      <4> QED BY <1>0, <2>2, <2>3, <3>1, <4>1 DEF Order
    <3>2. CASE i = Len(deferred) + 1
      <4>1. Served + Len(list) + i = n + 1
        BY <2>2, <2>3, <2>4, <3>2
      <4> QED BY <2>2, <2>3, <3>2, <4>1
    <3> QED BY <2>3, <3>1, <3>2
  <2>10. \A i, k \in 1 .. Len(arrived') : i # k => arrived'[i] # arrived'[k]
    BY <1>0, <2>2, <2>5 DEF Order
  <2>11. \A i \in 1 .. Len(arrived') : i > Served' => pc'[arrived'[i]] = "queued"
    BY <1>0, <2>2, <2>4, <2>6, <2>7 DEF Order
  <2>12. \A i \in 1 .. Len(arrived') :
           i <= Served' => /\ pc'[arrived'[i]] \notin {"new", "queued"}
                           /\ kind'[arrived'[i]] = "write" => pc'[arrived'[i]] = "ended"
    BY <1>0, <2>2, <2>3, <2>4, <2>6 DEF Order
  <2> QED BY <1>0, <2>1, <2>4, <2>8, <2>9, <2>10, <2>11, <2>12 DEF Order
<1> USE DEF queue, ios, history
<1>2. ASSUME NEW b \in Bios, merge_read_io(b) PROVE Order'
  BY <1>0, <1>2, OrderKept DEF merge_read_io
<1>3. ASSUME NEW b \in Bios, ReadCheck(b) PROVE Order'
  BY <1>0, <1>3, OrderKept DEF ReadCheck, TypeOK
<1>4. ASSUME NEW b \in Bios, wait_for_completion(b) PROVE Order'
  BY <1>0, <1>4, OrderKept DEF wait_for_completion, TypeOK
<1>5. ASSUME NEW b \in Bios, async_read_up(b) PROVE Order'
  BY <1>0, <1>5, OrderKept DEF async_read_up, TypeOK
<1>6. ASSUME NEW b \in Bios, read_iocb(b) PROVE Order'
  BY <1>0, <1>6, OrderKept DEF read_iocb
<1>7. ASSUME NEW b \in Bios, decrypt_work(b) PROVE Order'
  BY <1>0, <1>7, OrderKept DEF decrypt_work
<1>8. CASE WorkerStart
  BY <1>0, <1>8, OrderKept DEF WorkerStart
<1>9. CASE bio_list_take
  <2>1. list = <<>> /\ Len(list) = 0
    BY <1>0, <1>9 DEF bio_list_take, Order
  <2>2. /\ list' = deferred /\ deferred' = <<>> /\ Len(deferred') = 0
        /\ UNCHANGED <<arrived, pc, kind>>
        /\ Len(deferred) \in Nat /\ Len(arrived) \in Nat
    BY <1>0, <1>9 DEF bio_list_take, TypeOK
  <2>3. Served' = Served /\ Served \in Nat
    BY <1>0, <2>1, <2>2 DEF Served, Order
  <2>4. \A i \in 1 .. Len(list') : list'[i] = arrived'[Served' + i]
    BY <1>0, <2>1, <2>2, <2>3 DEF Order
  <2>5. worker' = "run" <=> list' # <<>>
    BY <1>9 DEF bio_list_take
  <2> QED BY <1>0, <2>2, <2>3, <2>4, <2>5 DEF Order
<1>10. CASE do_write
  BY <1>0, <1>10, OrderPop DEF do_write
<1>11. CASE StartRead
  BY <1>0, <1>11, OrderPop DEF StartRead
<1>12. CASE UNCHANGED vars
  BY <1>0, <1>12, OrderKept DEF vars
<1> QED BY <1>1, <1>2, <1>3, <1>4, <1>5, <1>6, <1>7, <1>8, <1>9, <1>10, <1>11, <1>12
        DEF Next, Reader, Device, Worker

-----------------------------------------------------------------------------
(* A bio that becomes active, and one that stops being active.             *)
LEMMA ActiveJoins ==
  ASSUME IsFiniteSet(Active), NEW b \in Bios, b \notin Active,
         Active' = Active \cup {b}
  PROVE  IsFiniteSet(Active') /\ Cardinality(Active') = Cardinality(Active) + 1
BY FS_AddElement

LEMMA ActiveLeaves ==
  ASSUME IsFiniteSet(Active), NEW b \in Active, Active' = Active \ {b}
  PROVE  IsFiniteSet(Active') /\ Cardinality(Active') = Cardinality(Active) - 1
BY FS_RemoveElement

LEMMA StepReaders == IInv /\ Readers /\ [Next]_vars => Readers'
<1> SUFFICES ASSUME IInv, Readers, [Next]_vars PROVE Readers'
  OBVIOUS
<1>0. TypeOK /\ Order /\ IsFiniteSet(Active) /\ ReadersCounted
      /\ Cardinality(Active) \in Nat /\ max_reader \in Nat /\ timeouts \in Nat
      /\ MaxReader \in Nat
  BY FS_CardinalityType, RequestAssumption DEF IInv, Readers, TypeOK
<1>a. ASSUME UNCHANGED <<max_reader, timeouts>>, Active' = Active PROVE Readers'
  BY <1>0, <1>a DEF Readers, ReadersCounted
<1> USE DEF queue, ios, history
<1>1. ASSUME NEW b \in Bios, target_map(b) PROVE Readers'
  <2>1. Active' = Active
    BY <1>0, <1>1 DEF target_map, Active, TypeOK
  <2> QED BY <1>a, <1>1, <2>1 DEF target_map
<1>2. ASSUME NEW b \in Bios, merge_read_io(b) PROVE Readers'
  BY <1>a, <1>2 DEF merge_read_io, Active
<1>3. ASSUME NEW b \in Bios, ReadCheck(b) PROVE Readers'
  <2>1. Active' = Active
    BY <1>0, <1>3 DEF ReadCheck, Active, TypeOK
  <2> QED BY <1>a, <1>3, <2>1 DEF ReadCheck
<1>4. ASSUME NEW b \in Bios, wait_for_completion(b) PROVE Readers'
  <2>1. Active' = Active
    BY <1>0, <1>4 DEF wait_for_completion, Active, TypeOK
  <2> QED BY <1>a, <1>4, <2>1 DEF wait_for_completion
<1>5. ASSUME NEW b \in Bios, async_read_up(b) PROVE Readers'
  <2>1. b \in Active /\ Active' = Active \ {b}
    BY <1>0, <1>5 DEF async_read_up, Active, TypeOK
  <2>2. IsFiniteSet(Active') /\ Cardinality(Active') = Cardinality(Active) - 1
    BY <1>0, <2>1, ActiveLeaves
  <2> QED BY <1>0, <1>5, <2>2 DEF async_read_up, Readers, ReadersCounted
<1>6. ASSUME NEW b \in Bios, read_iocb(b) PROVE Readers'
  BY <1>a, <1>6 DEF read_iocb, Active
<1>7. ASSUME NEW b \in Bios, decrypt_work(b) PROVE Readers'
  BY <1>a, <1>7 DEF decrypt_work, Active
<1>8. CASE WorkerStart
  BY <1>a, <1>8 DEF WorkerStart, Active
<1>9. CASE bio_list_take
  BY <1>a, <1>9 DEF bio_list_take, Active
<1>10. CASE do_write
  <2>1. Active' = Active
    BY <1>0, <1>10, HeadBio DEF do_write, Active, TypeOK
  <2> QED BY <1>a, <1>10, <2>1 DEF do_write
<1>11. CASE StartRead
  <2> DEFINE b == Head(list)
  <2>1. b \in Bios /\ pc[b] = "queued" /\ pc' = [pc EXCEPT ![b] = "submit"]
    BY <1>0, <1>11, HeadBio DEF StartRead
  <2> HIDE DEF b
  <2>2. b \notin Active /\ Active' = Active \cup {b}
    BY <1>0, <2>1 DEF Active, TypeOK
  <2>3. IsFiniteSet(Active') /\ Cardinality(Active') = Cardinality(Active) + 1
    BY <1>0, <2>1, <2>2, ActiveJoins
  <2> QED BY <1>0, <1>11, <2>3 DEF StartRead, Readers, ReadersCounted
<1>12. CASE UNCHANGED vars
  BY <1>a, <1>12 DEF vars, Active
<1> QED BY <1>1, <1>2, <1>3, <1>4, <1>5, <1>6, <1>7, <1>8, <1>9, <1>10, <1>11, <1>12
        DEF Next, Reader, Device, Worker

LEMMA InitReaders == Init => Readers
<1> SUFFICES ASSUME Init PROVE Readers
  OBVIOUS
<1>1. Active = {}
  BY DEF Init, Active
<1>2. IsFiniteSet(Active) /\ Cardinality(Active) = 0
  BY <1>1, FS_EmptySet
<1> QED BY <1>2, RequestAssumption DEF Init, Readers, ReadersCounted

-----------------------------------------------------------------------------
LEMMA Inductive == Spec => []IInv
<1>1. IInv /\ [Next]_vars => IInv'
  BY StepType, StepOrder, StepCounts DEF IInv
<1> QED BY InitInv, <1>1, PTL DEF Spec

(* No counter of the request path ever runs below zero, whatever the order *)
(* in which bios arrive and I/Os are answered.                             *)
THEOREM RequestTypes == Spec => []TypeOK
<1>1. IInv => TypeOK
  BY DEF IInv
<1> QED BY Inductive, <1>1, PTL

(* process_deferred_bios: no read starts before a write that arrived       *)
(* earlier has ended, for any number of bios.                              *)
THEOREM WritesBeforeReads == Spec => []WritesFirst
<1>1. IInv => WritesFirst
  <2> SUFFICES ASSUME IInv, NEW i \in 1 .. Len(arrived), NEW j \in 1 .. Len(arrived),
                      i < j, kind[arrived[i]] = "write",
                      pc[arrived[j]] \notin {"new", "queued"}
               PROVE  pc[arrived[i]] = "ended"
    BY DEF WritesFirst
  <2>1. Order /\ Served \in Int
    <3>1. arrived \in Seq(Bios) /\ list \in Seq(Bios) /\ deferred \in Seq(Bios) /\ Order
      BY DEF IInv, TypeOK
    <3> QED BY <3>1 DEF Served
  <2>2. ~(j > Served)
    BY <2>1 DEF Order
  <2>3. i <= Served
    BY <2>1, <2>2
  <2> QED BY <2>1, <2>3 DEF Order
<1> QED BY Inductive, <1>1, PTL

(* jindisk_do_read and decrypt_work: a read ends with all of its blocks    *)
(* unless its completion fired while it was still submitting.              *)
THEOREM ReadsComplete == Spec => []CompleteUnlessEarly
<1>1. IInv => CompleteUnlessEarly
  <2> SUFFICES ASSUME IInv, NEW b \in Bios \ early, Ended(b) PROVE Complete(b)
    BY DEF CompleteUnlessEarly
  <2>1. Count(b) /\ TypeOK
    BY DEF IInv, Counts
  <2> QED BY <2>1 DEF Count, TypeOK, Ended, Complete
<1> QED BY Inductive, <1>1, PTL

(* async_read and down_timeout: the readers in flight exceed MAX_READER by *)
(* exactly the units that up has added after a timeout.                    *)
THEOREM ReadersBounded == Spec => []ReadersCounted
<1>1. IInv /\ Readers /\ [Next]_vars => Readers'
  BY StepReaders
<1>2. Readers => ReadersCounted
  BY DEF Readers
<1> QED BY InitReaders, Inductive, <1>1, <1>2, PTL DEF Spec
=============================================================================
