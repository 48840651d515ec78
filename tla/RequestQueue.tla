--------------------------- MODULE RequestQueue ----------------------------
(***************************************************************************)
(* The request path of the device-mapper target: bios are deferred to one  *)
(* worker, which executes writes itself and starts a thread per read; a    *)
(* reader submits one I/O per run of adjacent blocks and waits for their   *)
(* decryption.  Where the data comes from is modelled by SegmentBuffer.    *)
(***************************************************************************)
EXTENDS Integers, Sequences, FiniteSets

CONSTANTS
  Bios,       \* the bios of a behaviour
  MaxReader,  \* MAX_READER
  MaxRange,   \* bound: runs of adjacent blocks in one read
  MaxError    \* bound: reads of the raw device that fail

ASSUME RequestAssumption ==
  /\ MaxReader \in Nat \ {0}
  /\ MaxRange \in Nat
  /\ MaxError \in Nat

Kinds == {"read", "write"}

VARIABLES
  deferred,    \* deferred_bios
  pending,     \* deferred_bio_worker is queued (schedule_work)
  worker,      \* "idle", "take" or "run": the worker's place
  list,        \* bios the worker took from deferred_bios
  max_reader,  \* the semaphore's count
  kind, pc,    \* per bio: read or write, and how far it is
  (* per read: the locals of jindisk_do_read and its I/Os *)
  todo,        \* runs of blocks not submitted yet
  wait_cnt,    \* the counter its I/Os share
  done,        \* the completion's count
  flying,      \* I/Os in the raw device
  decrypt,     \* queued decrypt_work
  lost,        \* failed I/Os
  (* history, read by no action *)
  timeouts,    \* down_timeout calls that gave up
  errors,      \* failed I/Os so far
  arrived,     \* bios in the order target_map saw them
  early        \* reads whose completion fired before the last submission

queue == <<deferred, pending, worker, list>>
ios == <<wait_cnt, done, flying, decrypt, lost>>
history == <<timeouts, errors, arrived, early>>
vars == <<queue, max_reader, kind, pc, todo, ios, history>>

BioPc == {"new", "queued", "submit", "wait", "up", "ended"}
Zero == [b \in Bios |-> 0]

Init ==
  /\ deferred = <<>>
  /\ pending = FALSE
  /\ worker = "idle"
  /\ list = <<>>
  /\ max_reader = MaxReader
  /\ kind = [b \in Bios |-> "read"]
  /\ pc = [b \in Bios |-> "new"]
  /\ todo = Zero /\ wait_cnt = Zero /\ done = Zero
  /\ flying = Zero /\ decrypt = Zero /\ lost = Zero
  /\ timeouts = 0
  /\ errors = 0
  /\ arrived = <<>>
  /\ early = {}

----------------------------------------------------------------------------
(* dm_jindisk_target_map and defer_bio: append, then schedule_work, which  *)
(* does nothing if the work is queued and queues it again if it runs.      *)
target_map(b) ==
  /\ pc[b] = "new"
  /\ \E k \in Kinds : kind' = [kind EXCEPT ![b] = k]
  /\ pc' = [pc EXCEPT ![b] = "queued"]
  /\ deferred' = Append(deferred, b)
  /\ pending' = TRUE
  /\ arrived' = Append(arrived, b)
  /\ UNCHANGED <<worker, list, max_reader, todo, ios, timeouts, errors, early>>

(* process_deferred_bios: the kernel clears the pending bit, then the      *)
(* worker takes the whole list and serves it in order.                     *)
WorkerStart ==
  /\ worker = "idle"
  /\ pending
  /\ pending' = FALSE
  /\ worker' = "take"
  /\ UNCHANGED <<deferred, list, max_reader, kind, pc, todo, ios, history>>

bio_list_take ==
  /\ worker = "take"
  /\ list' = deferred
  /\ deferred' = <<>>
  /\ worker' = IF deferred = <<>> THEN "idle" ELSE "run"
  /\ UNCHANGED <<pending, max_reader, kind, pc, todo, ios, history>>

(* Mutant: the pending bit is cleared when the worker ends, so that a bio  *)
(* deferred while it ran is forgotten.                                     *)
PopBio_LostWakeup ==
  /\ list' = Tail(list)
  /\ worker' = IF Len(list) = 1 THEN "idle" ELSE "run"
  /\ pending' = (pending /\ Len(list) # 1)
  /\ UNCHANGED deferred

PopBio ==
  /\ list' = Tail(list)
  /\ worker' = IF Len(list) = 1 THEN "idle" ELSE "run"
  /\ UNCHANGED <<deferred, pending>>

(* Mutant: the write is handed to a thread, as async_write would.          *)
do_write_Async ==
  /\ worker = "run"
  /\ kind[Head(list)] = "write"
  /\ pc' = [pc EXCEPT ![Head(list)] = "up"]
  /\ PopBio
  /\ UNCHANGED <<max_reader, kind, todo, ios, history>>

(* do_write runs in the worker and ends the bio.                           *)
do_write ==
  /\ worker = "run"
  /\ kind[Head(list)] = "write"
  /\ pc' = [pc EXCEPT ![Head(list)] = "ended"]
  /\ PopBio
  /\ UNCHANGED <<max_reader, kind, todo, ios, history>>

(* Mutant: the semaphore is taken once more on a timeout.                  *)
StartRead_DownAgain ==
  /\ worker = "run"
  /\ kind[Head(list)] = "read"
  /\ max_reader' = max_reader - 1
  /\ timeouts' = IF max_reader = 0 THEN timeouts + 1 ELSE timeouts
  /\ pc' = [pc EXCEPT ![Head(list)] = "submit"]
  /\ \E n \in 0 .. MaxRange : todo' = [todo EXCEPT ![Head(list)] = n]
  /\ PopBio
  /\ UNCHANGED <<kind, ios, errors, arrived, early>>

(* down_timeout, whose result is ignored: after 300 ms the reader is       *)
(* started without the semaphore.  range_search and query_block decide     *)
(* how many runs of blocks are left to read from the device.               *)
StartRead ==
  /\ worker = "run"
  /\ kind[Head(list)] = "read"
  /\ \/ /\ max_reader > 0
        /\ max_reader' = max_reader - 1
        /\ UNCHANGED timeouts
     \/ /\ max_reader = 0
        /\ timeouts' = timeouts + 1
        /\ UNCHANGED max_reader
  /\ pc' = [pc EXCEPT ![Head(list)] = "submit"]
  /\ \E n \in 0 .. MaxRange : todo' = [todo EXCEPT ![Head(list)] = n]
  /\ PopBio
  /\ UNCHANGED <<kind, ios, errors, arrived, early>>

----------------------------------------------------------------------------
(* jindisk_do_read, after the blocks found in the buffers.                 *)

(* merge_read_io: count the I/O and submit it.                             *)
merge_read_io(b) ==
  /\ pc[b] = "submit"
  /\ todo[b] > 0
  /\ todo' = [todo EXCEPT ![b] = @ - 1]
  /\ wait_cnt' = [wait_cnt EXCEPT ![b] = @ + 1]
  /\ flying' = [flying EXCEPT ![b] = @ + 1]
  /\ UNCHANGED <<queue, max_reader, kind, pc, done, decrypt, lost, history>>

(* read_iocb schedules the decryption, or on an error just returns.        *)
read_iocb(b) ==
  /\ flying[b] > 0
  /\ flying' = [flying EXCEPT ![b] = @ - 1]
  /\ \/ /\ decrypt' = [decrypt EXCEPT ![b] = @ + 1]
        /\ UNCHANGED <<lost, errors>>
     \/ /\ errors < MaxError
        /\ errors' = errors + 1
        /\ lost' = [lost EXCEPT ![b] = @ + 1]
        /\ UNCHANGED decrypt
  /\ UNCHANGED <<queue, max_reader, kind, pc, todo, wait_cnt, done, timeouts, arrived, early>>

(* decrypt_work: the last one out completes the read.                      *)
decrypt_work(b) ==
  LET last == wait_cnt[b] = 1
  IN /\ decrypt[b] > 0
     /\ decrypt' = [decrypt EXCEPT ![b] = @ - 1]
     /\ wait_cnt' = [wait_cnt EXCEPT ![b] = @ - 1]
     /\ done' = IF last THEN [done EXCEPT ![b] = @ + 1] ELSE done
     /\ early' = IF last /\ todo[b] > 0 THEN early \cup {b} ELSE early
     /\ UNCHANGED <<queue, max_reader, kind, pc, todo, flying, lost, timeouts, errors, arrived>>

(* Mutant: the bio ends as soon as its I/O is submitted.                   *)
ReadCheck_NoWait(b) ==
  /\ pc[b] = "submit"
  /\ todo[b] = 0
  /\ pc' = [pc EXCEPT ![b] = "up"]
  /\ UNCHANGED <<queue, max_reader, kind, todo, ios, history>>

(* All submitted: nothing outstanding ends the bio, else wait.             *)
ReadCheck(b) ==
  /\ pc[b] = "submit"
  /\ todo[b] = 0
  /\ pc' = [pc EXCEPT ![b] = IF wait_cnt[b] = 0 THEN "up" ELSE "wait"]
  /\ UNCHANGED <<queue, max_reader, kind, todo, ios, history>>

wait_for_completion(b) ==
  /\ pc[b] = "wait"
  /\ done[b] > 0
  /\ done' = [done EXCEPT ![b] = @ - 1]
  /\ pc' = [pc EXCEPT ![b] = "up"]
  /\ UNCHANGED <<queue, max_reader, kind, todo, wait_cnt, flying, decrypt, lost, history>>

(* Mutant: the reader ends without up.                                     *)
async_read_up_Missing(b) ==
  /\ pc[b] = "up"
  /\ pc' = [pc EXCEPT ![b] = "ended"]
  /\ UNCHANGED <<queue, max_reader, kind, todo, ios, history>>

(* async_read: the bio has ended; up, whether or not down succeeded.       *)
async_read_up(b) ==
  /\ pc[b] = "up"
  /\ max_reader' = max_reader + 1
  /\ pc' = [pc EXCEPT ![b] = "ended"]
  /\ UNCHANGED <<queue, kind, todo, ios, history>>

Worker == WorkerStart \/ bio_list_take \/ do_write \/ StartRead
Reader(b) == \/ merge_read_io(b) \/ ReadCheck(b) \/ wait_for_completion(b)
             \/ async_read_up(b)
Device(b) == read_iocb(b) \/ decrypt_work(b)

Next ==
  \/ \E b \in Bios : target_map(b) \/ Reader(b) \/ Device(b)
  \/ Worker

Spec == Init /\ [][Next]_vars

(* The kernel runs queued works and threads, and the raw device answers.   *)
Fairness ==
  /\ WF_vars(Worker)
  /\ \A b \in Bios : WF_vars(Reader(b)) /\ WF_vars(read_iocb(b)) /\ WF_vars(decrypt_work(b))
FairSpec == Spec /\ Fairness

----------------------------------------------------------------------------
(* Properties.                                                             *)

Ended(b) == pc[b] \in {"up", "ended"}
Active == {b \in Bios : pc[b] \in {"submit", "wait", "up"}}

(* The queue, the semaphore and each bio's counters have their C types.    *)
TypeOK ==
  /\ deferred \in Seq(Bios) /\ list \in Seq(Bios) /\ arrived \in Seq(Bios)
  /\ pending \in BOOLEAN
  /\ worker \in {"idle", "take", "run"}
  /\ max_reader \in Nat
  /\ kind \in [Bios -> Kinds] /\ pc \in [Bios -> BioPc]
  /\ todo \in [Bios -> Nat] /\ wait_cnt \in [Bios -> Nat] /\ done \in [Bios -> Nat]
  /\ flying \in [Bios -> Nat] /\ decrypt \in [Bios -> Nat] /\ lost \in [Bios -> Nat]
  /\ timeouts \in Nat
  /\ errors \in Nat
  /\ early \subseteq Bios

(* A read starts only after every write that arrived before it has been    *)
(* pushed: process_deferred_bios serves bios in order and writes inline.   *)
WritesFirst ==
  \A i, j \in 1 .. Len(arrived) :
    /\ i < j
    /\ kind[arrived[i]] = "write"
    /\ pc[arrived[j]] \notin {"new", "queued"}
    => pc[arrived[i]] = "ended"

(* A read has ended only when every run of its blocks is decrypted, unless *)
(* its completion fired while it was still submitting.                     *)
Complete(b) == todo[b] + flying[b] + decrypt[b] = 0
CompleteUnlessEarly ==
  \A b \in Bios \ early : kind[b] = "read" /\ Ended(b) => Complete(b)

(* Readers in flight and semaphore units add up to MAX_READER plus the     *)
(* number of timeouts: each one raises the limit for good.                 *)
ReadersCounted == max_reader + Cardinality(Active) = MaxReader + timeouts

(* Every deferred bio ends, whatever arrives while the worker runs, unless *)
(* one of its own I/Os failed.                                             *)
EveryBioEnds ==
  \A b \in Bios : pc[b] = "queued" ~> (Ended(b) \/ lost[b] > 0)

(* A read that has ended has its data, with no exception.                  *)
ReadComplete == \A b \in Bios : kind[b] = "read" /\ Ended(b) => Complete(b)

=============================================================================
