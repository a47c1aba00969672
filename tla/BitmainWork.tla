---------------------------- MODULE BitmainWork ----------------------------
(***************************************************************************)
(* The five Bitmain drivers as the mining tasks use them once the chain    *)
(* runs: how a job gets its number and its slot, and how a result finds    *)
(* its way back to the job it was hashed for.                              *)
(*                                                                         *)
(* A chip echoes the job number of the packet in one byte of its answer,   *)
(* mixed with a core or a midstate index, and each family mixes them in    *)
(* its own way.  Each driver numbers jobs with its own stride modulo 128,  *)
(* so that a number comes back after 16 or 32 jobs.                        *)
(***************************************************************************)
EXTENDS Integers

CONSTANTS
    Families,       \* the chips of this instance, of 1397 .. 1373
    MaxJobs,        \* bound: jobs sent in a behaviour
    Cores,          \* the core indices an answer may carry
    Nonces          \* the nonces an answer may carry

VARIABLES
    family,         \* the driver DRIVERS selects for this board
    mask,           \* does the pool grant version rolling
    id,             \* number of the last job, static uint8_t id
    jobs,           \* number of jobs sent; the n-th job is called n
    slots,          \* asic_job_store: number -> job last stored under it
    chip,           \* number -> job the chips hash under it, or did last
    prev_nonce,     \* BM1397 only: the last nonce it reported
    result          \* the answer processed last, with what was hashed

vars == <<family, mask, id, jobs, slots, chip, prev_nonce, result>>

NoJob == 0
Ids == 0..127

----------------------------------------------------------------------------
(* Sending work                                                            *)

\* Each driver's next job number.
BM1397_send_work(n) == (n + 4) % 128
BM1366_send_work(n) == (n + 8) % 128
BM1368_send_work(n) == (n + 24) % 128
BM1370_send_work(n) == (n + 24) % 128
BM1373_send_work(n) == (n + 24) % 128

NextId(f, n) == CASE f = 1397 -> BM1397_send_work(n)
                  [] f = 1366 -> BM1366_send_work(n)
                  [] f = 1368 -> BM1368_send_work(n)
                  [] f = 1370 -> BM1370_send_work(n)
                  [] f = 1373 -> BM1373_send_work(n)

\* The versions of a packet, as the number of increments from the job's
\* version: the BM1397 hashes four midstates, one when nothing may be rolled.
bm1397_build_job_packet(rolling) == IF rolling THEN 0..3 ELSE {0}

\* The later chips get the header and roll the version themselves.
bm13xx_build_job_packet == {0}

Versions(f, rolling) == IF f = 1397 THEN bm1397_build_job_packet(rolling)
                                    ELSE bm13xx_build_job_packet

\* The driver's send_job: a number, its slot in the store, and the packet.
SendWork ==
    /\ jobs < MaxJobs
    /\ jobs' = jobs + 1
    /\ id' = NextId(family, id)
    /\ slots' = [slots EXCEPT ![id'] = jobs']
    /\ chip' = [chip EXCEPT ![id'] = jobs']
    /\ UNCHANGED <<family, mask, prev_nonce, result>>

----------------------------------------------------------------------------
(* Results                                                                 *)

\* External: the id byte a chip sends for the job numbered n, found by this
\* core on this version of the packet.
Echo(f, n, core, version) ==
    CASE f = 1397 -> n + version
      [] f = 1366 -> n + (core % 8)
      [] OTHER    -> 2 * n + (core % 16)

\* x & mask for a mask that clears the bits below k.
HighBits(x, k) == x - (x % k)

\* Mutant: the number is not shifted back into its place.
BM1368_process_work_unshifted(field) == HighBits(field, 16)

\* Each driver's reading of the id byte.
BM1397_process_work(field) == HighBits(field, 4)
BM1366_process_work(field) == HighBits(field, 8)
BM1368_process_work(field) == HighBits(field, 16) \div 2
BM1370_process_work(field) == HighBits(field, 16) \div 2
BM1373_process_work(field) == HighBits(field, 16) \div 2

\* The job number a driver reads, and the version it takes the job to have.
Decode(f, field) == CASE f = 1397 -> BM1397_process_work(field)
                      [] f = 1366 -> BM1366_process_work(field)
                      [] f = 1368 -> BM1368_process_work(field)
                      [] f = 1370 -> BM1370_process_work(field)
                      [] f = 1373 -> BM1373_process_work(field)

RolledVersion(f, field) == IF f = 1397 THEN field % 4 ELSE 0

\* The BM1397 drops a nonce equal to the one before it, whatever its job.
Repeated(f, nonce) == f = 1397 /\ nonce = prev_nonce

\* The share event: the job as it stands in the slot, and its version.
bm_result_to_event(f, field, hashed, version) ==
    [job |-> slots[Decode(f, field)], hashed |-> hashed,
     version |-> RolledVersion(f, field), rolled |-> version]

\* process_work of the driver, on the answer of some chip of the chain.  A
\* chip may answer for a job until another is sent under the same number.
ProcessWork ==
    \E n \in {m \in Ids : chip[m] # NoJob}, core \in Cores,
       version \in Versions(family, mask), nonce \in Nonces :
        LET field == Echo(family, n, core, version)
            found == Decode(family, field)
        IN
        /\ found \in Ids
        /\ slots[found] # NoJob
        /\ ~Repeated(family, nonce)
        /\ prev_nonce' = IF family = 1397 THEN nonce ELSE prev_nonce
        /\ result' = bm_result_to_event(family, field, chip[n], version)
        /\ UNCHANGED <<family, mask, id, jobs, slots, chip>>

----------------------------------------------------------------------------
Init ==
    /\ family \in Families
    /\ mask \in BOOLEAN
    /\ id = 0 /\ jobs = 0
    /\ slots = [n \in Ids |-> NoJob]
    /\ chip = [n \in Ids |-> NoJob]
    /\ prev_nonce = 0
    /\ result = [job |-> NoJob, hashed |-> NoJob, version |-> 0, rolled |-> 0]

Next == SendWork \/ ProcessWork

Spec == Init /\ [][Next]_vars

----------------------------------------------------------------------------
(* A result is credited to the job and the header version the chip really  *)
(* hashed, for every job whose number has not come round again: stride,    *)
(* bit packing and midstate count of a driver agree with each other.       *)
RightJob == result.job = result.hashed /\ result.version = result.rolled
============================================================================
