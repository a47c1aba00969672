------------------------------ MODULE JobStore ------------------------------
(***************************************************************************)
(* The ASIC job store (components/asic/asic_job_store.c): a ring of         *)
(* Capacity entries that keeps the template of every job handed to an      *)
(* engine until a result comes back for it.  A job is looked up by its     *)
(* handle, which packs the store generation it was issued in and the slot  *)
(* it was put in, so an overwritten slot can never answer for an older      *)
(* handle.                                                                 *)
(*                                                                         *)
(* The store is a record; every function of the C module that is called    *)
(* on the generated-handle path is an operator from store to store.  The    *)
(* store's own mutex makes each of them atomic.                            *)
(***************************************************************************)
EXTENDS Naturals

CONSTANT Capacity        \* ASIC_JOB_STORE_CAPACITY (256 in the firmware)

ASSUME CapacityAssumption == Capacity \in Nat \ {0}

Slots == 0 .. Capacity - 1

NoEntry == [valid |-> FALSE]

\* asic_work_handle_t: (generation << 8) | slot.
Handle(generation, slot) == [generation |-> generation, slot |-> slot]

\* The C counter next_slot is 16 bits wide and only its residue modulo the
\* capacity is ever read; 2^16 is a multiple of 256, so the residue is kept.
InitStore == [entries        |-> [s \in Slots |-> NoEntry],
              nextSlot       |-> 0,
              nextGeneration |-> 1]

NextHandle(st) == Handle(st.nextGeneration, st.nextSlot)

\* Mutant: the slot cursor does not advance.
StoreGeneratedInPlace(st, job) ==
    [st EXCEPT !.entries[st.nextSlot] =
                   [valid |-> TRUE, handle |-> NextHandle(st), job |-> job],
               !.nextGeneration = @ + 1]

\* asic_job_store_store_generated: the slot under the cursor is overwritten
\* whatever it holds.
StoreGenerated(st, job) ==
    [entries        |-> [st.entries EXCEPT ![st.nextSlot] =
                            [valid |-> TRUE, handle |-> NextHandle(st), job |-> job]],
     nextSlot       |-> (st.nextSlot + 1) % Capacity,
     nextGeneration |-> st.nextGeneration + 1]

\* asic_job_store_contains, and the lookup of asic_job_store_snapshot.
Contains(st, h) == /\ st.entries[h.slot].valid
                   /\ st.entries[h.slot].handle = h

Snapshot(st, h) == st.entries[h.slot].job

\* asic_job_store_release: only the entry that still carries this handle.
Release(st, h) ==
    IF Contains(st, h) THEN [st EXCEPT !.entries[h.slot] = NoEntry] ELSE st

\* asic_job_store_invalidate_all: the slot cursor restarts, the generation
\* never does.
InvalidateAll(st) == [entries        |-> [s \in Slots |-> NoEntry],
                      nextSlot       |-> 0,
                      nextGeneration |-> st.nextGeneration + 1]
=============================================================================
