-------------------------------- MODULE Ring --------------------------------
(***************************************************************************)
(* The circular buffer every node of the array is built from: one port of  *)
(* Buffer_in and Buffer_out (src/src/sim/Buffer/buffer.cpp).  A port keeps *)
(* `depth' entries, a head and a tail index and two flags, port_full and   *)
(* port_empty, which the code maintains separately from the valid bits of  *)
(* the entries: writers test the valid bit of the tail entry               *)
(* (canReceiveInput), back-pressure tests port_full, readers test the      *)
(* valid bit of the head entry (output, output_ack) or port_empty          *)
(* (isBufferNotEmpty).  The operators below work on a record so that the   *)
(* modules that own a buffer can update it inside one action.              *)
(*                                                                         *)
(* An entry whose valid bit is off is the value Free.  Resetting an entry  *)
(* clears all of its fields in the code, so an invalid entry carries no    *)
(* information and needs no fields of its own.                             *)
(***************************************************************************)
EXTENDS Naturals

CONSTANTS Depth,     \* number of entries of the port
          Token,     \* the values a valid entry may hold
          Free       \* an entry with valid = false

ASSUME DepthAssumption == Depth \in Nat \ {0}
ASSUME FreeAssumption  == Free \notin Token

Index == 0 .. (Depth - 1)

(* The type of one port: entity, head_ptr, tail_ptr, port_full, port_empty. *)
RingType == [slot  : [Index -> Token \cup {Free}],
             head  : Index,
             tail  : Index,
             full  : BOOLEAN,
             empty : BOOLEAN]

(* The state the constructors leave a port in.                              *)
EmptyRing == [slot  |-> [i \in Index |-> Free],
              head  |-> 0,
              tail  |-> 0,
              full  |-> FALSE,
              empty |-> TRUE]

(* The pointer increment of update_tail and update_head.                    *)
Succ(i) == IF i + 1 = Depth THEN 0 ELSE i + 1

(* canReceiveInput(port): the entry at the tail is free.                    *)
CanReceive(r) == r.slot[r.tail] = Free

(* isBufferNotFull(port) and isBufferNotEmpty(port): the flags, not the     *)
(* entries.                                                                 *)
NotFull(r)  == ~r.full
NotEmpty(r) == ~r.empty

(* The entry at the head, as output and output_ack read it.                 *)
Front(r) == r.slot[r.head]

(* Mutation: the tail is compared with the head before it moves.            *)
WriteFullEarly(r, tok) ==
  [slot |-> [r.slot EXCEPT ![r.tail] = tok], head |-> r.head, tail |-> Succ(r.tail),
   full |-> r.tail = r.head, empty |-> FALSE]

(* bufferInput followed by update_tail: the flag port_full is set exactly   *)
(* when the tail catches up with the head.                                  *)
Write(r, tok) ==
  [slot  |-> [r.slot EXCEPT ![r.tail] = tok],
   head  |-> r.head,
   tail  |-> Succ(r.tail),
   full  |-> Succ(r.tail) = r.head,
   empty |-> FALSE]

(* input(): a refused write leaves the buffer unchanged and the caller, in  *)
(* most places, does not look at the returned false.                        *)
Input(r, tok) == IF CanReceive(r) THEN Write(r, tok) ELSE r

(* Mutations: update_head forgets port_full; reset forgets the valid bit.   *)
ResetKeepsFull(r) ==
  IF Front(r) = Free
  THEN r
  ELSE [r EXCEPT !.slot[r.head] = Free, !.head = Succ(r.head),
                 !.empty = (Succ(r.head) = r.tail)]

ResetKeepsValid(r) ==
  IF r.empty
  THEN r
  ELSE [r EXCEPT !.head = Succ(r.head), !.full = FALSE,
                 !.empty = (Succ(r.head) = r.tail)]

(* reset(port): clears the head entry and moves the head past it.           *)
(* Buffer_in guards it with the valid bit; Buffer_out::reset has no guard   *)
(* of its own but is called only under the same test in output().           *)
Reset(r) ==
  IF Front(r) = Free
  THEN r
  ELSE [slot  |-> [r.slot EXCEPT ![r.head] = Free],
        head  |-> Succ(r.head),
        tail  |-> r.tail,
        full  |-> FALSE,
        empty |-> Succ(r.head) = r.tail]

(***************************************************************************)
(* What a well-formed port looks like.  Index i is occupied when it lies   *)
(* between the head and the tail, going round.                             *)
(***************************************************************************)
Occupied(r, i) ==
  \/ r.full
  \/ r.head < r.tail /\ r.head <= i /\ i < r.tail
  \/ r.tail < r.head /\ (r.head <= i \/ i < r.tail)

FlagsAgree(r) ==
  /\ r.full  => r.head = r.tail
  /\ r.empty <=> (r.head = r.tail /\ ~r.full)

ValidBitsAgree(r) == \A i \in Index : r.slot[i] # Free <=> Occupied(r, i)

(* The entries from the head to the tail, oldest first: what a reader that  *)
(* keeps calling output() would get.                                        *)
Count(r) ==
  IF r.full THEN Depth
  ELSE IF r.head <= r.tail THEN r.tail - r.head ELSE r.tail + Depth - r.head

Nth(r, k) == IF r.head + k - 1 < Depth THEN r.head + k - 1 ELSE r.head + k - 1 - Depth

Content(r) == [k \in 1 .. Count(r) |-> r.slot[Nth(r, k)]]

RingOK(r) == r \in RingType /\ FlagsAgree(r) /\ ValidBitsAgree(r)

(* A port with at most one token: its front says everything.                *)
AtMostOne(r) == RingOK(r) /\ Count(r) <= 1
=============================================================================
