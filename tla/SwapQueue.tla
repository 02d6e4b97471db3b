------------------------------ MODULE SwapQueue ------------------------------
(***************************************************************************)
(* rtc_base/swap_queue.h: the lock-free single-producer single-consumer    *)
(* queue through which the render thread hands audio, and the application  *)
(* hands runtime settings, to the capture thread.                          *)
(*                                                                         *)
(* The producer and the consumer are two threads; each access to the       *)
(* atomic num_elements_ and each std::swap of a slot is one step.  The     *)
(* acquire/release orders of the code make these steps sequentially        *)
(* consistent for the slots, which is what the interleavings assume.       *)
(***************************************************************************)
EXTENDS Integers, Sequences

CONSTANTS Size,     \* queue_.size()
          Values,   \* contents the producer fills elements with
          Proto     \* contents of a freshly constructed element

ASSUME SizeAssumption == Size \in Nat \ {0}

VARIABLES queue,             \* queue_
          num_elements,      \* num_elements_
          next_write_index,  \* next_write_index_, producer only
          next_read_index,   \* next_read_index_, consumer only
          input,             \* the producer's T, *input
          output,            \* the consumer's T, *output
          ppc,               \* where the producer is in Insert()
          cpc,               \* where the consumer is in Remove() or Clear()
          dropped,           \* what Clear()'s exchange returned
          known,             \* elements SizeAtLeast() promised the consumer
          pres,              \* result of Insert(), as BoundedQueue records it
          cres               \* result of Remove()

vars == <<queue, num_elements, next_write_index, next_read_index, input,
          output, ppc, cpc, dropped, known, pres, cres>>
prodVars == <<next_write_index, input, ppc, pres>>
consVars == <<next_read_index, output, cpc, dropped, known, cres>>

T == Values \cup {Proto}
Slots == 0 .. Size - 1

(* ++index, and back to 0 at queue_.size(). *)
Next1(i) == IF i + 1 = Size THEN 0 ELSE i + 1

(* index += k, and one subtraction of queue_.size() if that went past the  *)
(* end: what Clear() does to next_read_index_.                             *)
Skip(i, k) == IF i + k >= Size THEN i + k - Size ELSE i + k

Init == /\ queue = [s \in Slots |-> Proto]
        /\ num_elements = 0
        /\ next_write_index = 0
        /\ next_read_index = 0
        /\ input = Proto
        /\ output = Proto
        /\ ppc = "idle"
        /\ cpc = "idle"
        /\ dropped = 0
        /\ known = 0
        /\ pres = "none"
        /\ cres = "none"

-----------------------------------------------------------------------------
(* Insert() *)

(* The producer fills its T and calls Insert(). *)
InsertCall == /\ ppc = "idle"
              /\ input' \in Values
              /\ ppc' = "load"
              /\ pres' = "pending"
              /\ UNCHANGED <<queue, num_elements, next_write_index, consVars>>

(* The acquire load: a full queue ends the call. *)
InsertLoad == /\ ppc = "load"
              /\ IF num_elements = Size
                   THEN ppc' = "idle" /\ pres' = "false"
                   ELSE ppc' = "swap" /\ UNCHANGED pres
              /\ UNCHANGED <<queue, num_elements, next_write_index, input,
                             consVars>>

(* Takes the old element out and does not put the new one in. *)
Mut_InsertSwap == /\ ppc = "swap"
                  /\ UNCHANGED queue
                  /\ input' = queue[next_write_index]
                  /\ ppc' = "add"
                  /\ UNCHANGED <<num_elements, next_write_index, pres, consVars>>

(* std::swap of *input with queue_[next_write_index_]. *)
InsertSwap == /\ ppc = "swap"
              /\ queue' = [queue EXCEPT ![next_write_index] = input]
              /\ input' = queue[next_write_index]
              /\ ppc' = "add"
              /\ UNCHANGED <<num_elements, next_write_index, pres, consVars>>

(* The fetch_add that publishes the element. *)
InsertAdd == /\ ppc = "add"
             /\ num_elements' = num_elements + 1
             /\ ppc' = "advance"
             /\ pres' = "true"
             /\ UNCHANGED <<queue, next_write_index, input, consVars>>

InsertAdvance == /\ ppc = "advance"
                 /\ next_write_index' = Next1(next_write_index)
                 /\ ppc' = "idle"
                 /\ UNCHANGED <<queue, num_elements, input, pres, consVars>>

-----------------------------------------------------------------------------
(* Remove() *)

RemoveCall == /\ cpc = "idle"
              /\ cpc' = "load"
              /\ cres' = "pending"
              /\ UNCHANGED <<queue, num_elements, next_read_index, output,
                             dropped, known, prodVars>>

(* Takes a full ring for an empty one, as equal indices would. *)
Mut_RemoveLoadFull == /\ cpc = "load"
                      /\ IF num_elements % Size = 0
                           THEN cpc' = "idle" /\ cres' = "false"
                           ELSE cpc' = "swap" /\ UNCHANGED cres
                      /\ UNCHANGED <<queue, num_elements, next_read_index,
                                     output, dropped, known, prodVars>>
(* Does not test for an empty queue. *)
Mut_RemoveLoadUnchecked == /\ cpc = "load"
                           /\ cpc' = "swap"
                           /\ UNCHANGED <<queue, num_elements, next_read_index,
                                          output, dropped, known, cres,
                                          prodVars>>

(* The acquire load: an empty queue ends the call. *)
RemoveLoad == /\ cpc = "load"
              /\ IF num_elements = 0
                   THEN cpc' = "idle" /\ cres' = "false"
                   ELSE cpc' = "swap" /\ UNCHANGED cres
              /\ UNCHANGED <<queue, num_elements, next_read_index, output,
                             dropped, known, prodVars>>

(* std::swap of *output with queue_[next_read_index_]. *)
RemoveSwap == /\ cpc = "swap"
              /\ queue' = [queue EXCEPT ![next_read_index] = output]
              /\ output' = queue[next_read_index]
              /\ cpc' = "sub"
              /\ UNCHANGED <<num_elements, next_read_index, dropped, known,
                             cres, prodVars>>

(* The fetch_sub that gives the slot back to the producer. *)
RemoveSub == /\ cpc = "sub"
             /\ num_elements' = num_elements - 1
             /\ known' = IF known = 0 THEN 0 ELSE known - 1
             /\ cpc' = "advance"
             /\ cres' = "true"
             /\ UNCHANGED <<queue, next_read_index, output, dropped, prodVars>>

RemoveAdvance == /\ cpc = "advance"
                 /\ next_read_index' = Next1(next_read_index)
                 /\ cpc' = "idle"
                 /\ UNCHANGED <<queue, num_elements, output, dropped, known,
                                cres, prodVars>>

-----------------------------------------------------------------------------
(* Clear() and SizeAtLeast() *)

(* The exchange that drops every published element. *)
ClearExchange == /\ cpc = "idle"
                 /\ dropped' = num_elements
                 /\ num_elements' = 0
                 /\ known' = 0
                 /\ cpc' = "skip"
                 /\ cres' = "none"
                 /\ UNCHANGED <<queue, next_read_index, output, prodVars>>

ClearSkip == /\ cpc = "skip"
             /\ next_read_index' = Skip(next_read_index, dropped)
             /\ dropped' = 0
             /\ cpc' = "idle"
             /\ UNCHANGED <<queue, num_elements, output, known, cres, prodVars>>

(* Counts the element that Insert() has not published yet. *)
Mut_SizeAtLeast == /\ cpc = "idle"
                   /\ known' = num_elements + IF ppc = "add" THEN 1 ELSE 0
                   /\ UNCHANGED <<queue, num_elements, next_read_index, output,
                                  cpc, dropped, cres, prodVars>>

(* known is what the consumer may rely on from then on. *)
SizeAtLeast == /\ cpc = "idle"
               /\ known' = num_elements
               /\ UNCHANGED <<queue, num_elements, next_read_index, output,
                              cpc, dropped, cres, prodVars>>

-----------------------------------------------------------------------------
InsertStep == InsertLoad \/ InsertSwap \/ InsertAdd \/ InsertAdvance
RemoveStep == RemoveLoad \/ RemoveSwap \/ RemoveSub \/ RemoveAdvance

Next == \/ InsertCall \/ InsertStep
        \/ RemoveCall \/ RemoveStep
        \/ ClearExchange \/ ClearSkip \/ SizeAtLeast

(* A thread inside a call keeps running, and the consumer keeps polling:   *)
(* every ProcessStream() call empties the queues it owns.  Nothing makes   *)
(* the producer call Insert().                                             *)
Fairness == /\ WF_vars(InsertStep)
            /\ WF_vars(RemoveCall)
            /\ WF_vars(RemoveStep)
            /\ WF_vars(ClearSkip)

Spec == Init /\ [][Next]_vars
FairSpec == Spec /\ Fairness

-----------------------------------------------------------------------------
(* Where the next element will be read from and written to, seen from the  *)
(* atomic counter: a thread between its atomic step and its index update   *)
(* has an index that lags behind.                                          *)
ReadPosition == IF cpc = "advance" THEN Skip(next_read_index, 1)
                                   ELSE Skip(next_read_index, dropped)
WritePosition == IF ppc = "advance" THEN Skip(next_write_index, 1)
                                    ELSE next_write_index

TypeOK == /\ queue \in [Slots -> T]
          /\ num_elements \in 0 .. Size
          /\ next_write_index \in Slots
          /\ next_read_index \in Slots
          /\ input \in T
          /\ output \in T
          /\ ppc \in {"idle", "load", "swap", "add", "advance"}
          /\ cpc \in {"idle", "load", "swap", "sub", "advance", "skip"}
          /\ dropped \in 0 .. Size
          /\ cpc # "skip" => dropped = 0
          /\ known \in 0 .. Size
          /\ pres \in {"none", "pending", "true", "false"}
          /\ cres \in {"none", "pending", "true", "false"}
          /\ (pres = "pending") <=> ppc \in {"load", "swap", "add"}
          /\ (cres = "pending") <=> cpc \in {"load", "swap", "sub"}

(* The two private indices and the shared counter always describe the same *)
(* segment of the ring, whatever the two threads are in the middle of      *)
(* (lines 115-119, 150-156, 190-196).                                      *)
Occupancy == WritePosition = Skip(ReadPosition, num_elements)

(* A thread past its load still has the slot or the element that the load  *)
(* promised it, although the other thread moved the counter since: the     *)
(* DCHECK of line 159 and the comments of lines 135-138 and 175-178.       *)
Reservation == /\ ppc \in {"swap", "add"} => num_elements < Size
               /\ cpc \in {"swap", "sub"} => num_elements > 0

(* The two std::swap calls never work on the same slot at the same time    *)
(* (lines 144 and 184).                                                    *)
NoSlotRace == ~ (/\ ppc = "swap"
                 /\ cpc = "swap"
                 /\ next_write_index = next_read_index)

(* SizeAtLeast() is a lower bound (lines 203-206): what it promised is     *)
(* still there, minus what the consumer itself removed or cleared.         *)
SizeIsLowerBound == known <= num_elements

(* The elements the queue holds, oldest first.  Between the swap and the   *)
(* fetch_sub of Remove() the oldest one is already in *output.             *)
Contents ==
  [k \in 1 .. num_elements |->
     IF k = 1 /\ cpc = "sub" THEN output
                             ELSE queue[Skip(ReadPosition, k - 1)]]

(* What a caller can tell of its own T: a swap whose atomic step is still  *)
(* to come has not happened for the abstract queue.                        *)
Offered == IF ppc = "add" THEN queue[next_write_index] ELSE input
Received == IF cpc = "sub" THEN queue[next_read_index] ELSE output

(* SwapQueue implements BoundedQueue: first in first out, refusals only    *)
(* when full or empty, each call taking effect at its atomic step.         *)
Abstract == INSTANCE BoundedQueue WITH
              q <- Contents, in <- Offered, out <- Received
IsFifo == Abstract!ASpec

(* A full queue is drained by a consumer that keeps polling.               *)
Drains == (num_elements = Size) ~> (num_elements < Size)
=============================================================================
