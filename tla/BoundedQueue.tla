---------------------------- MODULE BoundedQueue ----------------------------
(***************************************************************************)
(* What rtc_base/swap_queue.h promises its two users (class comment, lines *)
(* 44-54): a first-in first-out queue of at most Size elements.  Each call *)
(* takes effect at one instant between its start and its return.           *)
(***************************************************************************)
EXTENDS Integers, Sequences

CONSTANTS Size,    \* queue_.size()
          T        \* the contents an element can have

VARIABLES q,       \* the elements, oldest first
          in,      \* *input, as the producer sees it
          out,     \* *output, as the consumer sees it
          pres,    \* "none", "pending" or the result of the last Insert()
          cres     \* the same for the last Remove(); Clear() leaves "none"

absVars == <<q, in, out, pres, cres>>

AInit == q = <<>> /\ in \in T /\ out \in T /\ pres = "none" /\ cres = "none"

(* The producer fills *input and calls Insert(). *)
Offer == /\ pres # "pending"
         /\ pres' = "pending"
         /\ in' \in T
         /\ UNCHANGED <<q, out, cres>>

(* Insert() returns true: the producer gets some other T back. *)
Accept == /\ pres = "pending"
          /\ Len(q) < Size
          /\ q' = Append(q, in)
          /\ pres' = "true"
          /\ in' \in T
          /\ UNCHANGED <<out, cres>>

(* Insert() returns false, which it may do only when the queue is full. *)
Reject == /\ pres = "pending"
          /\ Len(q) = Size
          /\ pres' = "false"
          /\ UNCHANGED <<q, in, out, cres>>

(* The consumer calls Remove(). *)
Request == /\ cres # "pending"
           /\ cres' = "pending"
           /\ UNCHANGED <<q, in, out, pres>>

(* Remove() returns true with the oldest element. *)
Take == /\ cres = "pending"
        /\ q # <<>>
        /\ out' = Head(q)
        /\ q' = Tail(q)
        /\ cres' = "true"
        /\ UNCHANGED <<in, pres>>

(* Remove() returns false, which it may do only when the queue is empty. *)
Nothing == /\ cres = "pending"
           /\ q = <<>>
           /\ cres' = "false"
           /\ UNCHANGED <<q, in, out, pres>>

(* Clear() drops every element at once. *)
DropAll == /\ cres # "pending"
           /\ q' = <<>>
           /\ cres' = "none"
           /\ UNCHANGED <<in, out, pres>>

ANext == Offer \/ Accept \/ Reject \/ Request \/ Take \/ Nothing \/ DropAll

ASpec == AInit /\ [][ANext]_absVars
=============================================================================
