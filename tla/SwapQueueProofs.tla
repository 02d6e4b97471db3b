--------------------------- MODULE SwapQueueProofs ---------------------------
(***************************************************************************)
(* Proofs about SwapQueue for every queue size and every set of contents.  *)
(***************************************************************************)
EXTENDS SwapQueue, TLAPS

(* The inductive invariant. *)
Inv == TypeOK /\ Occupancy /\ Reservation /\ SizeIsLowerBound

(* It holds in the state the constructors leave. *)
LEMMA InitInv == Init => Inv
  BY SizeAssumption, SMTT(30)
  DEF Init, Inv, TypeOK, Occupancy, Reservation, SizeIsLowerBound, T, Slots,
      ReadPosition, WritePosition, Skip

(* Every step of Insert(), Remove(), Clear() and SizeAtLeast() keeps it.   *)
LEMMA StepInv == Inv /\ [Next]_vars => Inv'
<1> SUFFICES ASSUME Inv, [Next]_vars PROVE Inv'
  OBVIOUS
<1> USE SizeAssumption
<1> USE DEF Inv, TypeOK, Occupancy, Reservation, SizeIsLowerBound, T, Slots,
            ReadPosition, WritePosition, Skip, prodVars, consVars
<1>1. CASE InsertCall
  BY <1>1 DEF InsertCall
<1>2. CASE InsertLoad
  BY <1>2 DEF InsertLoad
<1>3. CASE InsertSwap
  BY <1>3 DEF InsertSwap
<1>4. CASE InsertAdd
  BY <1>4 DEF InsertAdd
<1>5. CASE InsertAdvance
  BY <1>5 DEF InsertAdvance, Next1
<1>6. CASE RemoveCall
  BY <1>6 DEF RemoveCall
<1>7. CASE RemoveLoad
  BY <1>7 DEF RemoveLoad
<1>8. CASE RemoveSwap
  BY <1>8 DEF RemoveSwap
<1>9. CASE RemoveSub
  BY <1>9 DEF RemoveSub
<1>10. CASE RemoveAdvance
  BY <1>10 DEF RemoveAdvance, Next1
<1>11. CASE ClearExchange
  BY <1>11 DEF ClearExchange
<1>12. CASE ClearSkip
  BY <1>12 DEF ClearSkip
<1>13. CASE SizeAtLeast
  BY <1>13 DEF SizeAtLeast
<1>14. CASE UNCHANGED vars
  BY <1>14 DEF vars
<1> QED
  BY <1>1, <1>2, <1>3, <1>4, <1>5, <1>6, <1>7, <1>8, <1>9, <1>10, <1>11,
     <1>12, <1>13, <1>14, ZenonT(30) DEF Next, InsertStep, RemoveStep

(* In every reachable state of a queue of any size the two indices are     *)
(* num_elements apart and the slots a thread works on are reserved for it. *)
THEOREM Invariance == Spec => []Inv
<1>1. Init => Inv
  BY InitInv
<1>2. Inv /\ [Next]_vars => Inv'
  BY StepInv
<1> QED
  BY <1>1, <1>2, PTL DEF Spec

(* NoSlotRace, by the position of the two indices. *)
LEMMA InvNoSlotRace == Inv => NoSlotRace
  BY SizeAssumption
  DEF Inv, TypeOK, Occupancy, Reservation, NoSlotRace, Slots, ReadPosition,
      WritePosition, Skip

(* Insert() and Remove() never swap the same slot at the same time, for    *)
(* any Size: the atomic counter is enough without a lock.                  *)
THEOREM SlotRaceFreedom == Spec => []NoSlotRace
  BY Invariance, InvNoSlotRace, PTL

(* The size that SizeAtLeast() last saw stays a lower bound until the      *)
(* consumer itself removes elements.                                       *)
THEOREM SizeBound == Spec => []SizeIsLowerBound
  BY Invariance, PTL DEF Inv

(* Whatever the two threads do, next_write_index is num_elements places    *)
(* after next_read_index, counting the elements on their way.              *)
THEOREM IndicesAgree == Spec => []Occupancy
  BY Invariance, PTL DEF Inv

-----------------------------------------------------------------------------
(* The refinement. *)

(* Contents is a sequence of num_elements elements. *)
LEMMA ContentsSeq ==
  Inv => /\ Contents \in Seq(T)
         /\ Len(Contents) = num_elements
         /\ DOMAIN Contents = 1 .. num_elements
         /\ Offered \in T
         /\ Received \in T
<1> SUFFICES ASSUME Inv
             PROVE  /\ Contents \in Seq(T)
                    /\ Len(Contents) = num_elements
                    /\ DOMAIN Contents = 1 .. num_elements
                    /\ Offered \in T
                    /\ Received \in T
  OBVIOUS
<1>1. \A k \in 1 .. num_elements : Skip(ReadPosition, k - 1) \in Slots
  BY SizeAssumption DEF Inv, TypeOK, ReadPosition, Skip, Slots
<1>2. \A k \in 1 .. num_elements : Contents[k] \in T
  BY <1>1 DEF Inv, TypeOK, Contents
<1>3. num_elements \in Nat
  BY SizeAssumption DEF Inv, TypeOK
<1>4. Offered \in T /\ Received \in T
  BY DEF Inv, TypeOK, Offered, Received
<1> QED
  BY <1>2, <1>3, <1>4 DEF Contents

(* The constructors leave an empty abstract queue. *)
LEMMA InitRefines == Init => Abstract!AInit
  BY SizeAssumption, SMTT(30)
  DEF Init, Abstract!AInit, Contents, T, Offered, Received

(* A step of either thread is a step of the abstract queue or a stutter.   *)
LEMMA StepRefines ==
  Inv /\ Inv' /\ [Next]_vars => [Abstract!ANext]_(Abstract!absVars)
<1> SUFFICES ASSUME Inv, Inv', [Next]_vars
             PROVE  [Abstract!ANext]_(Abstract!absVars)
  OBVIOUS
<1>a. /\ num_elements \in 0 .. Size
      /\ Size \in Nat \ {0}
      /\ Contents \in Seq(T)
      /\ Len(Contents) = num_elements
      /\ DOMAIN Contents = 1 .. num_elements
  BY ContentsSeq, SizeAssumption DEF Inv, TypeOK
<1>b. /\ Contents' \in Seq(T)
      /\ Len(Contents') = num_elements'
      /\ DOMAIN Contents' = 1 .. num_elements'
      /\ Offered' \in T
  <2>1. (Inv => /\ Contents \in Seq(T)
                /\ Len(Contents) = num_elements
                /\ DOMAIN Contents = 1 .. num_elements
                /\ Offered \in T
                /\ Received \in T)'
    BY ContentsSeq, PTL
  <2> QED
    BY <2>1
<1> USE DEF prodVars, consVars, Abstract!ANext, Abstract!absVars
<1>1. CASE InsertCall
  <2>1. Contents' = Contents /\ Received' = Received
    BY <1>1 DEF InsertCall, Contents, ReadPosition, Received
  <2> QED
    BY <1>1, <1>b, <2>1 DEF InsertCall, Inv, TypeOK, Abstract!Offer
<1>2. CASE InsertLoad
  <2>1. Contents' = Contents /\ Received' = Received /\ Offered' = Offered
    BY <1>2 DEF InsertLoad, Contents, ReadPosition, Received, Offered
  <2> QED
    BY <1>2, <1>a, <2>1 DEF InsertLoad, Inv, TypeOK, Abstract!Reject
<1>3. CASE InsertSwap
  <2>1. next_write_index = Skip(ReadPosition, num_elements)
    BY <1>3 DEF InsertSwap, Inv, Occupancy, WritePosition
  <2>2. \A k \in 1 .. num_elements :
          Skip(ReadPosition, k - 1) # next_write_index
    <3>1. num_elements \in Nat /\ num_elements < Size
      BY <1>3 DEF InsertSwap, Inv, TypeOK, Reservation
    <3>2. ReadPosition \in 0 .. Size - 1
      BY SizeAssumption, SMTT(30) DEF Inv, TypeOK, ReadPosition, Skip, Slots
    <3> QED
      BY <2>1, <3>1, <3>2, SizeAssumption DEF Skip
  <2>3. cpc = "sub" => next_read_index # next_write_index
    <3>1. num_elements \in Nat /\ num_elements < Size /\ dropped \in 0 .. Size
          /\ next_read_index \in 0 .. Size - 1
      BY <1>3 DEF InsertSwap, Inv, TypeOK, Reservation, Slots
    <3> QED
      BY <1>3, <2>1, <3>1, SizeAssumption
      DEF InsertSwap, Inv, TypeOK, Reservation, ReadPosition, Skip
  <2>4. ReadPosition' = ReadPosition
    BY <1>3 DEF InsertSwap, ReadPosition
  <2>5. Contents' = Contents
    BY <1>3, <2>2, <2>4 DEF InsertSwap, Contents, Inv, TypeOK
  <2>6. Received' = Received /\ Offered' = Offered
    BY <1>3, <2>3 DEF InsertSwap, Received, Offered, Inv, TypeOK
  <2> QED
    BY <1>3, <2>5, <2>6 DEF InsertSwap
<1>4. CASE InsertAdd
  <2>1. next_write_index = Skip(ReadPosition, num_elements)
    BY <1>4 DEF InsertAdd, Inv, Occupancy, WritePosition
  <2>2. ReadPosition' = ReadPosition /\ Received' = Received
    BY <1>4 DEF InsertAdd, ReadPosition, Received
  <2>3. Contents' = Append(Contents, Offered)
    <3>1. \A k \in 1 .. num_elements : Contents'[k] = Contents[k]
      BY <1>4, <1>a, <2>2 DEF InsertAdd, Contents
    <3>2. Contents'[num_elements + 1] = Offered
      BY <1>4, <1>a, <2>1, <2>2
      DEF InsertAdd, Contents, Offered, Inv, Reservation
    <3>3. num_elements' = num_elements + 1
      BY <1>4 DEF InsertAdd
    <3> QED
      BY <3>1, <3>2, <3>3, <1>a, <1>b
  <2>4. num_elements < Size
    BY <1>4 DEF InsertAdd, Inv, Reservation
  <2> QED
    BY <1>4, <1>a, <1>b, <2>2, <2>3, <2>4
    DEF InsertAdd, Inv, TypeOK, Abstract!Accept
<1>5. CASE InsertAdvance
  <2>1. Contents' = Contents /\ Received' = Received /\ Offered' = Offered
    BY <1>5 DEF InsertAdvance, Contents, ReadPosition, Received, Offered
  <2> QED
    BY <1>5, <2>1 DEF InsertAdvance
<1>6. CASE RemoveCall
  <2>1. Contents' = Contents /\ Received' = Received /\ Offered' = Offered
    BY <1>6 DEF RemoveCall, Contents, ReadPosition, Received, Offered
  <2> QED
    BY <1>6, <2>1 DEF RemoveCall, Inv, TypeOK, Abstract!Request
<1>7. CASE RemoveLoad
  <2>1. Contents' = Contents /\ Received' = Received /\ Offered' = Offered
    BY <1>7 DEF RemoveLoad, Contents, ReadPosition, Received, Offered
  <2>2. num_elements = 0 => Contents = <<>>
    BY <1>a
  <2> QED
    BY <1>7, <2>1, <2>2 DEF RemoveLoad, Inv, TypeOK, Abstract!Nothing
<1>8. CASE RemoveSwap
  <2>1. /\ ReadPosition = next_read_index
        /\ ReadPosition' = ReadPosition
    BY <1>8, SizeAssumption
    DEF RemoveSwap, ReadPosition, Inv, TypeOK, Skip, Slots
  <2>2. num_elements > 0
    BY <1>8 DEF RemoveSwap, Inv, Reservation
  <2>3. \A k \in 2 .. num_elements : Skip(ReadPosition, k - 1) # next_read_index
    BY <2>1, SizeAssumption, SMTT(30) DEF Inv, TypeOK, Skip, Slots
  <2>4. Skip(ReadPosition, 0) = next_read_index
    BY <2>1, SizeAssumption DEF Inv, TypeOK, Skip, Slots
  <2>5. Contents' = Contents
    <3>1. Contents'[1] = Contents[1]
      BY <1>8, <1>a, <1>b, <2>1, <2>2, <2>4 DEF RemoveSwap, Contents
    <3>2. \A k \in 2 .. num_elements : Contents'[k] = Contents[k]
      BY <1>8, <1>a, <1>b, <2>1, <2>2, <2>3
      DEF RemoveSwap, Contents, Inv, TypeOK
    <3> QED
      BY <1>8, <1>a, <1>b, <3>1, <3>2 DEF RemoveSwap
  <2>6. ppc = "add" => next_write_index # next_read_index
    BY <2>1, <2>2, SizeAssumption
    DEF Inv, TypeOK, Occupancy, WritePosition, Reservation, Skip, Slots
  <2>7. Received' = Received /\ Offered' = Offered
    BY <1>8, <2>6 DEF RemoveSwap, Received, Offered, Inv, TypeOK
  <2> QED
    BY <1>8, <2>5, <2>7 DEF RemoveSwap
<1>9. CASE RemoveSub
  <2>1. num_elements > 0
    BY <1>9 DEF RemoveSub, Inv, Reservation
  <2>2. num_elements' = num_elements - 1
    BY <1>9 DEF RemoveSub
  <2>3. Received' = Head(Contents) /\ Offered' = Offered
    BY <1>9, <1>a, <2>1 DEF RemoveSub, Received, Offered, Contents
  <2>4. \A k \in 1 .. num_elements - 1 :
          Skip(ReadPosition', k - 1) = Skip(ReadPosition, k)
    BY <1>9, SizeAssumption
    DEF RemoveSub, ReadPosition, Inv, TypeOK, Skip, Slots
  <2>5. \A k \in 1 .. num_elements - 1 : Contents'[k] = Contents[k + 1]
    BY <1>9, <1>a, <2>2, <2>4 DEF RemoveSub, Contents
  <2>6. Contents' = Tail(Contents)
    BY <1>a, <1>b, <2>1, <2>2, <2>5
  <2> QED
    BY <1>9, <1>a, <2>1, <2>3, <2>6
    DEF RemoveSub, Inv, TypeOK, Abstract!Take
<1>10. CASE RemoveAdvance
  <2>1. ReadPosition' = ReadPosition
    BY <1>10, SizeAssumption
    DEF RemoveAdvance, ReadPosition, Next1, Skip, Inv, TypeOK, Slots
  <2>2. Contents' = Contents /\ Received' = Received /\ Offered' = Offered
    BY <1>10, <2>1 DEF RemoveAdvance, Contents, Received, Offered
  <2> QED
    BY <1>10, <2>2 DEF RemoveAdvance
<1>11. CASE ClearExchange
  <2>1. Contents' = <<>>
    BY <1>11, <1>b DEF ClearExchange
  <2>2. Received' = Received /\ Offered' = Offered
    BY <1>11 DEF ClearExchange, Received, Offered
  <2> QED
    BY <1>11, <2>1, <2>2 DEF ClearExchange, Inv, TypeOK, Abstract!DropAll
<1>12. CASE ClearSkip
  <2>1. ReadPosition' = ReadPosition
    BY <1>12, SizeAssumption
    DEF ClearSkip, ReadPosition, Skip, Inv, TypeOK, Slots
  <2>2. Contents' = Contents /\ Received' = Received /\ Offered' = Offered
    BY <1>12, <2>1 DEF ClearSkip, Contents, Received, Offered
  <2> QED
    BY <1>12, <2>2 DEF ClearSkip
<1>13. CASE SizeAtLeast
  <2>1. Contents' = Contents /\ Received' = Received /\ Offered' = Offered
    BY <1>13 DEF SizeAtLeast, Contents, ReadPosition, Received, Offered
  <2> QED
    BY <1>13, <2>1 DEF SizeAtLeast
<1>14. CASE UNCHANGED vars
  <2>1. Contents' = Contents /\ Received' = Received /\ Offered' = Offered
    BY <1>14 DEF vars, Contents, ReadPosition, Received, Offered
  <2> QED
    BY <1>14, <2>1 DEF vars
<1> QED
  BY <1>1, <1>2, <1>3, <1>4, <1>5, <1>6, <1>7, <1>8, <1>9, <1>10, <1>11,
     <1>12, <1>13, <1>14 DEF Next, InsertStep, RemoveStep

(* SwapQueue is a first-in first-out queue of at most Size elements. *)
THEOREM Refinement == Spec => IsFifo
<1>1. Init => Abstract!AInit
  BY InitRefines
<1>2. Inv /\ Inv' /\ [Next]_vars => [Abstract!ANext]_(Abstract!absVars)
  BY StepRefines
<1> QED
  BY <1>1, <1>2, Invariance, PTL DEF Spec, IsFifo, Abstract!ASpec
=============================================================================
