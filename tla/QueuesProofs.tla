----------------------------- MODULE QueuesProofs -----------------------------
(***************************************************************************)
(* The users of SwapQueue, for queues of every size and any number of      *)
(* calls: the statistics of the capture thread (StatsReporter).            *)
(*                                                                         *)
(* Statistics are as recent as the call that asks for them, for any number *)
(* of monitors and frames, when the capture thread asks after each frame   *)
(* (ProcessAudioFrame()).                                                  *)
(* MostRecent is not inductive.  UpdateStatistics() throws the statistics  *)
(* away when the queue is full, so what is needed is that the queue is     *)
(* empty whenever the capture thread reports: its own GetStatistics() or a *)
(* monitor's has emptied it since the frame before (Emptied).  Then the    *)
(* latest statistics are in the queue, or else in the cache (LatestKept),  *)
(* and a thread past Remove() has a cache that is recent enough, which     *)
(* stays as it is while the thread holds crit_stats_ (CacheRecent).        *)
(***************************************************************************)
EXTENDS SwapQueueUsers, FiniteSetTheorems, TLAPS

Emptied == stats_pc["capture"] \in {"idle", "return"} => slot = 0

LatestKept == IF slot = 0 THEN cached = reported ELSE slot = reported

CacheRecent == \A t \in S!Threads : stats_pc[t] = "return" => cached >= floor[t]

StatsInv == S!TypeOK /\ Emptied /\ LatestKept /\ CacheRecent /\ S!MostRecent

-----------------------------------------------------------------------------
(* Init of ApmStatsReporter: nothing reported, nothing cached.              *)
LEMMA StatsInit == S!StatsAssumption /\ S!Init => StatsInv
  BY DEF S!StatsAssumption, S!Init, StatsInv, S!TypeOK, Emptied, LatestKept, CacheRecent,
         S!MostRecent, S!Threads

(* A frame of the capture thread: either it fails before its statistics are *)
(* reported, or they go into the empty queue.                               *)
LEMMA StatsProcessStream ==
  ASSUME S!StatsAssumption, Proxy, StatsInv, S!ProcessStream
  PROVE  StatsInv'
<1> USE DEF StatsInv, S!Threads
<1>1. /\ slot = 0 /\ cached = reported
      /\ stats_pc["capture"] = "idle"
      /\ crit_stats # "capture"
  BY DEF S!ProcessStream, Emptied, LatestKept, S!TypeOK
<1>2. /\ frame' = frame + 1
      /\ \/ reported' = frame + 1 /\ slot' = frame + 1
         \/ reported' = reported /\ slot' = 0
      /\ stats_pc' = [stats_pc EXCEPT !["capture"] = "lock"]
      /\ floor' = [floor EXCEPT !["capture"] = reported']
      /\ UNCHANGED <<cached, crit_stats, got>>
      /\ frame < MaxFrames
  BY <1>1 DEF S!ProcessStream, S!UpdateStatistics, S!Goto
<1>3. frame \in Nat /\ reported \in 0 .. frame /\ MaxFrames \in Nat
  BY DEF S!TypeOK, S!StatsAssumption
<1>4. frame' \in 0 .. MaxFrames /\ reported' \in 0 .. frame' /\ reported <= reported'
  BY <1>2, <1>3
<1>5. S!TypeOK'
  <2>1. slot' \in 0 .. reported' /\ cached' \in 0 .. reported'
    BY <1>1, <1>2, <1>3, <1>4
  <2>2. /\ floor' \in [S!Threads -> 0 .. reported']
        /\ got' \in [S!Threads -> 0 .. reported']
    BY <1>2, <1>3, <1>4 DEF S!TypeOK
  <2>3. /\ stats_pc' \in [S!Threads -> {"idle", "lock", "remove", "return"}]
        /\ crit_stats' \in S!Threads \cup {"free"}
        /\ \A t \in S!Threads : stats_pc'[t] \in {"remove", "return"} <=> crit_stats' = t
    BY <1>1, <1>2 DEF S!TypeOK
  <2> QED
    BY <1>4, <2>1, <2>2, <2>3 DEF S!TypeOK
<1>6. Emptied'
  BY <1>2 DEF Emptied, S!TypeOK
<1>7. LatestKept'
  BY <1>1, <1>2, <1>3 DEF LatestKept
<1>8. CacheRecent'
  BY <1>2 DEF CacheRecent, S!TypeOK
<1>9. S!MostRecent'
  BY <1>2 DEF S!MostRecent, S!TypeOK
<1> QED
  BY <1>5, <1>6, <1>7, <1>8, <1>9

(* GetStatistics() up to the lock. *)
LEMMA StatsLock ==
  ASSUME S!StatsAssumption, StatsInv, NEW t \in S!Threads, S!GetStatistics(t) \/ S!Lock(t)
  PROVE  StatsInv'
<1> USE DEF StatsInv, S!Threads, S!Goto
<1>1. CASE S!GetStatistics(t)
  <2>1. S!TypeOK'
    BY <1>1 DEF S!GetStatistics, S!TypeOK
  <2>2. Emptied' /\ LatestKept'
    BY <1>1 DEF S!GetStatistics, S!StatsAssumption, Emptied, LatestKept, S!TypeOK
  <2>3. CacheRecent' /\ S!MostRecent'
    BY <1>1 DEF S!GetStatistics, CacheRecent, S!MostRecent, S!TypeOK
  <2> QED
    BY <2>1, <2>2, <2>3
<1>2. CASE S!Lock(t)
  <2>1. S!TypeOK'
    BY <1>2 DEF S!Lock, S!TypeOK, S!StatsAssumption
  <2>2. Emptied' /\ LatestKept'
    BY <1>2 DEF S!Lock, Emptied, LatestKept, S!TypeOK
  <2>3. CacheRecent' /\ S!MostRecent'
    BY <1>2 DEF S!Lock, CacheRecent, S!MostRecent, S!TypeOK
  <2> QED
    BY <2>1, <2>2, <2>3
<1> QED
  BY <1>1, <1>2

(* GetStatistics() under the lock, which no other thread has. *)
LEMMA StatsLocked ==
  ASSUME S!StatsAssumption, StatsInv, NEW t \in S!Threads, S!Remove(t) \/ S!Return(t)
  PROVE  StatsInv'
<1> USE DEF StatsInv, S!Threads, S!Goto
<1>1. CASE S!Remove(t)
  <2>1. slot' = 0 /\ cached' = reported /\ reported' = reported
    BY <1>1 DEF S!Remove, LatestKept
  <2>2. \A u \in S!Threads \ {t} : stats_pc[u] \in {"idle", "lock"}
    BY <1>1 DEF S!Remove, S!TypeOK
  <2>3. S!TypeOK'
    BY <1>1, <2>1 DEF S!Remove, S!TypeOK
  <2>4. Emptied' /\ LatestKept'
    BY <2>1 DEF Emptied, LatestKept
  <2>5. CacheRecent' /\ S!MostRecent'
    BY <1>1, <2>1, <2>2 DEF S!Remove, CacheRecent, S!MostRecent, S!TypeOK
  <2> QED
    BY <2>3, <2>4, <2>5
<1>2. CASE S!Return(t)
  <2>1. \A u \in S!Threads \ {t} : stats_pc[u] \in {"idle", "lock"}
    BY <1>2 DEF S!Return, S!TypeOK
  <2>2. S!TypeOK'
    BY <1>2, <2>1 DEF S!Return, S!TypeOK, S!StatsAssumption
  <2>3. Emptied' /\ LatestKept'
    BY <1>2 DEF S!Return, Emptied, LatestKept, S!TypeOK
  <2>4. CacheRecent' /\ S!MostRecent'
    BY <1>2 DEF S!Return, CacheRecent, S!MostRecent, S!TypeOK
  <2> QED
    BY <2>2, <2>3, <2>4
<1> QED
  BY <1>1, <1>2

(* No step disturbs the invariant. *)
LEMMA StatsStep ==
  ASSUME S!StatsAssumption, Proxy, StatsInv, [S!Next]_statsVars
  PROVE  StatsInv'
<1>1. CASE UNCHANGED statsVars
  BY <1>1 DEF statsVars, StatsInv, S!TypeOK, Emptied, LatestKept, CacheRecent, S!MostRecent
<1> QED
  BY <1>1, StatsProcessStream, StatsLock, StatsLocked DEF S!Next

(* GetStatistics() returns statistics at least as recent as those reported  *)
(* when it was called, however many monitors call it, as long as the        *)
(* capture thread works through ProcessAudioFrame().                        *)
THEOREM StatisticsAreRecent ==
  ASSUME Proxy
  PROVE  S!Spec => []MostRecent
<1>1. S!StatsAssumption
  BY UsersAssumption
<1>2. S!Init => StatsInv
  BY <1>1, StatsInit
<1>3. StatsInv /\ [S!Next]_S!vars => StatsInv'
  BY <1>1, StatsStep DEF S!vars, statsVars
<1>4. StatsInv => MostRecent
  BY DEF StatsInv, MostRecent
<1> QED
  BY <1>2, <1>3, <1>4, PTL DEF S!Spec

-----------------------------------------------------------------------------
(* The settings of the application (RuntimeSettings). *)

AppPlaces == {"idle", "insert", "fill", "add", "load", "swap", "sub", "advance"}
CapturePlaces == {"idle", "load", "swap", "sub", "advance"}

(* A thread has taken the oldest setting out of the count, and has still to *)
(* advance next_read_index_.                                               *)
Advancing == \E t \in R!Threads : pipe_pc[t] = "advance"

(* A thread has swapped out the oldest setting, which still counts. *)
Swapped == \E t \in R!Threads : pipe_pc[t] = "sub"

(* The slot k places after the oldest setting that is counted. *)
Wrap(x) == IF x < PipeSize THEN x ELSE x - PipeSize
First == IF Advancing THEN R!Next1(pipe_read_index) ELSE pipe_read_index
SlotAt(k) == Wrap(First + k)

(* The settings that Insert() has counted, those that Remove() has taken    *)
(* out of the count, and those that the caller of Remove() is done with.    *)
Inserted == IF pipe_pc["app"] = "idle" THEN last ELSE last - 1
Removed == Inserted - pipe_elements
Finished == IF Advancing THEN Removed - 1 ELSE Removed

(* The types; the places of the two threads and their indices. *)
Places ==
  /\ pipe \in [R!Slots -> Nat]
  /\ pipe_elements \in 0 .. PipeSize
  /\ pipe_write_index \in R!Slots /\ pipe_read_index \in R!Slots
  /\ pipe_pc \in [R!Threads -> AppPlaces]
  /\ pipe_pc["capture"] \in CapturePlaces
  /\ setting \in [R!Threads -> Nat]
  /\ index \in [R!Threads -> R!Slots]
  /\ offered \in Nat /\ remaining \in Nat /\ last \in Nat
  /\ \A t \in R!Threads : /\ pipe_pc[t] \in {"swap", "sub"} => pipe_elements > 0
                          /\ pipe_pc[t] = "advance" => index[t] = pipe_read_index

(* Only one of the two threads is inside Remove(), and Enqueue() is there   *)
(* only when it found the queue full.  So it finds room when it comes back. *)
OneRemoves ==
  /\ pipe_pc["capture"] # "idle" => ~ R!Discarding
  /\ pipe_pc["app"] \in {"load", "swap", "sub"} => pipe_elements = PipeSize
  /\ pipe_pc["app"] \in {"fill", "add", "advance"} => pipe_elements < PipeSize
  /\ pipe_pc["app"] = "insert" /\ pipe_elements = PipeSize => remaining > 0

(* The ring has the settings Removed + 1 up to Inserted, oldest first, and  *)
(* who is in the middle of Insert() or Remove() has the one that is not in. *)
RingOrder ==
  /\ Finished \in Nat
  /\ pipe_write_index = SlotAt(pipe_elements)
  /\ \A k \in 1 .. pipe_elements :
       k > 1 \/ ~ Swapped => pipe[SlotAt(k - 1)] = Removed + k
  /\ pipe_pc["app"] \notin {"idle", "add"} => offered = last
  /\ pipe_pc["app"] # "idle" => last > 0
  /\ pipe_pc["app"] = "add" => pipe[pipe_write_index] = last
  /\ \A t \in R!Threads : /\ pipe_pc[t] = "sub" => setting[t] = Removed + 1
                          /\ pipe_pc[t] = "advance" => setting[t] = Removed

(* Every other setting was handled or discarded, once. *)
Accounted ==
  /\ handled \in Seq(1 .. Finished)
  /\ discarded \subseteq 1 .. Finished
  /\ \A k \in 1 .. Len(handled) : handled[k] \notin discarded
  /\ Len(handled) + Cardinality(discarded) = Finished

SettingsInv == Places /\ OneRemoves /\ RingOrder /\ Accounted

(* What is known of the constants, when the application discards only        *)
(* between two calls of ProcessStream().                                     *)
SettingsAssumption == R!RuntimeSettingsAssumption /\ ~ Overlap

(* Indices that wrap around once.                                            *)
LEMMA Wraps ==
  ASSUME SettingsAssumption, NEW f \in R!Slots
  PROVE  /\ \A k \in 0 .. PipeSize : Wrap(f + k) \in R!Slots
         /\ Wrap(f + 0) = f
         /\ R!Next1(f) = Wrap(f + 1) /\ R!Next1(f) \in R!Slots
         /\ \A k \in 0 .. PipeSize - 1 :
              /\ Wrap(R!Next1(f) + k) = Wrap(f + (k + 1))
              /\ R!Next1(Wrap(f + k)) = Wrap(f + (k + 1))
         /\ \A j, k \in 0 .. PipeSize - 1 : j # k => Wrap(f + j) # Wrap(f + k)
  BY DEF SettingsAssumption, R!RuntimeSettingsAssumption, R!Slots, R!Next1, Wrap

(* The ring of a new queue is empty.                                         *)
LEMMA SettingsInit ==
  ASSUME SettingsAssumption, R!Init PROVE SettingsInv
<1> USE DEF R!Init, R!Threads, R!Empty
<1>1. PipeSize \in Nat \ {0} /\ Attempts \in Nat
  BY DEF SettingsAssumption, R!RuntimeSettingsAssumption
<1>2. Places
  BY <1>1 DEF Places, R!Slots, AppPlaces, CapturePlaces
<1>3. OneRemoves
  BY <1>1 DEF OneRemoves
<1>4. ~ Advancing /\ First = 0 /\ Inserted = 0 /\ Removed = 0 /\ Finished = 0
  BY DEF Advancing, First, Inserted, Removed, Finished
<1>5. RingOrder
  BY <1>1, <1>4 DEF RingOrder, SlotAt, Wrap
<1>6. Accounted
  <2>1. Cardinality({}) = 0
    BY FS_EmptySet
  <2> QED
    BY <1>4, <2>1 DEF Accounted
<1> QED
  BY <1>2, <1>3, <1>5, <1>6 DEF SettingsInv

(* SetRuntimeSetting() has the next setting.                                 *)
LEMMA SettingsSet ==
  ASSUME SettingsAssumption, SettingsInv, R!SetRuntimeSetting
  PROVE  SettingsInv'
<1>1. /\ pipe_pc["app"] = "idle" /\ last' = last + 1 /\ offered' = last + 1
      /\ pipe_pc' = [pipe_pc EXCEPT !["app"] = "insert"] /\ remaining' = Attempts
      /\ pipe_pc["capture"] = "idle" \/ pipe_elements < PipeSize
      /\ UNCHANGED <<pipe, pipe_elements, pipe_write_index, pipe_read_index,
                     setting, index, handled, discarded, applied>>
  BY DEF R!SetRuntimeSetting, R!Goto, R!queueVars, R!results, SettingsAssumption
<1>2. Places /\ OneRemoves /\ RingOrder /\ Accounted
  BY DEF SettingsInv
<1>3. /\ pipe_pc'["app"] = "insert" /\ pipe_pc'["capture"] = pipe_pc["capture"]
      /\ pipe_pc' \in [R!Threads -> AppPlaces]
  BY <1>1, <1>2 DEF Places, R!Threads, AppPlaces
<1>4. /\ Attempts \in Nat /\ Attempts > 0 /\ last \in Nat
      /\ PipeSize \in Nat /\ pipe_elements \in Nat
  BY <1>2 DEF SettingsAssumption, R!RuntimeSettingsAssumption, Places
<1>5. /\ Advancing' <=> Advancing
      /\ Swapped' <=> Swapped
  BY <1>1, <1>3 DEF Advancing, Swapped, R!Threads
<1>6. /\ First' = First
      /\ Inserted' = Inserted /\ Removed' = Removed /\ Finished' = Finished
  BY <1>1, <1>3, <1>4, <1>5 DEF First, Inserted, Removed, Finished
<1>7. Places'
  BY <1>1, <1>2, <1>3, <1>4 DEF Places, R!Threads
<1>8. OneRemoves'
  BY <1>1, <1>2, <1>3, <1>4 DEF OneRemoves, R!Discarding
<1>9. RingOrder'
  BY <1>1, <1>2, <1>3, <1>4, <1>5, <1>6 DEF RingOrder, SlotAt, R!Threads
<1>10. Accounted'
  BY <1>1, <1>2, <1>6 DEF Accounted
<1> QED
  BY <1>7, <1>8, <1>9, <1>10 DEF SettingsInv

(* The load of Insert(): there is room, or else the oldest setting has to go.*)
LEMMA SettingsInsertLoad ==
  ASSUME SettingsAssumption, SettingsInv, R!InsertLoad
  PROVE  SettingsInv'
<1>1. Places /\ OneRemoves /\ RingOrder /\ Accounted
  BY DEF SettingsInv
<1>2. PICK l \in {"fill", "load"} :
        /\ pipe_pc["app"] = "insert"
        /\ pipe_pc' = [pipe_pc EXCEPT !["app"] = l]
        /\ l = "fill" => pipe_elements # PipeSize
        /\ l = "load" => pipe_elements = PipeSize
  BY <1>1 DEF R!InsertLoad, R!Goto, OneRemoves
<1>3. /\ setting' = setting \/ setting' = [setting EXCEPT !["app"] = 0]
      /\ remaining' = remaining \/ remaining' = (remaining - 1) % Modulus
      /\ UNCHANGED <<pipe, pipe_elements, pipe_write_index, pipe_read_index,
                     index, offered, last, handled, discarded, applied>>
  BY DEF R!InsertLoad, R!queueVars, R!results, R!Empty
<1>4. /\ remaining' \in Nat
      /\ PipeSize \in Nat /\ pipe_elements \in 0 .. PipeSize
  BY <1>1, <1>3 DEF Places, SettingsAssumption, R!RuntimeSettingsAssumption
<1>5. /\ pipe_pc'["app"] = l /\ pipe_pc'["capture"] = pipe_pc["capture"]
      /\ pipe_pc' \in [R!Threads -> AppPlaces]
      /\ setting' \in [R!Threads -> Nat]
      /\ setting'["capture"] = setting["capture"]
  BY <1>1, <1>2, <1>3 DEF Places, R!Threads, AppPlaces
<1>6. /\ Advancing' <=> Advancing
      /\ Swapped' <=> Swapped
  BY <1>2, <1>5 DEF Advancing, Swapped, R!Threads
<1>7. /\ First' = First
      /\ Inserted' = Inserted /\ Removed' = Removed /\ Finished' = Finished
  BY <1>2, <1>3, <1>5, <1>6 DEF First, Inserted, Removed, Finished
<1>8. Places'
  BY <1>1, <1>2, <1>3, <1>4, <1>5 DEF Places, R!Threads
<1>9. OneRemoves'
  BY <1>1, <1>2, <1>3, <1>4, <1>5 DEF OneRemoves, R!Discarding
<1>10. RingOrder'
  BY <1>1, <1>2, <1>3, <1>5, <1>6, <1>7 DEF RingOrder, SlotAt, R!Threads
<1>11. Accounted'
  BY <1>1, <1>3, <1>7 DEF Accounted
<1> QED
  BY <1>8, <1>9, <1>10, <1>11 DEF SettingsInv

(* The swap of Insert() goes to the slot after the newest setting.           *)
LEMMA SettingsInsertSwap ==
  ASSUME SettingsAssumption, SettingsInv, R!InsertSwap
  PROVE  SettingsInv'
<1>1. Places /\ OneRemoves /\ RingOrder /\ Accounted
  BY DEF SettingsInv
<1>2. /\ pipe_pc["app"] = "fill"
      /\ pipe_pc' = [pipe_pc EXCEPT !["app"] = "add"]
      /\ pipe' = [pipe EXCEPT ![pipe_write_index] = offered]
      /\ offered' = pipe[pipe_write_index]
      /\ UNCHANGED <<pipe_elements, pipe_write_index, pipe_read_index, setting,
                     index, remaining, last, handled, discarded, applied>>
  BY DEF R!InsertSwap, R!Goto, R!results
<1>3. /\ pipe_pc'["app"] = "add" /\ pipe_pc'["capture"] = pipe_pc["capture"]
      /\ pipe_pc' \in [R!Threads -> AppPlaces]
      /\ pipe' \in [R!Slots -> Nat] /\ offered' \in Nat
  BY <1>1, <1>2 DEF Places, R!Threads, AppPlaces
<1>4. /\ Advancing' <=> Advancing
      /\ Swapped' <=> Swapped
  BY <1>2, <1>3 DEF Advancing, Swapped, R!Threads
<1>5. /\ First' = First
      /\ Inserted' = Inserted /\ Removed' = Removed /\ Finished' = Finished
  BY <1>2, <1>3, <1>4 DEF First, Inserted, Removed, Finished
<1>6. First \in R!Slots /\ pipe_elements \in 0 .. PipeSize - 1 /\ PipeSize \in Nat
  BY <1>1, <1>2, Wraps DEF First, Places, OneRemoves, SettingsAssumption,
                           R!RuntimeSettingsAssumption
<1>7. /\ pipe_write_index = Wrap(First + pipe_elements)
      /\ pipe_write_index \in R!Slots
      /\ \A k \in 1 .. pipe_elements : /\ Wrap(First + (k - 1)) \in R!Slots
                                       /\ Wrap(First + (k - 1)) # pipe_write_index
  <2>1. pipe_write_index = Wrap(First + pipe_elements)
    BY <1>1 DEF RingOrder, SlotAt
  <2>2. \A k \in 1 .. pipe_elements :
          /\ k - 1 \in 0 .. PipeSize - 1 /\ k - 1 \in 0 .. PipeSize
          /\ k - 1 # pipe_elements
    BY <1>6
  <2>3. /\ \A k \in 0 .. PipeSize : Wrap(First + k) \in R!Slots
        /\ \A j, k \in 0 .. PipeSize - 1 : j # k => Wrap(First + j) # Wrap(First + k)
    BY <1>6, Wraps, Zenon
  <2> QED
    BY <1>1, <1>6, <2>1, <2>2, <2>3, ZenonT(30) DEF Places
<1>8. Places'
  BY <1>1, <1>2, <1>3 DEF Places, R!Threads
<1>9. OneRemoves'
  BY <1>1, <1>2, <1>3, SMTT(30) DEF OneRemoves, R!Discarding
<1>10. RingOrder'
  <2>1. \A k \in 1 .. pipe_elements :
          pipe'[Wrap(First + (k - 1))] = pipe[Wrap(First + (k - 1))]
    BY <1>1, <1>2, <1>7 DEF Places
  <2>2. pipe'[pipe_write_index] = last
    BY <1>1, <1>2, <1>7 DEF Places, RingOrder
  <2> QED
    BY <1>1, <1>2, <1>3, <1>4, <1>5, <2>1, <2>2 DEF RingOrder, SlotAt, R!Threads
<1>11. Accounted'
  BY <1>1, <1>2, <1>5, SMTT(30) DEF Accounted
<1> QED
  BY <1>8, <1>9, <1>10, <1>11 DEF SettingsInv

(* The fetch_add of Insert(): the setting counts.                            *)
LEMMA SettingsInsertAdd ==
  ASSUME SettingsAssumption, SettingsInv, R!InsertAdd
  PROVE  SettingsInv'
<1>1. Places /\ OneRemoves /\ RingOrder /\ Accounted
  BY DEF SettingsInv
<1>2. /\ PipeSize \in Nat /\ Modulus \in Nat /\ Modulus > PipeSize + 1
      /\ pipe_elements \in 0 .. PipeSize - 1 /\ last \in Nat /\ last > 0
  BY <1>1 DEF SettingsAssumption, R!RuntimeSettingsAssumption, Places, OneRemoves,
              RingOrder, R!InsertAdd
<1>3. (pipe_elements + 1) % Modulus = pipe_elements + 1
  BY <1>2
<1>4. /\ pipe_pc["app"] = "add"
      /\ pipe_pc' = [pipe_pc EXCEPT !["app"] = "idle"]
      /\ pipe_elements' = pipe_elements + 1
      /\ pipe_write_index' = R!Next1(pipe_write_index)
      /\ UNCHANGED <<pipe, pipe_read_index, setting, index, offered, remaining,
                     last, handled, discarded, applied>>
  BY <1>3 DEF R!InsertAdd, R!Goto, R!results
<1>5. /\ pipe_pc'["app"] = "idle" /\ pipe_pc'["capture"] = pipe_pc["capture"]
      /\ pipe_pc' \in [R!Threads -> AppPlaces]
  BY <1>1, <1>4 DEF Places, R!Threads, AppPlaces
<1>6. /\ Advancing' <=> Advancing
      /\ Swapped' <=> Swapped
  BY <1>4, <1>5 DEF Advancing, Swapped, R!Threads
<1>7. /\ First' = First /\ First \in R!Slots
      /\ Inserted' = Inserted + 1 /\ Removed' = Removed /\ Finished' = Finished
  <2>1. First' = First /\ First \in R!Slots
    BY <1>1, <1>4, <1>6, Wraps DEF First, Places
  <2>2. Inserted = last - 1 /\ Inserted' = last
    BY <1>4, <1>5 DEF Inserted
  <2> QED
    BY <1>2, <1>4, <1>6, <2>1, <2>2 DEF Removed, Finished
<1>8. /\ pipe_write_index = Wrap(First + pipe_elements)
      /\ pipe_write_index' = Wrap(First + (pipe_elements + 1))
      /\ pipe_write_index' \in R!Slots
  <2>1. pipe_write_index = Wrap(First + pipe_elements)
    BY <1>1 DEF RingOrder, SlotAt
  <2> QED
    BY <1>2, <1>4, <1>7, <2>1, Wraps, SMTT(30)
<1>9. Places'
  BY <1>1, <1>2, <1>4, <1>5, <1>8 DEF Places, R!Threads
<1>10. OneRemoves'
  BY <1>1, <1>4, <1>5 DEF OneRemoves, R!Discarding
<1>11. RingOrder'
  <2>1. ASSUME NEW k \in 1 .. pipe_elements + 1, k > 1 \/ ~ Swapped
        PROVE  pipe[Wrap(First + (k - 1))] = Removed + k
    <3>1. CASE k \in 1 .. pipe_elements
      BY <1>1, <2>1, <3>1 DEF RingOrder, SlotAt
    <3>2. CASE k = pipe_elements + 1
      <4>1. First + (k - 1) = First + pipe_elements
        BY <1>2, <3>2
      <4>2. Removed + k = last
        BY <1>2, <1>4, <3>2 DEF Removed, Inserted
      <4> QED
        BY <1>1, <1>4, <1>8, <4>1, <4>2 DEF RingOrder
    <3> QED
      BY <1>2, <2>1, <3>1, <3>2
  <2> QED
    BY <1>1, <1>2, <1>4, <1>5, <1>6, <1>7, <1>8, <2>1 DEF RingOrder, SlotAt, R!Threads
<1>12. Accounted'
  BY <1>1, <1>4, <1>7 DEF Accounted
<1> QED
  BY <1>9, <1>10, <1>11, <1>12 DEF SettingsInv

(* The loop of HandleCaptureRuntimeSettings() starts when Enqueue() is not   *)
(* discarding.                                                               *)
LEMMA SettingsHandle ==
  ASSUME SettingsAssumption, SettingsInv, R!HandleCaptureRuntimeSettings
  PROVE  SettingsInv'
<1>1. Places /\ OneRemoves /\ RingOrder /\ Accounted
  BY DEF SettingsInv
<1>2. /\ pipe_pc["capture"] = "idle" /\ ~ R!Discarding
      /\ pipe_pc' = [pipe_pc EXCEPT !["capture"] = "load"]
      /\ setting' = [setting EXCEPT !["capture"] = 0]
      /\ UNCHANGED <<pipe, pipe_elements, pipe_write_index, pipe_read_index,
                     index, offered, remaining, last, handled, discarded, applied>>
  BY DEF R!HandleCaptureRuntimeSettings, R!Goto, R!queueVars, R!results, R!Empty,
         SettingsAssumption
<1>3. /\ pipe_pc'["capture"] = "load" /\ pipe_pc'["app"] = pipe_pc["app"]
      /\ pipe_pc' \in [R!Threads -> AppPlaces]
      /\ setting' \in [R!Threads -> Nat] /\ setting'["app"] = setting["app"]
  BY <1>1, <1>2 DEF Places, R!Threads, AppPlaces
<1>4. /\ Advancing' <=> Advancing
      /\ Swapped' <=> Swapped
  BY <1>2, <1>3 DEF Advancing, Swapped, R!Threads
<1>5. /\ First' = First
      /\ Inserted' = Inserted /\ Removed' = Removed /\ Finished' = Finished
  BY <1>2, <1>3, <1>4 DEF First, Inserted, Removed, Finished
<1>6. Places'
  BY <1>1, <1>2, <1>3 DEF Places, R!Threads, CapturePlaces
<1>7. OneRemoves'
  BY <1>1, <1>2, <1>3 DEF OneRemoves, R!Discarding
<1>8. RingOrder'
  BY <1>1, <1>2, <1>3, <1>4, <1>5 DEF RingOrder, SlotAt, R!Threads
<1>9. Accounted'
  BY <1>1, <1>2, <1>5 DEF Accounted
<1> QED
  BY <1>6, <1>7, <1>8, <1>9 DEF SettingsInv

(* Who is inside Remove() is there alone.                                    *)
LEMMA RemovesAlone ==
  ASSUME SettingsInv, NEW t \in R!Threads,
         pipe_pc[t] \in {"load", "swap", "sub", "advance"}
  PROVE  /\ \A u \in R!Threads \ {t} :
              pipe_pc[u] \notin {"load", "swap", "sub", "advance"}
         /\ t = "app" => pipe_pc["capture"] = "idle"
         /\ t = "capture" => ~ R!Discarding
         /\ Advancing <=> pipe_pc[t] = "advance"
         /\ Swapped <=> pipe_pc[t] = "sub"
<1>1. t = "app" => pipe_pc["capture"] = "idle"
  BY DEF SettingsInv, OneRemoves, R!Discarding
<1>2. t = "capture" => ~ R!Discarding
  BY DEF SettingsInv, OneRemoves
<1> QED
  BY <1>1, <1>2 DEF Advancing, Swapped, R!Threads, R!Discarding

(* The load of Remove(): Enqueue() finds the full queue, the capture thread *)
(* leaves an empty one.                                                      *)
LEMMA SettingsRemoveLoad ==
  ASSUME SettingsAssumption, SettingsInv, NEW t \in R!Threads, R!RemoveLoad(t)
  PROVE  SettingsInv'
<1>1. Places /\ OneRemoves /\ RingOrder /\ Accounted
  BY DEF SettingsInv
<1>2. /\ pipe_pc[t] = "load"
      /\ pipe_elements \in 0 .. PipeSize /\ PipeSize \in Nat \ {0}
      /\ t = "app" => pipe_elements = PipeSize
  BY <1>1 DEF R!RemoveLoad, R!RemoveLoadWhen, Places, OneRemoves,
              SettingsAssumption, R!RuntimeSettingsAssumption
<1> DEFINE l == IF pipe_elements = 0 THEN "idle" ELSE "swap"
<1>3. /\ pipe_pc' = [pipe_pc EXCEPT ![t] = l]
      /\ l \in {"swap", "idle"}
      /\ l = "swap" => pipe_elements > 0
      /\ t = "app" => l = "swap"
  <2>1. t = "app" => pipe_elements # 0
    BY <1>2
  <2>2. pipe_pc' = [pipe_pc EXCEPT ![t] = IF ~ (pipe_elements = 0) THEN "swap"
                                          ELSE IF t = "app" THEN "insert" ELSE "idle"]
    BY DEF R!RemoveLoad, R!RemoveLoadWhen, R!Goto
  <2>3. CASE pipe_elements = 0
    BY <2>1, <2>2, <2>3, Zenon
  <2>4. CASE pipe_elements # 0
    BY <1>2, <2>2, <2>4
  <2> QED
    BY <2>3, <2>4
<1> HIDE DEF l
<1>4. UNCHANGED <<pipe, pipe_elements, pipe_write_index, pipe_read_index, setting,
                  index, offered, remaining, last, handled, discarded, applied>>
  BY DEF R!RemoveLoad, R!RemoveLoadWhen, R!queueVars, R!results
<1>5. /\ pipe_pc'[t] = l /\ \A u \in R!Threads \ {t} : pipe_pc'[u] = pipe_pc[u]
      /\ pipe_pc' \in [R!Threads -> AppPlaces]
      /\ pipe_pc'["capture"] \in CapturePlaces
      /\ pipe_pc'["app"] = "idle" <=> pipe_pc["app"] = "idle"
  BY <1>1, <1>2, <1>3 DEF Places, R!Threads, AppPlaces, CapturePlaces
<1>6. /\ ~ Advancing /\ ~ Advancing' /\ ~ Swapped /\ ~ Swapped'
      /\ t = "app" => pipe_pc["capture"] = "idle"
      /\ t = "capture" => ~ R!Discarding
  <2>1. /\ \A u \in R!Threads \ {t} :
             pipe_pc[u] \notin {"load", "swap", "sub", "advance"}
        /\ Advancing <=> pipe_pc[t] = "advance"
        /\ Swapped <=> pipe_pc[t] = "sub"
        /\ t = "app" => pipe_pc["capture"] = "idle"
        /\ t = "capture" => ~ R!Discarding
    BY <1>2, RemovesAlone
  <2>2. \A u \in R!Threads : pipe_pc'[u] # "advance" /\ pipe_pc'[u] # "sub"
    BY <1>3, <1>5, <2>1
  <2> QED
    BY <1>2, <2>1, <2>2 DEF Advancing, Swapped
<1>7. /\ First' = First
      /\ Inserted' = Inserted /\ Removed' = Removed /\ Finished' = Finished
  BY <1>4, <1>5, <1>6, SMTT(30) DEF First, Inserted, Removed, Finished
<1>8. Places'
  BY <1>1, <1>3, <1>4, <1>5 DEF Places
<1>9. OneRemoves'
  BY <1>1, <1>2, <1>3, <1>4, <1>5, <1>6, SMTT(30) DEF OneRemoves, R!Discarding, R!Threads
<1>10. RingOrder'
  BY <1>1, <1>2, <1>3, <1>4, <1>5, <1>6, <1>7 DEF RingOrder, SlotAt, R!Threads
<1>11. Accounted'
  BY <1>1, <1>4, <1>7 DEF Accounted
<1> QED
  BY <1>8, <1>9, <1>10, <1>11 DEF SettingsInv

(* The swap of Remove() takes the oldest setting.                            *)
LEMMA SettingsRemoveSwap ==
  ASSUME SettingsAssumption, SettingsInv, NEW t \in R!Threads, R!RemoveSwap(t)
  PROVE  SettingsInv'
<1>1. Places /\ OneRemoves /\ RingOrder /\ Accounted
  BY DEF SettingsInv
<1>2. /\ pipe_pc[t] = "swap"
      /\ pipe_pc' = [pipe_pc EXCEPT ![t] = "sub"]
      /\ pipe' = [pipe EXCEPT ![pipe_read_index] = setting[t]]
      /\ setting' = [setting EXCEPT ![t] = pipe[pipe_read_index]]
      /\ UNCHANGED <<pipe_elements, pipe_write_index, pipe_read_index, index,
                     offered, remaining, last, handled, discarded, applied>>
  BY DEF R!RemoveSwap, R!Goto, R!enqueueVars, R!results
<1>3. /\ pipe_elements \in 1 .. PipeSize /\ PipeSize \in Nat \ {0}
      /\ pipe_read_index \in R!Slots
  <2>1. PipeSize \in Nat \ {0}
    BY DEF SettingsAssumption, R!RuntimeSettingsAssumption
  <2>2. pipe_elements > 0 /\ pipe_elements \in 0 .. PipeSize
    BY <1>1, <1>2 DEF Places
  <2> QED
    BY <1>1, <2>1, <2>2 DEF Places
<1>4. /\ ~ Advancing /\ ~ Swapped
      /\ t = "app" => pipe_pc["capture"] = "idle"
      /\ t = "capture" => ~ R!Discarding
      /\ \A u \in R!Threads \ {t} :
           pipe_pc[u] \notin {"load", "swap", "sub", "advance"}
  BY <1>2, RemovesAlone
<1>5. /\ pipe_pc'[t] = "sub" /\ \A u \in R!Threads \ {t} : pipe_pc'[u] = pipe_pc[u]
      /\ pipe_pc' \in [R!Threads -> AppPlaces]
      /\ pipe_pc'["capture"] \in CapturePlaces
      /\ pipe_pc'["app"] = "idle" <=> pipe_pc["app"] = "idle"
      /\ pipe_pc'["app"] = "add" <=> pipe_pc["app"] = "add"
      /\ pipe_pc'["app"] \in {"idle", "add"} <=> pipe_pc["app"] \in {"idle", "add"}
  BY <1>1, <1>2 DEF Places, R!Threads, AppPlaces, CapturePlaces
<1>6. ~ Advancing' /\ Swapped'
  BY <1>4, <1>5, SMTT(30) DEF Advancing, Swapped, R!Threads
<1>7. /\ First = pipe_read_index /\ First' = First
      /\ Inserted' = Inserted /\ Removed' = Removed /\ Finished' = Finished
  BY <1>2, <1>4, <1>5, <1>6 DEF First, Inserted, Removed, Finished
<1>8. /\ Wrap(First + 0) = First /\ 0 \in 0 .. PipeSize - 1
      /\ \A k \in 1 .. PipeSize - 1 : /\ Wrap(First + k) # First
                                      /\ Wrap(First + k) \in R!Slots
  <2>1. \A k \in 1 .. PipeSize - 1 : k \in 0 .. PipeSize - 1 /\ k # 0
    BY <1>3
  <2>2. 0 \in 0 .. PipeSize - 1
    BY <1>3
  <2>3. \A k \in 0 .. PipeSize - 1 : k \in 0 .. PipeSize
    BY <1>3
  <2>4. First \in R!Slots
    BY <1>3, <1>7
  <2>5. /\ \A k \in 0 .. PipeSize : Wrap(First + k) \in R!Slots
        /\ Wrap(First + 0) = First
        /\ \A j, k \in 0 .. PipeSize - 1 : j # k => Wrap(First + j) # Wrap(First + k)
    BY <2>4, Wraps, Zenon
  <2> QED
    BY <2>1, <2>2, <2>3, <2>5, Zenon
<1>9. /\ pipe' \in [R!Slots -> Nat] /\ setting' \in [R!Threads -> Nat]
      /\ setting'[t] = pipe[pipe_read_index]
  BY <1>1, <1>2, <1>3 DEF Places
<1>10. Places'
  BY <1>1, <1>2, <1>3, <1>5, <1>9 DEF Places
<1>11. OneRemoves'
  BY <1>1, <1>2, <1>4, <1>5, SMTT(30) DEF OneRemoves, R!Discarding, R!Threads
<1>12. RingOrder'
  <2>1. ASSUME NEW k \in 1 .. pipe_elements, k > 1
        PROVE  pipe'[SlotAt(k - 1)'] = Removed' + k
    <3>1. k - 1 \in 1 .. PipeSize - 1
      BY <1>3, <2>1
    <3>2. pipe'[Wrap(First + (k - 1))] = pipe[Wrap(First + (k - 1))]
      BY <1>1, <1>2, <1>7, <1>8, <3>1 DEF Places
    <3> QED
      BY <1>1, <1>7, <2>1, <3>2 DEF RingOrder, SlotAt
  <2>2. pipe[pipe_read_index] = Removed + 1
    <3>1. 1 \in 1 .. pipe_elements
      BY <1>3
    <3>2. pipe[SlotAt(1 - 1)] = Removed + 1
      BY <1>1, <1>4, <3>1, SMTT(30) DEF RingOrder
    <3> QED
      BY <1>7, <1>8, <3>2 DEF SlotAt
  <2>3. pipe_pc["app"] = "add" => pipe'[pipe_write_index] = pipe[pipe_write_index]
    <3>1. pipe_pc["app"] = "add" => pipe_elements \in 1 .. PipeSize - 1
      BY <1>1, <1>3 DEF OneRemoves
    <3>2. pipe_write_index = Wrap(First + pipe_elements)
      BY <1>1, SMTT(30) DEF RingOrder, SlotAt
    <3> QED
      BY <1>1, <1>2, <1>7, <1>8, <3>1, <3>2 DEF Places
  <2>4. /\ Finished' \in Nat
        /\ pipe_write_index' = SlotAt(pipe_elements)'
        /\ pipe_pc'["app"] \notin {"idle", "add"} => offered' = last'
        /\ pipe_pc'["app"] # "idle" => last' > 0
        /\ pipe_pc'["app"] = "add" => pipe'[pipe_write_index'] = last'
    BY <1>1, <1>2, <1>5, <1>7, <2>3 DEF RingOrder, SlotAt
  <2>5. \A u \in R!Threads : /\ pipe_pc'[u] = "sub" => setting'[u] = Removed' + 1
                             /\ pipe_pc'[u] # "advance"
    BY <1>4, <1>5, <1>7, <1>9, <2>2
  <2> QED
    BY <1>2, <1>6, <2>1, <2>4, <2>5 DEF RingOrder
<1>13. Accounted'
  BY <1>1, <1>2, <1>7, SMTT(30) DEF Accounted
<1> QED
  BY <1>10, <1>11, <1>12, <1>13 DEF SettingsInv

(* The fetch_sub of Remove(): the oldest setting counts no more.             *)
LEMMA SettingsRemoveSub ==
  ASSUME SettingsAssumption, SettingsInv, NEW t \in R!Threads, R!RemoveSub(t)
  PROVE  SettingsInv'
<1>1. Places /\ OneRemoves /\ RingOrder /\ Accounted
  BY DEF SettingsInv
<1>2. /\ PipeSize \in Nat \ {0} /\ Modulus \in Nat /\ Modulus > PipeSize + 1
      /\ pipe_elements \in 1 .. PipeSize /\ pipe_read_index \in R!Slots
      /\ last \in Nat /\ Finished \in Nat
  <2>1. pipe_elements > 0 /\ pipe_elements \in 0 .. PipeSize
    BY <1>1 DEF R!RemoveSub, Places
  <2> QED
    BY <1>1, <2>1 DEF SettingsAssumption, R!RuntimeSettingsAssumption, Places, RingOrder
<1>3. (pipe_elements - 1) % Modulus = pipe_elements - 1
  BY <1>2
<1>4. /\ pipe_pc[t] = "sub"
      /\ pipe_pc' = [pipe_pc EXCEPT ![t] = "advance"]
      /\ pipe_elements' = pipe_elements - 1
      /\ index' = [index EXCEPT ![t] = pipe_read_index]
      /\ UNCHANGED <<pipe, pipe_write_index, pipe_read_index, setting, offered,
                     remaining, last, handled, discarded, applied>>
  BY <1>3 DEF R!RemoveSub, R!Goto, R!enqueueVars, R!results
<1>5. /\ ~ Advancing /\ Swapped
      /\ t = "app" => pipe_pc["capture"] = "idle"
      /\ t = "capture" => ~ R!Discarding
      /\ \A u \in R!Threads \ {t} :
           pipe_pc[u] \notin {"load", "swap", "sub", "advance"}
  BY <1>4, RemovesAlone
<1>6. /\ pipe_pc'[t] = "advance"
      /\ \A u \in R!Threads \ {t} : pipe_pc'[u] = pipe_pc[u]
      /\ pipe_pc' \in [R!Threads -> AppPlaces]
      /\ pipe_pc'["capture"] \in CapturePlaces
      /\ pipe_pc'["app"] = "idle" <=> pipe_pc["app"] = "idle"
      /\ pipe_pc'["app"] = "add" <=> pipe_pc["app"] = "add"
      /\ pipe_pc'["app"] \in {"idle", "add"} <=> pipe_pc["app"] \in {"idle", "add"}
  BY <1>1, <1>4 DEF Places, R!Threads, AppPlaces, CapturePlaces
<1>7. Advancing' /\ ~ Swapped'
  BY <1>5, <1>6 DEF Advancing, Swapped, R!Threads
<1>8. /\ First = pipe_read_index /\ First' = R!Next1(First)
      /\ Removed = Finished /\ Removed' = Removed + 1 /\ Finished' = Finished
  <2>1. First = pipe_read_index /\ First' = R!Next1(First)
    BY <1>4, <1>5, <1>7, SMTT(30) DEF First
  <2>2. Inserted' = Inserted /\ Inserted \in Int
    BY <1>2, <1>4, <1>6 DEF Inserted
  <2>3. Removed' = Removed + 1 /\ Removed \in Int
    BY <1>2, <1>4, <2>2, SMTT(30) DEF Removed
  <2> QED
    BY <1>5, <1>7, <2>1, <2>3 DEF Finished
<1>9. \A k \in 0 .. PipeSize - 1 : Wrap(First' + k) = Wrap(First + (k + 1))
  BY <1>2, <1>8, Wraps, SMTT(30)
<1>10. Places'
  BY <1>1, <1>2, <1>4, <1>5, <1>6, SMTT(30) DEF Places
<1>11. OneRemoves'
  BY <1>1, <1>2, <1>4, <1>5, <1>6 DEF OneRemoves, R!Discarding, R!Threads
<1>12. RingOrder'
  <2>1. pipe_write_index' = SlotAt(pipe_elements)'
    <3>1. pipe_elements - 1 \in 0 .. PipeSize - 1 /\ (pipe_elements - 1) + 1 = pipe_elements
      BY <1>2
    <3>2. Wrap(First' + (pipe_elements - 1)) = Wrap(First + pipe_elements)
      BY <1>9, <3>1
    <3> QED
      BY <1>1, <1>4, <3>2 DEF RingOrder, SlotAt
  <2>2. ASSUME NEW k \in 1 .. pipe_elements - 1
        PROVE  pipe[Wrap(First' + (k - 1))] = Removed + (k + 1)
    <3>1. /\ k - 1 \in 0 .. PipeSize - 1 /\ (k - 1) + 1 = (k + 1) - 1
          /\ k + 1 \in 1 .. pipe_elements /\ k + 1 > 1
      BY <1>2
    <3>2. Wrap(First' + (k - 1)) = Wrap(First + ((k + 1) - 1))
      BY <1>9, <3>1, SMTT(30)
    <3> QED
      BY <1>1, <3>1, <3>2 DEF RingOrder, SlotAt
  <2>3. \A k \in 1 .. pipe_elements' : pipe'[SlotAt(k - 1)'] = Removed' + k
    <3>1. \A k \in 1 .. pipe_elements - 1 : Removed + (k + 1) = Removed' + k
      BY <1>2, <1>8, SMTT(30)
    <3> QED
      BY <1>4, <2>2, <3>1 DEF SlotAt
  <2>4. /\ Finished' \in Nat
        /\ pipe_pc'["app"] \notin {"idle", "add"} => offered' = last'
        /\ pipe_pc'["app"] # "idle" => last' > 0
        /\ pipe_pc'["app"] = "add" => pipe'[pipe_write_index'] = last'
    BY <1>1, <1>4, <1>6, <1>8, SMTT(30) DEF RingOrder
  <2>5. \A u \in R!Threads : /\ pipe_pc'[u] # "sub"
                             /\ pipe_pc'[u] = "advance" => setting'[u] = Removed'
    BY <1>1, <1>4, <1>5, <1>6, <1>8 DEF RingOrder
  <2> QED
    BY <2>1, <2>3, <2>4, <2>5, SMTT(30) DEF RingOrder
<1>13. Accounted'
  BY <1>1, <1>4, <1>8 DEF Accounted
<1> QED
  BY <1>10, <1>11, <1>12, <1>13 DEF SettingsInv

(* What was removed is handled by the capture thread or discarded by         *)
(* Enqueue(), and counts there.                                              *)
LEMMA SettingsFinished ==
  ASSUME Accounted, Finished \in Nat, NEW t \in R!Threads,
         setting[t] = Finished + 1, Finished' = Finished + 1,
         IF t = "app" THEN R!Discard ELSE R!Handle(setting[t])
  PROVE  Accounted'
<1>1. /\ handled \in Seq(1 .. Finished) /\ discarded \subseteq 1 .. Finished
      /\ \A k \in 1 .. Len(handled) : handled[k] \notin discarded
      /\ Len(handled) + Cardinality(discarded) = Finished
  BY DEF Accounted
<1>2. /\ IsFiniteSet(discarded) /\ Cardinality(discarded) \in Nat
      /\ Finished + 1 \notin discarded
      /\ Cardinality(discarded \cup {Finished + 1}) = Cardinality(discarded) + 1
  <2>1. IsFiniteSet(1 .. Finished)
    BY FS_Interval
  <2>2. IsFiniteSet(discarded)
    BY <1>1, <2>1, FS_Subset, Zenon
  <2>3. Finished + 1 \notin discarded
    BY <1>1
  <2> QED
    BY <2>2, <2>3, FS_CardinalityType, FS_AddElement
<1>3. Len(handled) \in Nat /\ \A k \in 1 .. Len(handled) : handled[k] \in 1 .. Finished
  BY <1>1
<1>4. \A x \in 1 .. Finished : x \in 1 .. Finished + 1 /\ x # Finished + 1
  OBVIOUS
<1>5. CASE t = "app"
  <2>1. discarded' = discarded \cup {Finished + 1} /\ handled' = handled
    BY <1>5 DEF R!Discard
  <2>2. handled' \in Seq(1 .. Finished')
    BY <1>1, <1>4, <2>1
  <2>3. discarded' \subseteq 1 .. Finished'
    BY <1>1, <1>4, <2>1
  <2>4. \A k \in 1 .. Len(handled) : handled[k] \notin discarded \cup {Finished + 1}
    BY <1>1, <1>3, <1>4
  <2>5. Len(handled) + Cardinality(discarded') = Finished'
    <3>1. Cardinality(discarded') = Cardinality(discarded) + 1
      BY <1>2, <2>1, ZenonT(30)
    <3>2. Len(handled) + (Cardinality(discarded) + 1)
            = (Len(handled) + Cardinality(discarded)) + 1
      BY <1>2, <1>3, SMTT(30)
    <3> QED
      BY <1>1, <3>1, <3>2, Zenon
  <2> QED
    BY <2>1, <2>2, <2>3, <2>4, <2>5 DEF Accounted
<1>6. CASE t # "app"
  <2>1. discarded' = discarded /\ handled' = Append(handled, Finished + 1)
    BY <1>6 DEF R!Handle
  <2>2. handled \in Seq(1 .. Finished + 1) /\ Finished + 1 \in 1 .. Finished + 1
    BY <1>1, <1>4
  <2>3. /\ handled' \in Seq(1 .. Finished') /\ Len(handled') = Len(handled) + 1
        /\ \A k \in 1 .. Len(handled) : handled'[k] = handled[k]
        /\ handled'[Len(handled) + 1] = Finished + 1
    BY <2>1, <2>2
  <2>4. \A k \in 1 .. Len(handled) + 1 : k \in 1 .. Len(handled) \/ k = Len(handled) + 1
    BY <1>3
  <2>5. \A k \in 1 .. Len(handled') : handled'[k] \notin discarded'
    BY <1>1, <1>2, <2>1, <2>3, <2>4, SMTT(30)
  <2> QED
    BY <1>1, <1>2, <1>3, <2>1, <2>3, <2>5, SMTT(30) DEF Accounted
<1> QED
  BY <1>5, <1>6

(* next_read_index_ moves on.                                                *)
LEMMA SettingsRemoveAdvance ==
  ASSUME SettingsAssumption, SettingsInv, NEW t \in R!Threads, R!RemoveAdvance(t)
  PROVE  SettingsInv'
<1>1. Places /\ OneRemoves /\ RingOrder /\ Accounted
  BY DEF SettingsInv
<1> DEFINE l == IF t = "app" THEN "insert" ELSE "load"
<1>2. /\ pipe_pc[t] = "advance"
      /\ pipe_pc' = [pipe_pc EXCEPT ![t] = l]
      /\ pipe_read_index' = R!Next1(index[t])
      /\ IF t = "app" THEN R!Discard ELSE R!Handle(setting[t])
      /\ UNCHANGED <<pipe, pipe_elements, pipe_write_index, setting, index,
                     offered, remaining, last>>
  BY DEF R!RemoveAdvance, R!Goto, R!enqueueVars, R!Discard, R!Handle, R!Threads
<1>3. /\ PipeSize \in Nat \ {0} /\ pipe_elements \in 0 .. PipeSize
      /\ pipe_read_index \in R!Slots /\ index[t] = pipe_read_index
      /\ t = "app" => pipe_elements < PipeSize
      /\ last \in Nat /\ Finished \in Nat /\ setting[t] = Removed
  BY <1>1, <1>2 DEF SettingsAssumption, R!RuntimeSettingsAssumption, Places, RingOrder,
                    OneRemoves
<1>4. /\ Advancing /\ ~ Swapped
      /\ t = "app" => pipe_pc["capture"] = "idle"
      /\ t = "capture" => ~ R!Discarding
      /\ \A u \in R!Threads \ {t} :
           pipe_pc[u] \notin {"load", "swap", "sub", "advance"}
  BY <1>2, RemovesAlone, SMTT(30)
<1>5. /\ pipe_pc'[t] = l /\ l \in {"insert", "load"}
      /\ \A u \in R!Threads \ {t} : pipe_pc'[u] = pipe_pc[u]
      /\ pipe_pc' \in [R!Threads -> AppPlaces]
      /\ pipe_pc'["capture"] \in CapturePlaces
      /\ pipe_pc'["app"] = "idle" <=> pipe_pc["app"] = "idle"
      /\ pipe_pc'["app"] = "add" <=> pipe_pc["app"] = "add"
      /\ pipe_pc'["app"] \in {"idle", "add"} <=> pipe_pc["app"] \in {"idle", "add"}
  BY <1>1, <1>2 DEF Places, R!Threads, AppPlaces, CapturePlaces
<1>6. /\ ~ Advancing' /\ ~ Swapped'
      /\ \A u \in R!Threads : pipe_pc'[u] \notin {"swap", "sub", "advance"}
  <2>1. \A u \in R!Threads : pipe_pc'[u] \notin {"swap", "sub", "advance"}
    BY <1>4, <1>5
  <2> QED
    BY <2>1 DEF Advancing, Swapped
<1>7. /\ First' = First /\ pipe_read_index' \in R!Slots
      /\ Removed' = Removed /\ Removed = Finished + 1 /\ Finished' = Finished + 1
  <2>1. First' = First /\ pipe_read_index' \in R!Slots
    BY <1>2, <1>3, <1>4, <1>6, Wraps, SMTT(30) DEF First
  <2>2. Inserted' = Inserted /\ Inserted \in Int
    BY <1>2, <1>3, <1>5 DEF Inserted
  <2>3. Removed' = Removed /\ Removed \in Int
    BY <1>2, <1>3, <2>2, SMTT(30) DEF Removed
  <2> QED
    BY <1>4, <1>6, <2>1, <2>3, SMTT(30) DEF Finished
<1>8. Places'
  BY <1>1, <1>2, <1>5, <1>6, <1>7, SMTT(30) DEF Places
<1>9. OneRemoves'
  BY <1>1, <1>2, <1>3, <1>4, <1>5, SMTT(30) DEF OneRemoves, R!Discarding, R!Threads
<1>10. RingOrder'
  BY <1>1, <1>2, <1>3, <1>4, <1>5, <1>6, <1>7 DEF RingOrder, SlotAt
<1>11. Accounted'
  BY <1>1, <1>2, <1>3, <1>7, SettingsFinished
<1> QED
  BY <1>8, <1>9, <1>10, <1>11 DEF SettingsInv

(* No step disturbs the invariant.                                           *)
LEMMA SettingsStep ==
  ASSUME SettingsAssumption, SettingsInv, [R!Next]_pipeVars
  PROVE  SettingsInv'
<1>1. CASE UNCHANGED pipeVars
  <2>1. /\ First' = First /\ Inserted' = Inserted /\ Removed' = Removed
        /\ Finished' = Finished /\ (Swapped' <=> Swapped)
    BY <1>1 DEF pipeVars, First, Inserted, Removed, Finished, Swapped, Advancing
  <2>2. Places' /\ OneRemoves'
    BY <1>1 DEF SettingsInv, pipeVars, Places, OneRemoves, R!Discarding
  <2>3. RingOrder'
    BY <1>1, <2>1 DEF SettingsInv, pipeVars, RingOrder, SlotAt
  <2>4. Accounted'
    BY <1>1, <2>1 DEF SettingsInv, pipeVars, Accounted
  <2> QED
    BY <2>2, <2>3, <2>4 DEF SettingsInv
<1>2. \A t \in R!Threads : R!RemoveStep(t) => SettingsInv'
  BY SettingsRemoveLoad, SettingsRemoveSwap, SettingsRemoveSub,
     SettingsRemoveAdvance DEF R!RemoveStep
<1> QED
  BY <1>1, <1>2, SettingsSet, SettingsInsertLoad, SettingsInsertSwap,
     SettingsInsertAdd, SettingsHandle DEF R!Next, R!EnqueueStep, R!Threads

(* When no call is on its way, the ring is what the queue holds, and what is *)
(* not there was handled or discarded.                                       *)
LEMMA SettingsQuiet ==
  ASSUME SettingsAssumption, SettingsInv
  PROVE  R!LatestPending
<1> SUFFICES ASSUME R!Quiet PROVE
      /\ R!Pending = [k \in 1 .. pipe_elements |-> last - pipe_elements + k]
      /\ {handled[k] : k \in DOMAIN handled} \cap discarded = {}
      /\ Len(handled) + Cardinality(discarded) + pipe_elements = last
  <2>1. R!Cardinality(discarded) = Cardinality(discarded)
    BY Zenon DEF R!Cardinality, Cardinality, R!IsFiniteSet, IsFiniteSet
  <2> QED
    BY <2>1 DEF R!LatestPending
<1>1. ~ Advancing /\ ~ Swapped /\ pipe_pc["app"] = "idle"
  BY DEF R!Quiet, Advancing, Swapped, R!Threads
<1>2. /\ PipeSize \in Nat \ {0} /\ pipe_elements \in 0 .. PipeSize /\ last \in Nat
      /\ pipe_read_index \in 0 .. PipeSize - 1
      /\ \A k \in 1 .. pipe_elements : pipe[SlotAt(k - 1)] = Removed + k
  BY <1>1 DEF SettingsInv, Places, RingOrder, SettingsAssumption,
              R!RuntimeSettingsAssumption, R!Slots
<1>3. First = pipe_read_index /\ Removed = last - pipe_elements /\ Finished = Removed
  BY <1>1 DEF First, Removed, Inserted, Finished
<1>4. ASSUME NEW k \in 1 .. pipe_elements
      PROVE  (pipe_read_index + k - 1) % PipeSize = SlotAt(k - 1)
  <2>1. ASSUME NEW x \in 0 .. 2 * PipeSize - 1 PROVE x % PipeSize = Wrap(x)
    BY <1>2 DEF Wrap
  <2>2. /\ pipe_read_index + k - 1 \in 0 .. 2 * PipeSize - 1
        /\ pipe_read_index + k - 1 = First + (k - 1)
    BY <1>2, <1>3
  <2> QED
    BY <2>1, <2>2 DEF SlotAt
<1>5. R!Pending = [k \in 1 .. pipe_elements |-> last - pipe_elements + k]
  BY <1>2, <1>3, <1>4, Zenon DEF R!Pending
<1>6. /\ handled \in Seq(1 .. Finished) /\ discarded \subseteq 1 .. Finished
      /\ \A k \in 1 .. Len(handled) : handled[k] \notin discarded
      /\ Len(handled) + Cardinality(discarded) = Finished
  BY DEF SettingsInv, Accounted
<1>7. {handled[k] : k \in DOMAIN handled} \cap discarded = {}
  BY <1>6
<1>8. Len(handled) + Cardinality(discarded) + pipe_elements = last
  BY <1>2, <1>3, <1>6
<1> QED
  BY <1>5, <1>7, <1>8

(* Between two calls every setting is handled, discarded or pending, exactly *)
(* once, and the pending ones are the latest, for every size of the queue    *)
(* and however often Enqueue() finds it full, as long as it never discards   *)
(* while the capture thread is inside HandleCaptureRuntimeSettings().        *)
THEOREM LatestSettingsPending ==
  ASSUME ~ Overlap
  PROVE  R!Spec => []LatestPending
<1>1. SettingsAssumption
  BY UsersAssumption DEF SettingsAssumption
<1>2. R!Init => SettingsInv
  BY <1>1, SettingsInit
<1>3. SettingsInv /\ [R!Next]_R!vars => SettingsInv'
  BY <1>1, SettingsStep DEF R!vars, pipeVars
<1>4. SettingsInv => LatestPending
  BY <1>1, SettingsQuiet DEF LatestPending
<1> QED
  BY <1>2, <1>3, <1>4, PTL DEF R!Spec
===============================================================================
