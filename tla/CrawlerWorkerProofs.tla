------------------------- MODULE CrawlerWorkerProofs -------------------------
(***************************************************************************)
(* Safety of the frontier and of a crawl job for every web, capacity,      *)
(* depth, budget and number of API threads.                                *)
(*                                                                         *)
(* First CrawlerQueue alone.  QInv, the conjunction of its invariants, is  *)
(* inductive: capacity needs the type of deque, the suffix property needs  *)
(* the lengths of deque and admitted, and at-most-once needs seen_hashes   *)
(* to be the URLs of admitted.                                             *)
(*                                                                         *)
(* Then the worker, which carries QInv along.  None of its properties is   *)
(* inductive.  The budget needs that the check precedes the pop            *)
(* (BudgetChecked); breadth-first order needs that the entry taken last    *)
(* lies between what is pending and what was admitted (Frontline) and that *)
(* pending entries carry their explanation (AllExplained); the halt needs  *)
(* where the worker was when it came (HaltInv); the shortcut needs the sum *)
(* of crawled, taken and pending entries (ShortcutBudget).                 *)
(***************************************************************************)
EXTENDS CrawlerWorker, TLAPS

QInv ==
    /\ QTypeOK
    /\ CapacityRespected
    /\ PendingIsNewestSuffix
    /\ AdmittedAtMostOnce
    /\ EntriesAccountedFor

\* Removing the head of a pending queue keeps it a suffix of what was admitted.
LEMMA TailKeepsSuffix ==
    ASSUME QTypeOK, PendingIsNewestSuffix, deque # <<>>
    PROVE  /\ Tail(deque) \in Seq(Entry)
           /\ Len(Tail(deque)) = Len(deque) - 1
           /\ Len(deque) >= 1
           /\ \A i \in 1 .. Len(Tail(deque)) :
                  Tail(deque)[i] =
                      admitted[Len(admitted) - Len(Tail(deque)) + i]
<1>1. deque \in Seq(Entry) /\ admitted \in Seq(Entry)
  BY DEF QTypeOK
<1>2. /\ Tail(deque) \in Seq(Entry)
      /\ Len(Tail(deque)) = Len(deque) - 1
      /\ Len(deque) >= 1
  BY <1>1
<1>3. ASSUME NEW i \in 1 .. Len(Tail(deque))
      PROVE  Tail(deque)[i] = admitted[Len(admitted) - Len(Tail(deque)) + i]
  <2>1. Tail(deque)[i] = deque[i + 1] /\ i + 1 \in 1 .. Len(deque)
    BY <1>1, <1>2
  <2>2. deque[i + 1] = admitted[Len(admitted) - Len(deque) + (i + 1)]
    BY <2>1 DEF PendingIsNewestSuffix
  <2>3. Len(admitted) - Len(deque) + (i + 1) = Len(admitted) - Len(Tail(deque)) + i
    BY <1>1, <1>2
  <2> QED
    BY <2>1, <2>2, <2>3
<1> QED
  BY <1>2, <1>3

\* The invariant holds initially.
LEMMA QInvInit == QInit => QInv
BY MaxCapacityAssumption
   DEF QInit, QInv, QTypeOK, CapacityRespected, PendingIsNewestSuffix,
       AdmittedAtMostOnce, EntriesAccountedFor

\* An accepted push, with or without eviction, keeps the invariant.
LEMMA QInvPush ==
    ASSUME QInv, NEW u \in Urls, NEW d \in Int, PushAccepted(u, d)
    PROVE  QInv'
<1> DEFINE entry == [url |-> u, depth |-> d]
           kept  == IF Full THEN Tail(deque) ELSE deque
<1>1. /\ deque \in Seq(Entry)
      /\ admitted \in Seq(Entry)
      /\ MaxCapacity \in Nat \ {0}
      /\ Len(deque) \in Nat
      /\ Len(deque) <= MaxCapacity
      /\ Len(deque) <= Len(admitted)
  BY MaxCapacityAssumption DEF QInv, QTypeOK, CapacityRespected, PendingIsNewestSuffix
<1>2. d \in Nat /\ entry \in Entry
  BY DEF PushAccepted, DepthAccepted, Entry
<1>3. /\ deque' = Append(kept, entry)
      /\ admitted' = Append(admitted, entry)
  BY DEF PushAccepted
<1>4. Full => deque # <<>>
  BY <1>1 DEF Full
<1>5. /\ kept \in Seq(Entry)
      /\ Len(kept) = (IF Full THEN Len(deque) - 1 ELSE Len(deque))
      /\ Len(kept) \in Nat
      /\ Len(kept) < MaxCapacity
      /\ Len(kept) <= Len(admitted)
  <2>1. CASE Full
    BY <2>1, <1>1, <1>4, TailKeepsSuffix DEF QInv, Full
  <2>2. CASE ~Full
    BY <2>2, <1>1 DEF Full
  <2> QED
    BY <2>1, <2>2
<1>6. \A i \in 1 .. Len(kept) : kept[i] = admitted[Len(admitted) - Len(kept) + i]
  <2>1. CASE Full
    BY <2>1, <1>4, TailKeepsSuffix DEF QInv
  <2>2. CASE ~Full
    BY <2>2 DEF QInv, PendingIsNewestSuffix
  <2> QED
    BY <2>1, <2>2
<1>7. /\ deque' \in Seq(Entry)
      /\ admitted' \in Seq(Entry)
      /\ Len(deque') = Len(kept) + 1
      /\ Len(admitted') = Len(admitted) + 1
  <2> HIDE DEF kept, entry
  <2> QED
    BY <1>1, <1>2, <1>3, <1>5
<1>8. QTypeOK'
  BY <1>7 DEF QInv, QTypeOK, PushAccepted, SeenAfter
<1>9. CapacityRespected'
  <2> HIDE DEF kept
  <2> QED
    BY <1>1, <1>5, <1>7 DEF CapacityRespected
<1>10. PendingIsNewestSuffix'
  <2>1. ASSUME NEW i \in 1 .. Len(deque')
        PROVE  deque'[i] = admitted'[Len(admitted') - Len(deque') + i]
    <3> HIDE DEF kept, entry
    <3>1. CASE i = Len(kept) + 1
      <4>1. deque'[Len(kept) + 1] = entry
        BY <1>2, <1>3, <1>5
      <4>2. admitted'[Len(admitted) + 1] = entry
        BY <1>1, <1>2, <1>3
      <4>3. Len(admitted') - Len(deque') + i = Len(admitted) + 1
        <5>1. Len(kept) \in Nat /\ Len(admitted) \in Nat
          BY <1>1, <1>5
        <5> QED
          BY <3>1, <5>1, <1>7
      <4> QED
        BY <3>1, <4>1, <4>2, <4>3
    <3>2. CASE i # Len(kept) + 1
      <4>1. i \in 1 .. Len(kept)
        BY <3>2, <1>5, <1>7
      <4>2. deque'[i] = kept[i]
        BY <4>1, <1>2, <1>3, <1>5
      <4>3. Len(admitted) - Len(kept) + i \in 1 .. Len(admitted)
        BY <4>1, <1>1, <1>5
      <4>4. admitted'[Len(admitted) - Len(kept) + i]
               = admitted[Len(admitted) - Len(kept) + i]
        BY <4>3, <1>1, <1>2, <1>3
      <4>5. Len(admitted') - Len(deque') + i = Len(admitted) - Len(kept) + i
        BY <1>1, <1>5, <1>7
      <4> QED
        BY <4>1, <4>2, <4>4, <4>5, <1>6
    <3> QED
      BY <3>1, <3>2
  <2>2. Len(deque') <= Len(admitted')
    <3> HIDE DEF kept
    <3> QED
      BY <1>1, <1>5, <1>7
  <2> QED
    BY <2>1, <2>2 DEF PendingIsNewestSuffix
<1>11. AdmittedAtMostOnce'
  <2>1. \A i \in 1 .. Len(admitted) : admitted'[i] = admitted[i]
    <3> HIDE DEF entry
    <3> QED
      BY <1>1, <1>2, <1>3
  <2>2. admitted'[Len(admitted')].url = u
    BY <1>1, <1>2, <1>3, <1>7
  <2>3. u \notin {admitted[i].url : i \in 1 .. Len(admitted)}
    BY DEF PushAccepted, QInv, AdmittedAtMostOnce
  <2>4. seen_hashes' = {admitted'[i].url : i \in 1 .. Len(admitted')}
    <3>1. 1 .. Len(admitted') = 1 .. Len(admitted) \cup {Len(admitted')}
      BY <1>1, <1>7
    <3> QED
      BY <2>1, <2>2, <3>1 DEF PushAccepted, SeenAfter, QInv, AdmittedAtMostOnce
  <2>5. ASSUME NEW i \in 1 .. Len(admitted'), NEW j \in 1 .. Len(admitted'),
               admitted'[i].url = admitted'[j].url
        PROVE  i = j
    <3>1. \A k \in 1 .. Len(admitted') : k \in 1 .. Len(admitted) \/ k = Len(admitted')
      BY <1>1, <1>7
    <3>2. CASE i \in 1 .. Len(admitted) /\ j \in 1 .. Len(admitted)
      BY <3>2, <2>1, <2>5 DEF QInv, AdmittedAtMostOnce
    <3>3. CASE i \in 1 .. Len(admitted) /\ j = Len(admitted')
      BY <3>3, <2>1, <2>2, <2>3, <2>5
    <3>4. CASE i = Len(admitted') /\ j \in 1 .. Len(admitted)
      BY <3>4, <2>1, <2>2, <2>3, <2>5
    <3> QED
      BY <3>1, <3>2, <3>3, <3>4
  <2> QED
    BY <2>4, <2>5 DEF AdmittedAtMostOnce
<1>12. EntriesAccountedFor'
  <2>1. /\ dropped_total' = (IF Full THEN dropped_total + 1 ELSE dropped_total)
        /\ enqueued_total' = enqueued_total + 1
        /\ popped_total' = popped_total
        /\ discarded' = discarded
    BY DEF PushAccepted
  <2>2. /\ dropped_total \in Nat /\ popped_total \in Nat /\ discarded \in Nat
        /\ enqueued_total \in Nat
        /\ enqueued_total = Len(admitted)
        /\ enqueued_total = Len(deque) + popped_total + dropped_total + discarded
    BY DEF QInv, QTypeOK, EntriesAccountedFor
  <2>3. Len(deque') = (IF Full THEN Len(deque) ELSE Len(deque) + 1)
    <3> HIDE DEF kept
    <3> QED
      BY <1>1, <1>5, <1>7
  <2>4. Len(admitted') = Len(admitted) + 1
    BY <1>7
  <2>5. Len(deque) \in Nat
    BY <1>1
  <2> HIDE DEF kept, entry
  <2>6. enqueued_total' = Len(admitted')
    BY <2>1, <2>2, <2>4
  <2>7. enqueued_total' = Len(deque') + popped_total' + dropped_total' + discarded'
    <3>1. CASE Full
      BY <3>1, <2>1, <2>2, <2>3, <2>5
    <3>2. CASE ~Full
      BY <3>2, <2>1, <2>2, <2>3, <2>5
    <3> QED
      BY <3>1, <3>2
  <2> QED
    BY <2>6, <2>7 DEF EntriesAccountedFor
<1> QED
  BY <1>8, <1>9, <1>10, <1>11, <1>12 DEF QInv

\* Taking the head keeps the invariant.
LEMMA QInvPop == ASSUME QInv, Pop PROVE QInv'
<1>1. /\ deque \in Seq(Entry)
      /\ admitted \in Seq(Entry)
      /\ deque # <<>>
      /\ deque' = Tail(deque)
      /\ admitted' = admitted
      /\ popped_total' = popped_total + 1
      /\ UNCHANGED <<seen_hashes, enqueued_total, dropped_total, discarded>>
  BY DEF Pop, QInv, QTypeOK
<1>2. /\ deque' \in Seq(Entry)
      /\ Len(deque') = Len(deque) - 1
      /\ Len(deque) >= 1
      /\ \A i \in 1 .. Len(deque') :
             deque'[i] = admitted'[Len(admitted') - Len(deque') + i]
  BY <1>1, TailKeepsSuffix DEF QInv
<1>3. QTypeOK'
  BY <1>1, <1>2 DEF QInv, QTypeOK
<1>4. CapacityRespected'
  BY <1>1, <1>2, MaxCapacityAssumption DEF QInv, CapacityRespected
<1>5. PendingIsNewestSuffix'
  BY <1>1, <1>2 DEF QInv, PendingIsNewestSuffix
<1>6. AdmittedAtMostOnce'
  BY <1>1 DEF QInv, AdmittedAtMostOnce
<1>7. EntriesAccountedFor'
  <2>1. enqueued_total' = Len(admitted')
    BY <1>1 DEF QInv, EntriesAccountedFor
  <2>2. enqueued_total' = Len(deque') + popped_total' + dropped_total' + discarded'
    BY <1>1, <1>2 DEF QInv, QTypeOK, EntriesAccountedFor
  <2> QED
    BY <2>1, <2>2 DEF EntriesAccountedFor
<1> QED
  BY <1>3, <1>4, <1>5, <1>6, <1>7 DEF QInv

\* Discarding everything keeps the invariant.
LEMMA QInvClear == ASSUME QInv, Clear PROVE QInv'
<1>1. /\ deque' = <<>>
      /\ Len(deque') = 0
      /\ discarded' = discarded + Len(deque)
      /\ Len(deque) \in Nat
      /\ UNCHANGED <<seen_hashes, enqueued_total, dropped_total, popped_total, admitted>>
  BY DEF Clear, QInv, QTypeOK
<1>2. QTypeOK'
  BY <1>1 DEF QInv, QTypeOK
<1>3. CapacityRespected'
  BY <1>1, MaxCapacityAssumption DEF CapacityRespected
<1>4. PendingIsNewestSuffix'
  BY <1>1 DEF QInv, QTypeOK, PendingIsNewestSuffix
<1>5. AdmittedAtMostOnce'
  BY <1>1 DEF QInv, AdmittedAtMostOnce
<1>6. EntriesAccountedFor'
  <2>1. enqueued_total' = Len(admitted')
    BY <1>1 DEF QInv, EntriesAccountedFor
  <2>2. enqueued_total' = Len(deque') + popped_total' + dropped_total' + discarded'
    BY <1>1 DEF QInv, QTypeOK, EntriesAccountedFor
  <2> QED
    BY <2>1, <2>2 DEF EntriesAccountedFor
<1> QED
  BY <1>2, <1>3, <1>4, <1>5, <1>6 DEF QInv

\* QInv is inductive.
LEMMA QInvNext == QInv /\ [QNext]_qvars => QInv'
<1> SUFFICES ASSUME QInv, [QNext]_qvars PROVE QInv'
  OBVIOUS
<1>1. ASSUME NEW u \in Urls, NEW d \in PushDepths, Push(u, d) PROVE QInv'
  <2>1. CASE PushAccepted(u, d)
    BY <2>1, QInvPush, PushDepthsAssumption
  <2>2. CASE PushRejected(u, d)
    BY <2>2 DEF PushRejected, qvars, QInv, QTypeOK, CapacityRespected,
                PendingIsNewestSuffix, AdmittedAtMostOnce, EntriesAccountedFor
  <2> QED
    BY <1>1, <2>1, <2>2 DEF Push
<1>2. CASE Pop
  BY <1>2, QInvPop
<1>3. CASE Clear
  BY <1>3, QInvClear
<1>4. CASE UNCHANGED qvars
  BY <1>4 DEF qvars, QInv, QTypeOK, CapacityRespected,
              PendingIsNewestSuffix, AdmittedAtMostOnce, EntriesAccountedFor
<1> QED
  BY <1>1, <1>2, <1>3, <1>4 DEF QNext

\* The five properties together are inductive.
THEOREM QInvHolds == QSpec => []QInv
BY QInvInit, QInvNext, PTL DEF QSpec

-----------------------------------------------------------------------------
\* Type correctness of the queue for every set of URLs and every capacity.
THEOREM QueueTypeCorrect == QSpec => []QTypeOK
BY QInvHolds, PTL DEF QInv

\* The ring buffer never exceeds max_capacity.
THEOREM QueueCapacity == QSpec => []CapacityRespected
BY QInvHolds, PTL DEF QInv

\* First-in first-out across evictions: pending is the newest suffix.
THEOREM QueueFifo == QSpec => []PendingIsNewestSuffix
BY QInvHolds, PTL DEF QInv

\* No URL is admitted to a job's frontier twice.
THEOREM QueueAtMostOnce == QSpec => []AdmittedAtMostOnce
BY QInvHolds, PTL DEF QInv

\* The counters account for every admitted entry.
THEOREM QueueAccounting == QSpec => []EntriesAccountedFor
BY QInvHolds, PTL DEF QInv

-----------------------------------------------------------------------------
(* The ring buffer implements the phases of UrlFrontier *)

\* A step evicts exactly when it admits into a full queue, and what it admits
\* is at the tail afterwards.
THEOREM QueueEvictsWhenCritical == QSpec => EvictionOnlyWhenCritical
<1> DEFINE Evicts ==
      /\ dropped_total' # dropped_total
            <=> (enqueued_total' # enqueued_total /\ Status = "Critical")
      /\ enqueued_total' # enqueued_total
            => deque'[Len(deque')] = admitted'[Len(admitted')]
<1>1. QInv /\ QInv' /\ [QNext]_qvars => [Evicts]_qvars
  <2> SUFFICES ASSUME QInv, QInv', QNext PROVE Evicts
    BY DEF qvars
  <2>1. Full <=> Status = "Critical"
    BY DEF Status
  <2>2. dropped_total \in Nat /\ enqueued_total \in Nat
    BY DEF QInv, QTypeOK
  <2>3. ASSUME NEW u \in Urls, NEW d \in PushDepths, PushAccepted(u, d) PROVE Evicts
    <3>1. /\ enqueued_total' # enqueued_total
          /\ dropped_total' # dropped_total <=> Full
      BY <2>2, <2>3 DEF PushAccepted
    <3>2. /\ deque' \in Seq(Entry) /\ admitted' \in Seq(Entry)
          /\ PendingIsNewestSuffix'
      BY DEF QInv, QTypeOK
    <3>3. deque' # <<>>
      BY <2>3 DEF PushAccepted, QInv, QTypeOK
    <3>4. Len(deque') \in 1 .. Len(deque')
      BY <3>2, <3>3
    <3>5. Len(admitted') - Len(deque') + Len(deque') = Len(admitted')
      BY <3>2
    <3> QED
      BY <2>1, <3>1, <3>2, <3>4, <3>5 DEF PendingIsNewestSuffix
  <2>4. ASSUME UNCHANGED <<enqueued_total, dropped_total>> PROVE Evicts
    BY <2>4
  <2> QED
    BY <2>3, <2>4 DEF QNext, Push, PushRejected, qvars, Pop, Clear
<1> QED
  BY <1>1, QInvHolds, PTL DEF QSpec, EvictionOnlyWhenCritical

Pending(u) == \E i \in 1 .. Len(deque) : deque[i].url = u

\* The refinement mapping: where each URL is.
Phases ==
    [u \in Urls |->
        IF \E i \in 1 .. Len(deque) : deque[i].url = u THEN "pending"
        ELSE IF u \in seen_hashes THEN "gone"
        ELSE "new"]

\* What is pending was admitted, and no two pending entries share a URL.
LEMMA PendingFacts ==
    ASSUME QInv
    PROVE  /\ \A u : Pending(u) => u \in seen_hashes /\ u \in Urls
           /\ \A i, j \in 1 .. Len(deque) : deque[i].url = deque[j].url => i = j
<1>1. deque \in Seq(Entry) /\ admitted \in Seq(Entry)
  BY DEF QInv, QTypeOK
<1>2. \A i \in 1 .. Len(deque) :
          /\ Len(admitted) - Len(deque) + i \in 1 .. Len(admitted)
          /\ deque[i] = admitted[Len(admitted) - Len(deque) + i]
  BY <1>1 DEF QInv, PendingIsNewestSuffix
<1>3. ASSUME NEW u, Pending(u) PROVE u \in seen_hashes /\ u \in Urls
  <2>1. PICK i \in 1 .. Len(deque) : deque[i].url = u
    BY <1>3 DEF Pending
  <2>2. u = admitted[Len(admitted) - Len(deque) + i].url
    BY <1>2, <2>1
  <2>3. u \in seen_hashes
    BY <1>2, <2>2 DEF QInv, AdmittedAtMostOnce
  <2> QED
    BY <2>3 DEF QInv, QTypeOK
<1>4. ASSUME NEW i \in 1 .. Len(deque), NEW j \in 1 .. Len(deque),
             deque[i].url = deque[j].url
      PROVE  i = j
  <2>1. Len(admitted) - Len(deque) + i = Len(admitted) - Len(deque) + j
    BY <1>2, <1>4 DEF QInv, AdmittedAtMostOnce
  <2> QED
    BY <1>1, <2>1
<1> QED
  BY <1>3, <1>4

\* Without its head, a pending queue has lost the head's URL and no other.
LEMMA TailPending ==
    ASSUME QInv, deque # <<>>
    PROVE  /\ Head(deque) \in Entry
           /\ Pending(Head(deque).url)
           /\ \A u : (\E i \in 1 .. Len(Tail(deque)) : Tail(deque)[i].url = u)
                        <=> Pending(u) /\ u # Head(deque).url
<1>1. /\ deque \in Seq(Entry)
      /\ Head(deque) = deque[1]
      /\ Head(deque) \in Entry
      /\ 1 \in 1 .. Len(deque)
      /\ Len(Tail(deque)) = Len(deque) - 1
      /\ \A i \in 1 .. Len(Tail(deque)) : Tail(deque)[i] = deque[i + 1]
  BY DEF QInv, QTypeOK
<1>2. Pending(Head(deque).url)
  BY <1>1 DEF Pending
<1>3. ASSUME NEW u, NEW i \in 1 .. Len(Tail(deque)), Tail(deque)[i].url = u
      PROVE  Pending(u) /\ u # Head(deque).url
  <2>1. i + 1 \in 1 .. Len(deque) /\ deque[i + 1].url = u
    BY <1>1, <1>3
  <2> QED
    BY <1>1, <2>1, PendingFacts DEF Pending
<1>4. ASSUME NEW u, Pending(u), u # Head(deque).url
      PROVE  \E i \in 1 .. Len(Tail(deque)) : Tail(deque)[i].url = u
  <2>1. PICK i \in 1 .. Len(deque) : deque[i].url = u
    BY <1>4 DEF Pending
  <2>2. i # 1
    BY <1>1, <1>4, <2>1
  <2>3. i - 1 \in 1 .. Len(Tail(deque)) /\ Tail(deque)[i - 1] = deque[i]
    BY <1>1, <2>1, <2>2
  <2> QED
    BY <2>1, <2>3
<1> QED
  BY <1>1, <1>2, <1>3, <1>4

\* A push admits a new URL, and moves at most the evicted head.
LEMMA PushAdmits ==
    ASSUME QInv, NEW u \in Urls, NEW d \in Int, PushAccepted(u, d)
    PROVE  /\ \A v : Pending(v)' <=>
                          v = u \/ (Pending(v) /\ (Full => v # Head(deque).url))
           /\ Full => Head(deque).url \in Urls /\ Pending(Head(deque).url)
           /\ ~Pending(u)
           /\ u \notin seen_hashes
           /\ seen_hashes' = seen_hashes \cup {u}
<1> DEFINE entry == [url |-> u, depth |-> d]
           kept  == IF Full THEN Tail(deque) ELSE deque
<1>1. /\ deque \in Seq(Entry)
      /\ entry \in Entry
      /\ deque' = Append(kept, entry)
      /\ entry.url = u
  BY DEF QInv, QTypeOK, PushAccepted, DepthAccepted, Entry
<1>2. Full => deque # <<>>
  BY <1>1, MaxCapacityAssumption DEF Full
<1>3. \A v : (\E i \in 1 .. Len(kept) : kept[i].url = v)
                 <=> Pending(v) /\ (Full => v # Head(deque).url)
  BY <1>2, TailPending DEF Pending
<1>4. kept \in Seq(Entry)
  BY <1>1, <1>2
<1>5. /\ Len(deque') = Len(kept) + 1
      /\ \A i \in 1 .. Len(kept) : deque'[i] = kept[i]
      /\ deque'[Len(kept) + 1] = entry
      /\ Len(kept) \in Nat
  <2> HIDE DEF kept, entry
  <2> QED
    BY <1>1, <1>4
<1>6. \A v : Pending(v)' <=> v = u \/ \E i \in 1 .. Len(kept) : kept[i].url = v
  <2> HIDE DEF kept, entry
  <2>1. 1 .. Len(deque') = (1 .. Len(kept)) \cup {Len(kept) + 1}
    BY <1>5
  <2> QED
    BY <1>1, <1>5, <2>1 DEF Pending
<1>7. Full => Head(deque).url \in Urls /\ Pending(Head(deque).url)
  BY <1>2, TailPending, PendingFacts
<1>8. /\ u \notin seen_hashes
      /\ seen_hashes' = seen_hashes \cup {u}
      /\ ~Pending(u)
  BY PendingFacts DEF PushAccepted, SeenAfter
<1> HIDE DEF kept, entry
<1> QED
  BY <1>3, <1>6, <1>7, <1>8

\* queue.py: eviction, pop and clear give a URL up for good, a push admits only
\* what is new; so each URL is new, then pending once, then gone.
THEOREM QueueImplementsFrontier == QSpec => ImplementsFrontier
<1>1. QInit => Frontier!FInit
  BY DEF QInit, Frontier!FInit
<1>2. QInv /\ QInv' /\ [QNext]_qvars => [Frontier!FNext]_Phases
  <2> SUFFICES ASSUME QInv, QInv', [QNext]_qvars PROVE [Frontier!FNext]_Phases
    OBVIOUS
  <2>1. /\ Phases = [v \in Urls |-> IF Pending(v) THEN "pending"
                                    ELSE IF v \in seen_hashes THEN "gone" ELSE "new"]
        /\ Phases' = [v \in Urls |-> IF Pending(v)' THEN "pending"
                                     ELSE IF v \in seen_hashes' THEN "gone" ELSE "new"]
    BY DEF Phases, Pending
  <2>2. ASSUME NEW u \in Urls, NEW d \in PushDepths, PushAccepted(u, d)
        PROVE  Frontier!Admit(u)
    <3> DEFINE h == Head(deque).url
    <3>1. Phases[u] = "new"
      BY <2>1, <2>2, PushAdmits, PushDepthsAssumption
    <3>2. CASE ~Full
      <4>1. Phases' = [Phases EXCEPT ![u] = "pending"]
        BY <2>1, <2>2, <3>2, PushAdmits, PushDepthsAssumption
      <4> QED
        BY <3>1, <4>1 DEF Frontier!Admit, Phases
    <3>3. CASE Full
      <4>1. /\ h \in Urls /\ Pending(h) /\ h # u
            /\ \A v : Pending(v)' <=> v = u \/ (Pending(v) /\ v # h)
            /\ h \in seen_hashes'
            /\ seen_hashes' = seen_hashes \cup {u}
        BY <2>2, <3>3, PushAdmits, PendingFacts, PushDepthsAssumption
      <4> HIDE DEF h
      <4>2. Phases' = [Phases EXCEPT ![u] = "pending", ![h] = "gone"]
        BY <2>1, <4>1
      <4>3. Phases[h] = "pending"
        BY <2>1, <4>1
      <4> QED
        BY <3>1, <4>1, <4>2, <4>3 DEF Frontier!Admit, Phases
    <3> QED
      BY <3>2, <3>3
  <2>3. CASE Pop
    <3> DEFINE h == Head(deque).url
    <3>1. /\ h \in Urls /\ Pending(h) /\ h \in seen_hashes
          /\ \A v : Pending(v)' <=> Pending(v) /\ v # h
          /\ seen_hashes' = seen_hashes
      BY <2>3, TailPending, PendingFacts DEF Pop, Pending
    <3> HIDE DEF h
    <3>2. Phases' = [Phases EXCEPT ![h] = "gone"] /\ Phases[h] = "pending"
      BY <2>1, <3>1
    <3> QED
      BY <3>1, <3>2 DEF Frontier!FNext, Frontier!Take, Phases
  <2>4. CASE Clear
    <3>1. /\ \A v : ~Pending(v)'
          /\ \A v : Pending(v) => v \in seen_hashes
          /\ seen_hashes' = seen_hashes
      BY <2>4, PendingFacts DEF Clear, Pending
    <3>2. Phases' = [v \in Urls |-> IF Phases[v] = "pending" THEN "gone" ELSE Phases[v]]
      BY <2>1, <3>1
    <3> QED
      BY <3>2 DEF Frontier!FNext, Frontier!GiveUp, Phases
  <2>5. CASE UNCHANGED qvars
    BY <2>5 DEF qvars, Phases
  <2>6. ASSUME NEW u \in Urls, NEW d \in PushDepths, PushRejected(u, d)
        PROVE  UNCHANGED Phases
    BY <2>6 DEF PushRejected, qvars, Phases
  <2> QED
    BY <2>2, <2>3, <2>4, <2>5, <2>6 DEF QNext, Push, Frontier!FNext
<1> QED
  BY <1>1, <1>2, QInvHolds, PTL DEF QSpec, ImplementsFrontier, Frontier!FSpec, Phases

-----------------------------------------------------------------------------
(* The worker *)

\* 1 while an entry is popped and neither crawled nor given up, else 0.
InFetch == IF pc = "fetch" THEN 1 ELSE 0

\* The label is set before the loop starts, and "completed" is set by the end only.
LabelOfPhase == pc # "idle" => status_label # "idle"

\* The budget is checked before each pop.
BudgetChecked == pc = "fetch" => crawled_count < MaxUrls

Links(u) == {links[u][k] : k \in 1 .. Len(links[u])}

\* What is being expanded is the page crawled last, and what remains to be pushed
\* are links of it.
Expanding ==
    /\ pc \in {"expand", "pushing"} => Len(pages) > 0 /\ pages[Len(pages)] = item
    /\ pc = "pushing" =>
           /\ item.depth < MaxDepth
           /\ \A k \in 1 .. Len(remaining) : remaining[k] \in Links(item.url)

\* The entry taken last is on the edge between two depths.
Frontline ==
    /\ pc \in {"idle", "seeding"} =>
           admitted = <<>> /\ deque = <<>> /\ pages = <<>> /\ poppedHalted = 0
           /\ item = [url |-> seed, depth |-> 0]
    /\ item.depth <= MaxDepth
    /\ \A i \in 1 .. Len(deque) : item.depth <= deque[i].depth
    /\ \A i \in 1 .. Len(admitted) :
           admitted[i].depth <= item.depth + 1 /\ admitted[i].depth <= MaxDepth

Sorted ==
    \A i, j \in 1 .. Len(admitted) : i < j => admitted[i].depth <= admitted[j].depth

\* In web ls, e is the seed s, or one of the first n of the pages ps links to it from
\* the depth above.
Explained(e, s, ls, ps, n) ==
    IF e.depth = 0 THEN e.url = s
    ELSE \E j \in 1 .. n :
            /\ ps[j].depth = e.depth - 1
            /\ \E k \in 1 .. Len(ls[ps[j].url]) : ls[ps[j].url][k] = e.url

AllExplained ==
    /\ \A i \in 1 .. Len(pages) : Explained(pages[i], seed, links, pages, i - 1)
    /\ \A i \in 1 .. Len(deque) : Explained(deque[i], seed, links, pages, Len(pages))
    /\ pc = "fetch" => Explained(item, seed, links, pages, Len(pages))

\* An entry is popped under a halt only by a worker that was past its checks when
\* the halt came.
HaltInv ==
    /\ HaltTakesAtMostOne
    /\ (pc = "take" /\ Halted) => poppedHalted = 0
    /\ (pc = "checkPause" /\ stop_event) => poppedHalted = 0

\* The links of page i are looked at, or will be by the loop over `remaining`.
LinksSeen(i) ==
    \/ pc = "expand" /\ i = Len(pages)
    \/ \A u \in ExpectedChildren(pages[i]) :
          \/ u \in seen_hashes
          \/ /\ pc = "pushing" /\ i = Len(pages)
             /\ \E k \in 1 .. Len(remaining) : remaining[k] = u

\* While everything popped has been crawled, either the links of every page are seen or
\* the pages crawled and pending fill the budget.
ShortcutBudget ==
    /\ popped_total >= Len(pages) + InFetch
    /\ (~crashed /\ popped_total = Len(pages) + InFetch) =>
           \/ crawled_count + Len(deque) + InFetch >= MaxUrls
           \/ \A i \in 1 .. Len(pages) : LinksSeen(i)

\* The loop ends of itself only over an empty frontier, and only the end of the job
\* sets the label "completed".
ShortcutEnd ==
    /\ (pc = "finalize" /\ ~crashed) => stop_event \/ deque = <<>>
    /\ (pc \in {"archive", "done"} /\ ~crashed /\ status_label = "completed") => deque = <<>>
    /\ status_label = "completed" => pc \in {"archive", "done"}

WInv ==
    /\ TypeOK /\ QInv /\ LabelOfPhase
    /\ BudgetRespected /\ BudgetChecked
    /\ Expanding /\ Frontline /\ Sorted /\ AllExplained
    /\ HaltInv /\ ShortcutBudget /\ ShortcutEnd

-----------------------------------------------------------------------------
(* The frontier under the worker's operations *)

\* What a push does to the entries, whatever it returns.
LEMMA PushEffect ==
    ASSUME QInv, NEW u \in Urls, NEW d \in Nat, Push(u, d)
    PROVE  /\ QInv'
           /\ u \in seen_hashes' /\ seen_hashes \subseteq seen_hashes'
           /\ popped_total' = popped_total
           /\ Len(deque') >= Len(deque)
           /\ \A i \in 1 .. Len(deque') :
                  \/ deque'[i] = [url |-> u, depth |-> d]
                  \/ \E j \in 1 .. Len(deque) : deque'[i] = deque[j]
           /\ \/ admitted' = admitted
              \/ /\ Len(admitted') = Len(admitted) + 1
                 /\ admitted'[Len(admitted')] = [url |-> u, depth |-> d]
                 /\ \A i \in 1 .. Len(admitted) : admitted'[i] = admitted[i]
<1>1. deque \in Seq(Entry) /\ admitted \in Seq(Entry) /\ [url |-> u, depth |-> d] \in Entry
  BY DEF QInv, QTypeOK, Entry
<1>2. CASE PushRejected(u, d)
  <2>1. QInv'
    BY <1>2, QInvNext DEF PushRejected
  <2> QED
    BY <1>1, <1>2, <2>1 DEF PushRejected, qvars, DepthAccepted
<1>3. CASE PushAccepted(u, d)
  <2> DEFINE entry == [url |-> u, depth |-> d]
             kept  == IF Full THEN Tail(deque) ELSE deque
  <2>1. QInv'
    BY <1>3, QInvPush
  <2>2. /\ deque' = Append(kept, entry)
        /\ admitted' = Append(admitted, entry)
        /\ seen_hashes' = seen_hashes \cup {u}
        /\ popped_total' = popped_total
    BY <1>3 DEF PushAccepted, SeenAfter
  <2>3. /\ kept \in Seq(Entry)
        /\ Len(kept) >= Len(deque) - 1
        /\ \A i \in 1 .. Len(kept) : \E j \in 1 .. Len(deque) : kept[i] = deque[j]
    <3>1. CASE Full
      <4>1. deque # <<>>
        BY <1>1, <3>1, MaxCapacityAssumption DEF Full
      <4>2. /\ Tail(deque) \in Seq(Entry)
            /\ Len(Tail(deque)) = Len(deque) - 1
            /\ \A i \in 1 .. Len(Tail(deque)) :
                   i + 1 \in 1 .. Len(deque) /\ Tail(deque)[i] = deque[i + 1]
        BY <1>1, <4>1
      <4> QED
        BY <1>1, <3>1, <4>2
    <3>2. CASE ~Full
      BY <1>1, <3>2
    <3> QED
      BY <3>1, <3>2
  <2> HIDE DEF kept, entry
  <2>4. /\ Len(deque') = Len(kept) + 1
        /\ \A i \in 1 .. Len(kept) : deque'[i] = kept[i]
        /\ deque'[Len(kept) + 1] = entry
        /\ Len(admitted') = Len(admitted) + 1
        /\ \A i \in 1 .. Len(admitted) : admitted'[i] = admitted[i]
        /\ admitted'[Len(admitted) + 1] = entry
        /\ Len(kept) \in Nat
    BY <1>1, <2>2, <2>3 DEF entry
  <2>5. \A i \in 1 .. Len(deque') : i \in 1 .. Len(kept) \/ i = Len(kept) + 1
    BY <2>4
  <2>6. \A i \in 1 .. Len(deque') : \/ deque'[i] = entry
                                   \/ \E j \in 1 .. Len(deque) : deque'[i] = deque[j]
    BY <2>3, <2>4, <2>5
  <2>7. Len(deque') >= Len(deque)
    BY <1>1, <2>3, <2>4
  <2> QED
    BY <2>1, <2>2, <2>4, <2>6, <2>7 DEF entry
<1> QED
  BY <1>2, <1>3 DEF Push

\* What a pop does.
LEMMA PopEffect ==
    ASSUME QInv, Pop
    PROVE  /\ QInv'
           /\ deque[1] = Head(deque) /\ Head(deque) \in Entry
           /\ Len(deque) >= 1
           /\ Len(deque') = Len(deque) - 1
           /\ \A i \in 1 .. Len(deque') :
                  i + 1 \in 1 .. Len(deque) /\ deque'[i] = deque[i + 1]
           /\ popped_total' = popped_total + 1
           /\ UNCHANGED <<seen_hashes, admitted>>
<1>1. deque \in Seq(Entry) /\ deque # <<>> /\ deque' = Tail(deque)
  BY DEF QInv, QTypeOK, Pop
<1>2. /\ deque[1] = Head(deque) /\ Head(deque) \in Entry
      /\ Len(deque) >= 1
      /\ Len(deque') = Len(deque) - 1
      /\ \A i \in 1 .. Len(deque') :
             i + 1 \in 1 .. Len(deque) /\ deque'[i] = deque[i + 1]
  BY <1>1
<1> QED
  BY <1>2, QInvPop DEF Pop

\* In the composition every operation of the queue is one of QNext's.
LEMMA FrontierInv == ASSUME WInv, [Next]_vars PROVE QInv'
<1>1. CASE UNCHANGED qvars
  BY <1>1, QInvNext DEF WInv
<1>2. CASE SeedFrontier
  <2>1. seed \in Urls
    BY SeedsAssumption DEF WInv, TypeOK
  <2> QED
    BY <1>1, <1>2, <2>1, PushEffect DEF SeedFrontier, WInv
<1>3. CASE BudgetReached
  BY <1>3, QInvClear DEF BudgetReached, WInv
<1>4. CASE TakeItem
  BY <1>4, PopEffect DEF TakeItem, WInv
<1>5. CASE PushChild
  <2>1. remaining # <<>> => Head(remaining) \in Urls
    BY DEF WInv, TypeOK
  <2>2. ChildDepth \in Nat
    BY DEF WInv, TypeOK, ChildDepth, Entry
  <2> QED
    BY <1>1, <1>5, <2>1, <2>2, PushEffect DEF PushChild, WInv
<1>6. ASSUME NEW c \in Clients, Api(c) PROVE UNCHANGED qvars
  BY <1>6 DEF Api, PauseCheck, PauseClear, PauseLabel, ResumeCheck, ResumeSet, ResumeLabel,
              StopSet, StopRelease, Call
<1>7. CASE \/ Run \/ CheckStop \/ CheckPause \/ FrontierEmpty \/ Backoff \/ SkipItem
           \/ FetchFails \/ CrawlPage \/ Expand \/ ChildrenDone \/ LoopCrashes
           \/ Finalize \/ Archive
  BY <1>1, <1>7 DEF Run, CheckStop, CheckPause, FrontierEmpty, Backoff, SkipItem, FetchFails,
                    CrawlPage, Expand, ChildrenDone, LoopCrashes, Finalize, Archive
<1> QED
  BY <1>1, <1>2, <1>3, <1>4, <1>5, <1>6, <1>7 DEF Next, Worker, vars

-----------------------------------------------------------------------------
(* Types, the budget and the label *)

LEMMA TypesInv == ASSUME WInv, [Next]_vars PROVE TypeOK' /\ LabelOfPhase'
<1> USE DEF WInv, TypeOK, LabelOfPhase
<1>1. QTypeOK'
  BY FrontierInv DEF QInv
<1>2. ASSUME NEW u \in Urls PROVE links[u] \in Seq(Urls)
  BY LinkMapsAssumption
<1>3. CASE UNCHANGED vars
  BY <1>1, <1>3 DEF vars, control, loopvars, flags
<1>4. CASE TakeItem
  BY <1>1, <1>4, PopEffect DEF TakeItem, Step, control, flags
<1>5. CASE CrawlPage
  <2>1. pages' \in Seq(Entry)
    BY <1>5 DEF CrawlPage
  <2> QED
    BY <1>1, <1>5, <2>1 DEF CrawlPage, Step, control, flags
<1>6. CASE Expand
  <2>1. remaining' \in Seq(Urls)
    BY <1>2, <1>6 DEF Expand, Entry
  <2> QED
    BY <1>1, <1>6, <2>1 DEF Expand, control, flags
<1>7. CASE PushChild
  <2>1. remaining' \in Seq(Urls)
    BY <1>7 DEF PushChild
  <2> QED
    BY <1>1, <1>7, <2>1 DEF PushChild, control, flags
<1>8. CASE Run \/ SeedFrontier \/ CheckStop \/ CheckPause \/ BudgetReached
  BY <1>1, <1>8 DEF Run, SeedFrontier, CheckStop, CheckPause, BudgetReached, Step, control,
                    loopvars, flags
<1>9. CASE FrontierEmpty \/ Backoff \/ SkipItem \/ FetchFails \/ ChildrenDone
  BY <1>1, <1>9 DEF FrontierEmpty, Backoff, SkipItem, FetchFails, ChildrenDone, Step, control,
                    loopvars, flags
<1>10. CASE LoopCrashes \/ Finalize \/ Archive
  BY <1>1, <1>10 DEF LoopCrashes, Finalize, Archive, Step, control, loopvars, flags
<1>11. ASSUME NEW c \in Clients, Api(c) PROVE TypeOK' /\ LabelOfPhase'
  <2>1. /\ UNCHANGED <<qvars, seed, links, loopvars, pc, archived>>
        /\ apc' \in [Clients -> {"ready", "pauseClear", "pauseLabel", "resumeSet",
                                 "resumeLabel", "stopRelease"}]
    BY <1>11 DEF Api, PauseCheck, PauseClear, PauseLabel, ResumeCheck, ResumeSet, ResumeLabel,
                 StopSet, StopRelease, Call
  <2>2. /\ stop_event' \in BOOLEAN /\ pause_event' \in BOOLEAN
        /\ poppedHalted' \in Nat
        /\ status_label' \in {status_label, "paused", "running"}
    <3>1. stop_event' \in BOOLEAN
      BY <1>11 DEF Api, PauseCheck, PauseClear, PauseLabel, ResumeCheck, ResumeSet,
                   ResumeLabel, StopSet, StopRelease
    <3>2. pause_event' \in BOOLEAN
      BY <1>11 DEF Api, PauseCheck, PauseClear, PauseLabel, ResumeCheck, ResumeSet,
                   ResumeLabel, StopSet, StopRelease
    <3>3. poppedHalted' \in Nat
      BY <1>11 DEF Api, PauseCheck, PauseClear, PauseLabel, ResumeCheck, ResumeSet,
                   ResumeLabel, StopSet, StopRelease
    <3>4. status_label' \in {status_label, "paused", "running"}
      BY <1>11 DEF Api, PauseCheck, PauseClear, PauseLabel, ResumeCheck, ResumeSet,
                   ResumeLabel, StopSet, StopRelease
    <3> QED
      BY <3>1, <3>2, <3>3, <3>4
  <2> QED
    BY <1>1, <2>1, <2>2 DEF loopvars
<1> QED
  BY <1>3, <1>4, <1>5, <1>6, <1>7, <1>8, <1>9, <1>10, <1>11 DEF Next, Worker

\* A page is counted only after the pop that found the budget unspent.
LEMMA BudgetInv == ASSUME WInv, [Next]_vars PROVE BudgetRespected' /\ BudgetChecked'
<1> USE DEF WInv, TypeOK, BudgetRespected, BudgetChecked
<1>1. CASE CrawlPage
  <2>1. Len(pages') = Len(pages) + 1 /\ crawled_count' = crawled_count + 1
    BY <1>1 DEF CrawlPage
  <2> QED
    BY <1>1, <2>1, MaxUrlsAssumption DEF CrawlPage, Step
<1>2. CASE TakeItem
  BY <1>2, MaxUrlsAssumption DEF TakeItem, OutOfBudget
<1>3. ASSUME UNCHANGED <<crawled_count, pages>>, pc' # "fetch" \/ pc' = pc
      PROVE  BudgetRespected' /\ BudgetChecked'
  BY <1>3
<1>4. CASE UNCHANGED vars
  BY <1>3, <1>4 DEF vars, loopvars
<1>5. CASE Run \/ SeedFrontier \/ CheckStop \/ CheckPause \/ BudgetReached
  BY <1>3, <1>5 DEF Run, SeedFrontier, CheckStop, CheckPause, BudgetReached, Step, loopvars
<1>6. CASE FrontierEmpty \/ Backoff \/ SkipItem \/ FetchFails \/ ChildrenDone
  BY <1>3, <1>6 DEF FrontierEmpty, Backoff, SkipItem, FetchFails, ChildrenDone, Step, loopvars
<1>7. CASE Expand \/ PushChild \/ LoopCrashes \/ Finalize \/ Archive
  BY <1>3, <1>7 DEF Expand, PushChild, LoopCrashes, Finalize, Archive, Step, loopvars
<1>8. ASSUME NEW c \in Clients, Api(c) PROVE BudgetRespected' /\ BudgetChecked'
  BY <1>3, <1>8 DEF Api, PauseCheck, PauseClear, PauseLabel, ResumeCheck, ResumeSet,
                    ResumeLabel, StopSet, StopRelease, Call, loopvars
<1> QED
  BY <1>1, <1>2, <1>4, <1>5, <1>6, <1>7, <1>8 DEF Next, Worker

\* pause(), resume() and stop() may come between any two steps of the worker.
LEMMA HaltStep == ASSUME WInv, [Next]_vars PROVE HaltInv'
<1> USE DEF WInv, TypeOK, HaltInv, HaltTakesAtMostOne, Halted
<1>1. CASE TakeItem
  BY <1>1 DEF TakeItem, Step, flags
<1>2. CASE CheckStop \/ CheckPause
  BY <1>2 DEF CheckStop, CheckPause, flags
<1>3. CASE SeedFrontier
  BY <1>3 DEF SeedFrontier, Step, Frontline
<1>4. ASSUME UNCHANGED <<stop_event, pause_event, poppedHalted>>,
             pc' \notin {"take", "checkPause"} \/ pc' = pc
      PROVE  HaltInv'
  BY <1>4
<1>5. CASE UNCHANGED vars
  BY <1>4, <1>5 DEF vars, flags
<1>6. CASE Run \/ BudgetReached \/ FrontierEmpty \/ Backoff \/ SkipItem \/ FetchFails
  BY <1>4, <1>6 DEF Run, BudgetReached, FrontierEmpty, Backoff, SkipItem, FetchFails, Step, flags
<1>7. CASE CrawlPage \/ Expand \/ PushChild \/ ChildrenDone
  BY <1>4, <1>7 DEF CrawlPage, Expand, PushChild, ChildrenDone, Step, flags
<1>8. CASE LoopCrashes \/ Finalize \/ Archive
  BY <1>4, <1>8 DEF LoopCrashes, Finalize, Archive, Step, flags
<1>9. ASSUME NEW c \in Clients, Api(c) PROVE HaltInv'
  BY <1>9 DEF Api, PauseCheck, PauseClear, PauseLabel, ResumeCheck, ResumeSet,
              ResumeLabel, StopSet, StopRelease, Call
<1> QED
  BY <1>1, <1>2, <1>3, <1>5, <1>6, <1>7, <1>8, <1>9 DEF Next, Worker

-----------------------------------------------------------------------------
(* Breadth-first order *)

\* The steps that touch neither the frontier nor the pages, and do not lead into one
\* of the phases in which the entry taken last matters.
Aside ==
    /\ UNCHANGED <<qvars, item, remaining, pages, crawled_count, seed, links>>
    /\ \/ pc' = pc
       \/ pc' \notin {"idle", "seeding", "fetch", "expand", "pushing"}
       \/ pc = "idle" /\ pc' = "seeding" /\ UNCHANGED poppedHalted
    /\ pc' \in {"idle", "seeding"} => UNCHANGED poppedHalted

\* Every step is one of these.
LEMMA StepKinds ==
    ASSUME WInv, [Next]_vars
    PROVE  \/ Aside
           \/ SeedFrontier \/ BudgetReached \/ TakeItem
           \/ CrawlPage \/ Expand \/ PushChild
<1>1. CASE UNCHANGED vars
  BY <1>1 DEF vars, control, loopvars, Aside
<1>2. CASE Run \/ CheckStop \/ CheckPause \/ FrontierEmpty \/ Backoff \/ SkipItem
  BY <1>2 DEF Run, CheckStop, CheckPause, FrontierEmpty, Backoff, SkipItem, Step, control,
              loopvars, Aside
<1>3. CASE FetchFails \/ ChildrenDone \/ LoopCrashes \/ Finalize \/ Archive
  BY <1>3 DEF FetchFails, ChildrenDone, LoopCrashes, Finalize, Archive, Step, control,
              loopvars, Aside
<1>4. ASSUME NEW c \in Clients, Api(c) PROVE Aside
  <2>1. UNCHANGED <<qvars, seed, links, item, remaining, pages, crawled_count, pc>>
    BY <1>4 DEF Api, PauseCheck, PauseClear, PauseLabel, ResumeCheck, ResumeSet, ResumeLabel,
                StopSet, StopRelease, Call, loopvars
  <2>2. pc \in {"idle", "seeding"} => poppedHalted' = poppedHalted
    BY <1>4 DEF Api, PauseCheck, PauseClear, PauseLabel, ResumeCheck, ResumeSet, ResumeLabel,
                StopSet, StopRelease, Call, WInv, Frontline
  <2> QED
    BY <2>1, <2>2 DEF Aside
<1> QED
  BY <1>1, <1>2, <1>3, <1>4 DEF Next, Worker

LEMMA ExpandingInv == ASSUME WInv, [Next]_vars PROVE Expanding'
<1> USE DEF WInv, TypeOK, Expanding, Links
<1>1. CASE Aside
  BY <1>1 DEF Aside
<1>2. CASE SeedFrontier \/ BudgetReached \/ TakeItem
  BY <1>2 DEF SeedFrontier, BudgetReached, TakeItem, Step
<1>3. CASE CrawlPage
  BY <1>3 DEF CrawlPage, Step
<1>4. CASE Expand
  BY <1>4 DEF Expand, control
<1>5. CASE PushChild
  <2>1. /\ remaining \in Seq(Urls) /\ remaining # <<>>
        /\ remaining' = Tail(remaining)
        /\ UNCHANGED <<pc, item, pages, links>>
    BY <1>5 DEF PushChild, control
  <2>2. \A k \in 1 .. Len(remaining') :
            k + 1 \in 1 .. Len(remaining) /\ remaining'[k] = remaining[k + 1]
    BY <2>1
  <2> QED
    BY <2>1, <2>2
<1> QED
  BY <1>1, <1>2, <1>3, <1>4, <1>5, StepKinds

\* An entry is pushed one level below the entry taken last, which is not below any
\* pending one: so depths are admitted in order and pending spans two levels.
LEMMA FrontlineInv == ASSUME WInv, [Next]_vars PROVE Frontline' /\ Sorted'
<1> USE DEF WInv, TypeOK, Frontline, Sorted
<1>1. CASE Aside
  BY <1>1 DEF Aside, qvars
<1>2. CASE SeedFrontier
  <2>1. CASE UNCHANGED qvars
    BY <1>2, <2>1 DEF SeedFrontier, Step, loopvars, qvars
  <2>2. CASE seed \in ValidUrls /\ Push(seed, 0)
    <3>1. seed \in Urls
      BY ValidUrlsAssumption, <2>2
    <3>2. admitted = <<>> /\ deque = <<>> /\ item.depth = 0 /\ item' = item
      BY <1>2 DEF SeedFrontier, Step, loopvars
    <3>3. /\ \A i \in 1 .. Len(deque') : deque'[i].depth = 0
          /\ \A i \in 1 .. Len(admitted') : admitted'[i].depth = 0
      <4>1. \A i \in 1 .. Len(deque') : deque'[i] = [url |-> seed, depth |-> 0]
        BY <2>2, <3>1, <3>2, PushEffect
      <4>2. \A i \in 1 .. Len(admitted') : admitted'[i] = [url |-> seed, depth |-> 0]
        BY <2>2, <3>1, <3>2, PushEffect
      <4> QED
        BY <4>1, <4>2
    <3> QED
      BY <1>2, <3>2, <3>3, MaxDepthAssumption DEF SeedFrontier, Step
  <2> QED
    BY <1>2, <2>1, <2>2 DEF SeedFrontier
<1>3. CASE BudgetReached
  BY <1>3 DEF BudgetReached, Clear, Step, loopvars
<1>4. CASE TakeItem
  <2>1. /\ item' = deque[1] /\ item' \in Entry /\ item \in Entry
        /\ Len(deque) >= 1 /\ Len(deque) \in Nat
        /\ \A i \in 1 .. Len(deque') : i + 1 \in 1 .. Len(deque) /\ deque'[i] = deque[i + 1]
        /\ admitted' = admitted
    BY <1>4, PopEffect DEF TakeItem, QInv, QTypeOK
  <2>2. deque \in Seq(Entry) /\ admitted \in Seq(Entry)
    BY DEF QInv, QTypeOK
  <2>3. \A i \in 1 .. Len(deque) :
            /\ Len(admitted) - Len(deque) + i \in 1 .. Len(admitted)
            /\ deque[i] = admitted[Len(admitted) - Len(deque) + i]
    BY <2>2 DEF QInv, PendingIsNewestSuffix
  <2>4. item'.depth <= MaxDepth /\ item.depth <= item'.depth
    BY <2>1, <2>3
  <2>5. ASSUME NEW i \in 1 .. Len(deque') PROVE item'.depth <= deque'[i].depth
    <3> DEFINE m == Len(admitted) - Len(deque) + 1
               n == Len(admitted) - Len(deque) + (i + 1)
    <3>1. i \in Nat /\ i >= 1 /\ i + 1 \in 1 .. Len(deque) /\ deque'[i] = deque[i + 1]
      BY <2>1
    <3>2. m \in 1 .. Len(admitted) /\ deque[1] = admitted[m]
      BY <2>1, <2>3
    <3>3. n \in 1 .. Len(admitted) /\ deque[i + 1] = admitted[n]
      BY <2>3, <3>1
    <3>4. m < n
      BY <2>2, <3>1
    <3> HIDE DEF m, n
    <3> QED
      BY <2>1, <3>1, <3>2, <3>3, <3>4
  <2>6. ASSUME NEW i \in 1 .. Len(admitted) PROVE admitted[i].depth <= item'.depth + 1
    <3>1. admitted[i] \in Entry
      BY <2>2
    <3>2. admitted[i].depth \in Nat /\ item.depth \in Nat /\ item'.depth \in Nat
      BY <2>1, <3>1 DEF Entry
    <3> QED
      BY <2>4, <3>2
  <2> QED
    BY <1>4, <2>1, <2>4, <2>5, <2>6 DEF TakeItem, Step
<1>5. CASE CrawlPage \/ Expand
  BY <1>5 DEF CrawlPage, Expand, Step, qvars
<1>6. CASE PushChild
  <2>1. CASE UNCHANGED qvars
    BY <1>6, <2>1 DEF PushChild, qvars
  <2>2. CASE Push(Head(remaining), ChildDepth)
    <3> DEFINE e == [url |-> Head(remaining), depth |-> item.depth + 1]
    <3>1. Head(remaining) \in Urls /\ ChildDepth \in Nat /\ ChildDepth = item.depth + 1
      BY <1>6 DEF PushChild, ChildDepth, Entry
    <3>2. /\ item' = item /\ pc = "pushing" /\ pc' = pc
          /\ item.depth \in Nat /\ item.depth + 1 <= MaxDepth
      BY <1>6, MaxDepthAssumption DEF PushChild, Expanding, Entry
    <3>3. \A i \in 1 .. Len(deque') : deque'[i] = e \/ \E j \in 1 .. Len(deque) : deque'[i] = deque[j]
      BY <2>2, <3>1, PushEffect
    <3>4. \/ admitted' = admitted
          \/ /\ Len(admitted') = Len(admitted) + 1
             /\ admitted'[Len(admitted')] = e
             /\ \A i \in 1 .. Len(admitted) : admitted'[i] = admitted[i]
      BY <2>2, <3>1, PushEffect
    <3>5. e.depth = item.depth + 1
      OBVIOUS
    <3> HIDE DEF e
    <3>6. \A i \in 1 .. Len(deque') : item.depth <= deque'[i].depth
      BY <3>2, <3>3, <3>5
    <3>7. admitted \in Seq(Entry)
      BY DEF QInv, QTypeOK
    <3>8. CASE admitted' = admitted
      BY <3>2, <3>6, <3>8
    <3>9. CASE /\ Len(admitted') = Len(admitted) + 1
               /\ admitted'[Len(admitted')] = e
               /\ \A i \in 1 .. Len(admitted) : admitted'[i] = admitted[i]
      <4>1. \A i \in 1 .. Len(admitted') : i \in 1 .. Len(admitted) \/ i = Len(admitted')
        BY <3>7, <3>9
      <4>2. \A i \in 1 .. Len(admitted') :
                admitted'[i].depth <= item.depth + 1 /\ admitted'[i].depth <= MaxDepth
        BY <3>2, <3>5, <3>9, <4>1
      <4>3. ASSUME NEW i \in 1 .. Len(admitted'), NEW j \in 1 .. Len(admitted'), i < j
            PROVE  admitted'[i].depth <= admitted'[j].depth
        <5>1. i \in 1 .. Len(admitted)
          BY <3>7, <3>9, <4>3
        <5> QED
          BY <3>5, <3>9, <4>1, <4>3, <5>1
      <4> QED
        BY <3>2, <3>6, <4>2, <4>3
    <3> QED
      BY <3>4, <3>8, <3>9
  <2> QED
    BY <1>6, <2>1, <2>2 DEF PushChild
<1> QED
  BY <1>1, <1>2, <1>3, <1>4, <1>5, <1>6, StepKinds

\* What is explained stays so when pages are added.
LEMMA ExplainedStays ==
    ASSUME NEW e, NEW s, NEW ls, NEW ps, NEW qs, NEW m \in Nat, NEW n \in Nat, m <= n,
           Explained(e, s, ls, ps, m),
           \A j \in 1 .. m : qs[j] = ps[j]
    PROVE  Explained(e, s, ls, qs, n)
BY DEF Explained

\* A page is explained by one crawled before it: what a crawled page links to is
\* explained by that page, and an entry takes its explanation along.
LEMMA AllExplainedInv == ASSUME WInv, [Next]_vars PROVE AllExplained'
<1> DEFINE Before(e) == Explained(e, seed, links, pages, Len(pages))
<1>1. /\ AllExplained /\ Len(pages) \in Nat /\ pages \in Seq(Entry) /\ deque \in Seq(Entry)
      /\ item \in Entry
  BY DEF WInv, TypeOK, QTypeOK
<1>2. UNCHANGED <<seed, links>>
  BY DEF Next, Worker, Api, Run, SeedFrontier, CheckStop, CheckPause, BudgetReached,
         FrontierEmpty, Backoff, TakeItem, SkipItem, FetchFails, CrawlPage, Expand, PushChild,
         ChildrenDone, LoopCrashes, Finalize, Archive, PauseCheck, PauseClear, PauseLabel,
         ResumeCheck, ResumeSet, ResumeLabel, StopSet, StopRelease, Call, control, vars
<1>3. ASSUME pages' = pages,
             \A i \in 1 .. Len(deque') : Before(deque'[i]),
             pc' = "fetch" => Before(item')
      PROVE  AllExplained'
  BY <1>1, <1>2, <1>3 DEF AllExplained
<1>4. CASE Aside
  BY <1>1, <1>3, <1>4 DEF Aside, qvars, AllExplained
<1>5. CASE SeedFrontier
  <2>1. pages' = pages /\ deque = <<>> /\ pc' = "checkStop"
    BY <1>5 DEF SeedFrontier, Step, loopvars, WInv, Frontline
  <2>2. ASSUME NEW i \in 1 .. Len(deque') PROVE Before(deque'[i])
    <3>1. seed \in ValidUrls => seed \in Urls
      BY ValidUrlsAssumption
    <3>2. CASE seed \in ValidUrls /\ Push(seed, 0)
      <4>1. deque'[i] = [url |-> seed, depth |-> 0]
        BY <2>1, <3>1, <3>2, PushEffect DEF WInv
      <4> QED
        BY <4>1 DEF Explained
    <3>3. CASE UNCHANGED qvars
      BY <2>1, <3>3 DEF qvars
    <3> QED
      BY <1>5, <3>2, <3>3 DEF SeedFrontier
  <2> QED
    BY <1>3, <2>1, <2>2
<1>6. CASE BudgetReached
  BY <1>3, <1>6 DEF BudgetReached, Clear, Step, loopvars
<1>7. CASE TakeItem
  <2>1. /\ pages' = pages /\ item' = deque[1] /\ 1 \in 1 .. Len(deque)
        /\ \A i \in 1 .. Len(deque') : i + 1 \in 1 .. Len(deque) /\ deque'[i] = deque[i + 1]
    BY <1>1, <1>7, PopEffect DEF TakeItem, WInv
  <2> QED
    BY <1>1, <1>3, <2>1 DEF AllExplained
<1>8. CASE CrawlPage
  <2>1. /\ Before(item) /\ deque' = deque /\ pc' = "expand"
        /\ Len(pages') = Len(pages) + 1
        /\ pages'[Len(pages) + 1] = item
        /\ \A j \in 1 .. Len(pages) : pages'[j] = pages[j]
    BY <1>1, <1>8 DEF CrawlPage, Step, qvars, AllExplained
  <2>2. ASSUME NEW i \in 1 .. Len(pages')
        PROVE  Explained(pages'[i], seed, links, pages', i - 1)
    <3>1. CASE i \in 1 .. Len(pages)
      <4>1. Explained(pages[i], seed, links, pages, i - 1) /\ i - 1 \in Nat
        BY <1>1, <3>1 DEF AllExplained
      <4>2. \A j \in 1 .. (i - 1) : pages'[j] = pages[j]
        BY <1>1, <2>1, <3>1
      <4>3. pages'[i] = pages[i]
        BY <2>1, <3>1
      <4> QED
        BY <4>1, <4>2, <4>3, ExplainedStays
    <3>2. CASE i = Len(pages) + 1
      <4>1. i - 1 = Len(pages) /\ pages'[i] = item
        BY <1>1, <2>1, <3>2
      <4> QED
        BY <1>1, <2>1, <4>1, ExplainedStays
    <3> QED
      BY <1>1, <2>1, <3>1, <3>2
  <2>3. ASSUME NEW i \in 1 .. Len(deque')
        PROVE  Explained(deque'[i], seed, links, pages', Len(pages'))
    <3>1. Before(deque[i]) /\ deque'[i] = deque[i]
      BY <1>1, <2>1 DEF AllExplained
    <3>2. Len(pages) <= Len(pages') /\ Len(pages') \in Nat
      BY <1>1, <2>1
    <3> QED
      BY <1>1, <2>1, <3>1, <3>2, ExplainedStays
  <2> QED
    BY <1>2, <2>1, <2>2, <2>3 DEF AllExplained
<1>9. CASE Expand
  BY <1>1, <1>3, <1>9 DEF Expand, qvars, AllExplained
<1>10. CASE PushChild
  <2>1. pages' = pages /\ pc = "pushing" /\ pc' = "pushing"
    BY <1>10 DEF PushChild
  <2>2. ASSUME NEW i \in 1 .. Len(deque') PROVE Before(deque'[i])
    <3>1. CASE UNCHANGED qvars
      BY <1>1, <3>1 DEF qvars, AllExplained
    <3>2. CASE Push(Head(remaining), ChildDepth)
      <4> DEFINE u == Head(remaining)
      <4>1. /\ remaining \in Seq(Urls) /\ remaining # <<>> /\ ChildDepth = item.depth + 1
            /\ item.depth \in Nat
        BY <1>1, <1>10 DEF PushChild, ChildDepth, WInv, TypeOK, Entry
      <4>2. u \in Urls /\ 1 \in 1 .. Len(remaining) /\ u = remaining[1]
        BY <4>1
      <4>3. CASE deque'[i] = [url |-> u, depth |-> item.depth + 1]
        <5>1. /\ Len(pages) \in 1 .. Len(pages) /\ pages[Len(pages)] = item
              /\ u \in Links(item.url)
          BY <1>1, <2>1, <4>2 DEF WInv, Expanding
        <5>2. \E k \in 1 .. Len(links[item.url]) : links[item.url][k] = u
          BY <5>1 DEF Links
        <5> HIDE DEF u
        <5>3. deque'[i].url = u /\ deque'[i].depth = item.depth + 1
          BY <4>3
        <5>4. deque'[i].depth # 0 /\ deque'[i].depth - 1 = item.depth
          BY <4>1, <5>3
        <5> QED
          BY <5>1, <5>2, <5>3, <5>4 DEF Explained
      <4>4. CASE \E j \in 1 .. Len(deque) : deque'[i] = deque[j]
        BY <1>1, <4>4 DEF AllExplained
      <4>5. ChildDepth \in Nat
        BY <4>1
      <4> QED
        BY <3>2, <4>1, <4>2, <4>3, <4>4, <4>5, PushEffect DEF WInv
    <3> QED
      BY <1>10, <3>1, <3>2 DEF PushChild
  <2> QED
    BY <1>3, <2>1, <2>2
<1> QED
  BY <1>4, <1>5, <1>6, <1>7, <1>8, <1>9, <1>10, StepKinds

-----------------------------------------------------------------------------
(* The shortcut *)

LEMMA ShortcutEndInv == ASSUME WInv, [Next]_vars PROVE ShortcutEnd'
<1> USE DEF ShortcutEnd
<1>1. ShortcutEnd /\ deque \in Seq(Entry)
  BY DEF WInv, TypeOK, QTypeOK
<1>2. CASE UNCHANGED vars
  BY <1>1, <1>2 DEF vars, qvars, loopvars, flags
<1>3. CASE Run \/ CheckStop \/ CheckPause
  BY <1>1, <1>3 DEF Run, CheckStop, CheckPause, Step, qvars, loopvars, flags
<1>4. CASE BudgetReached \/ FrontierEmpty \/ Backoff
  BY <1>1, <1>4 DEF BudgetReached, FrontierEmpty, Backoff, Clear, Step, qvars, loopvars, flags
<1>5. CASE SkipItem \/ FetchFails \/ CrawlPage \/ Expand \/ ChildrenDone
  BY <1>1, <1>5 DEF SkipItem, FetchFails, CrawlPage, Expand, ChildrenDone, Step, qvars,
                    loopvars, flags
<1>6. CASE SeedFrontier \/ TakeItem \/ PushChild
  BY <1>1, <1>6 DEF SeedFrontier, TakeItem, PushChild, Step, loopvars, flags
<1>7. CASE LoopCrashes \/ Finalize \/ Archive
  BY <1>1, <1>7 DEF LoopCrashes, Finalize, Archive, Step, qvars, loopvars, flags
<1>8. ASSUME NEW c \in Clients, Api(c) PROVE ShortcutEnd'
  <2>1. UNCHANGED <<qvars, pc, crashed>>
    BY <1>8 DEF Api, PauseCheck, PauseClear, PauseLabel, ResumeCheck, ResumeSet, ResumeLabel,
                StopSet, StopRelease, Call, loopvars
  <2>2. (stop_event => stop_event') /\ status_label' \in {status_label, "paused", "running"}
    BY <1>8 DEF Api, PauseCheck, PauseClear, PauseLabel, ResumeCheck, ResumeSet, ResumeLabel,
                StopSet, StopRelease
  <2> QED
    BY <1>1, <2>1, <2>2 DEF qvars
<1> QED
  BY <1>2, <1>3, <1>4, <1>5, <1>6, <1>7, <1>8 DEF Next, Worker

\* An entry that was popped and not crawled ends the premise for good; otherwise a pop
\* and its page leave the sum of crawled, taken and pending as it was, a push never
\* lowers it, and the links of a page are dropped only when the sum fills the budget.
LEMMA ShortcutBudgetInv == ASSUME WInv, [Next]_vars PROVE ShortcutBudget'
<1> USE DEF ShortcutBudget, InFetch
<1>1. /\ ShortcutBudget
      /\ deque \in Seq(Entry) /\ pages \in Seq(Entry) /\ item \in Entry
      /\ Len(pages) \in Nat /\ Len(deque) \in Nat
      /\ popped_total \in Nat /\ crawled_count \in Nat /\ MaxUrls \in Nat
      /\ crashed \in BOOLEAN
  BY MaxUrlsAssumption DEF WInv, TypeOK, QTypeOK
<1>2. ASSUME UNCHANGED <<pages, links, crawled_count, crashed, popped_total, seen_hashes>>,
             Len(deque') = Len(deque), pc # "fetch", pc' # "fetch",
             \/ pc' = pc /\ UNCHANGED remaining
             \/ pc \notin {"expand", "pushing"}
             \/ pc = "pushing" /\ remaining = <<>>
      PROVE  ShortcutBudget'
  <2>1. ASSUME NEW i \in 1 .. Len(pages), LinksSeen(i) PROVE LinksSeen(i)'
    BY <1>2, <2>1 DEF LinksSeen, ExpectedChildren
  <2> QED
    BY <1>1, <1>2, <2>1
<1>3. CASE UNCHANGED <<vars>>
  BY <1>1, <1>3 DEF vars, qvars, control, loopvars, LinksSeen, ExpectedChildren
<1>4. CASE Run \/ CheckStop \/ CheckPause \/ FrontierEmpty \/ Backoff
  BY <1>2, <1>4 DEF Run, CheckStop, CheckPause, FrontierEmpty, Backoff, Step, qvars, control,
                    loopvars
<1>5. CASE ChildrenDone \/ Finalize \/ Archive
  BY <1>2, <1>5 DEF ChildrenDone, Finalize, Archive, Step, qvars, control, loopvars
<1>6. ASSUME NEW c \in Clients, Api(c) PROVE ShortcutBudget'
  <2>1. UNCHANGED <<qvars, pc, links, crashed, pages, crawled_count, remaining>>
    BY <1>6 DEF Api, PauseCheck, PauseClear, PauseLabel, ResumeCheck, ResumeSet, ResumeLabel,
                StopSet, StopRelease, Call, loopvars
  <2> QED
    BY <1>1, <2>1 DEF qvars, LinksSeen, ExpectedChildren
<1>7. CASE SeedFrontier
  <2>1. pages = <<>> /\ pages' = pages /\ pc' = "checkStop" /\ pc = "seeding"
    BY <1>7 DEF SeedFrontier, Step, loopvars, WInv, Frontline
  <2>2. popped_total' = popped_total
    BY <1>7 DEF SeedFrontier, Push, PushAccepted, PushRejected, qvars
  <2>3. Len(pages') = 0 /\ pc' # "fetch"
    BY <2>1
  <2>4. popped_total' >= Len(pages') + InFetch'
    BY <1>1, <2>2, <2>3
  <2>5. ASSUME NEW i \in 1 .. Len(pages') PROVE LinksSeen(i)'
    BY <2>3
  <2> QED
    BY <2>4, <2>5
<1>8. CASE BudgetReached
  <2>1. /\ crawled_count >= MaxUrls /\ deque' = <<>> /\ pc' = "finalize" /\ pc = "take"
        /\ UNCHANGED <<crawled_count, pages, popped_total>>
    BY <1>8 DEF BudgetReached, OutOfBudget, Clear, Step, loopvars
  <2> QED
    BY <1>1, <2>1
<1>9. CASE TakeItem
  <2>1. /\ Len(deque') = Len(deque) - 1 /\ popped_total' = popped_total + 1
        /\ UNCHANGED <<pages, links, crawled_count, crashed, seen_hashes>>
        /\ pc = "take" /\ pc' = "fetch"
    BY <1>9, PopEffect DEF TakeItem, Step, control, WInv
  <2>2. ASSUME NEW i \in 1 .. Len(pages), LinksSeen(i) PROVE LinksSeen(i)'
    BY <2>1, <2>2 DEF LinksSeen, ExpectedChildren
  <2> QED
    BY <1>1, <2>1, <2>2
<1>10. CASE SkipItem \/ FetchFails
  <2>1. /\ UNCHANGED <<pages, popped_total>>
        /\ pc = "fetch" /\ pc' = "checkStop"
    BY <1>10 DEF SkipItem, FetchFails, Step, qvars, loopvars
  <2> QED
    BY <1>1, <2>1
<1>11. CASE LoopCrashes
  <2>1. UNCHANGED <<pages, popped_total>> /\ crashed' /\ pc' # "fetch"
    BY <1>11 DEF LoopCrashes, qvars
  <2> QED
    BY <1>1, <2>1
<1>12. CASE CrawlPage
  <2>1. /\ Len(pages') = Len(pages) + 1 /\ crawled_count' = crawled_count + 1
        /\ \A i \in 1 .. Len(pages) : pages'[i] = pages[i]
        /\ UNCHANGED <<deque, popped_total, seen_hashes, links, crashed>>
        /\ pc = "fetch" /\ pc' = "expand"
    BY <1>1, <1>12 DEF CrawlPage, Step, qvars, control
  <2>2. ASSUME NEW i \in 1 .. Len(pages), LinksSeen(i) PROVE LinksSeen(i)'
    BY <2>1, <2>2 DEF LinksSeen, ExpectedChildren
  <2>3. ASSUME NEW i, i = Len(pages') PROVE LinksSeen(i)'
    BY <2>1, <2>3 DEF LinksSeen
  <2>4. ASSUME \A i \in 1 .. Len(pages) : LinksSeen(i), NEW i \in 1 .. Len(pages')
        PROVE  LinksSeen(i)'
    <3>1. i \in 1 .. Len(pages) \/ i = Len(pages')
      BY <1>1, <2>1
    <3> QED
      BY <2>2, <2>3, <2>4, <3>1
  <2> QED
    BY <1>1, <2>1, <2>4
<1>13. CASE Expand
  <2>1. /\ UNCHANGED <<deque, pages, popped_total, crawled_count, crashed, seen_hashes, links>>
        /\ pc = "expand" /\ pc' # "fetch"
    BY <1>13 DEF Expand, qvars, control
  <2>2. Len(pages) > 0 /\ pages[Len(pages)] = item
    BY <2>1 DEF WInv, Expanding
  <2>3. CASE item.depth < MaxDepth /\ ~RoomForChildren
    BY <1>1, <2>1, <2>3 DEF RoomForChildren
  <2>4. CASE item.depth < MaxDepth /\ RoomForChildren
    <3>1. pc' = "pushing" /\ remaining' = links[item.url]
      BY <1>13, <2>4 DEF Expand
    <3>2. ASSUME NEW i \in 1 .. Len(pages), LinksSeen(i) PROVE LinksSeen(i)'
      <4>1. CASE i = Len(pages)
        BY <2>1, <2>2, <3>1, <4>1 DEF LinksSeen, ExpectedChildren
      <4>2. CASE i # Len(pages)
        BY <2>1, <3>2, <4>2 DEF LinksSeen, ExpectedChildren
      <4> QED
        BY <4>1, <4>2
    <3> QED
      BY <1>1, <2>1, <3>2
  <2>5. CASE ~(item.depth < MaxDepth)
    <3>1. ASSUME NEW i \in 1 .. Len(pages), LinksSeen(i) PROVE LinksSeen(i)'
      <4>1. CASE i = Len(pages)
        BY <2>1, <2>2, <2>5, <4>1 DEF LinksSeen, ExpectedChildren
      <4>2. CASE i # Len(pages)
        BY <2>1, <3>1, <4>2 DEF LinksSeen, ExpectedChildren
      <4> QED
        BY <4>1, <4>2
    <3> QED
      BY <1>1, <2>1, <3>1
  <2> QED
    BY <2>3, <2>4, <2>5
<1>14. CASE PushChild
  <2> DEFINE u == Head(remaining)
  <2>1. /\ pc = "pushing" /\ pc' = "pushing" /\ remaining \in Seq(Urls) /\ remaining # <<>>
        /\ UNCHANGED <<pages, crawled_count, crashed, links>>
        /\ remaining' = Tail(remaining)
        /\ ChildDepth \in Nat
    BY <1>1, <1>14 DEF PushChild, control, WInv, TypeOK, ChildDepth, Entry
  <2>2. u \in Urls
    BY <2>1
  <2>3. /\ popped_total' = popped_total /\ Len(deque') >= Len(deque)
        /\ seen_hashes \subseteq seen_hashes'
        /\ u \in ValidUrls => u \in seen_hashes'
    <3>1. CASE u \in ValidUrls /\ Push(u, ChildDepth)
      BY <2>1, <2>2, <3>1, PushEffect DEF WInv
    <3>2. CASE u \notin ValidUrls /\ UNCHANGED qvars
      BY <1>1, <3>2 DEF qvars
    <3> QED
      BY <1>14, <3>1, <3>2 DEF PushChild
  <2>4. ASSUME NEW k \in 1 .. Len(remaining)
        PROVE  remaining[k] = u \/ \E l \in 1 .. Len(remaining') : remaining'[l] = remaining[k]
    <3>1. CASE k = 1
      BY <2>1, <3>1
    <3>2. CASE k # 1
      <4>1. k - 1 \in 1 .. Len(remaining') /\ remaining'[k - 1] = remaining[k]
        BY <2>1, <3>2
      <4> QED
        BY <4>1
    <3> QED
      BY <3>1, <3>2
  <2> HIDE DEF u
  <2>5. ASSUME NEW i \in 1 .. Len(pages), LinksSeen(i) PROVE LinksSeen(i)'
    <3>1. ASSUME NEW v \in ExpectedChildren(pages[i])
          PROVE  \/ v \in seen_hashes'
                 \/ i = Len(pages) /\ \E k \in 1 .. Len(remaining') : remaining'[k] = v
      <4>1. v \in ValidUrls
        BY <3>1 DEF ExpectedChildren
      <4>2. v \in seen_hashes
              \/ (i = Len(pages) /\ \E k \in 1 .. Len(remaining) : remaining[k] = v)
        BY <2>1, <2>5, <3>1 DEF LinksSeen
      <4> QED
        BY <2>3, <2>4, <4>1, <4>2
    <3>2. ExpectedChildren(pages[i])' = ExpectedChildren(pages[i])
      BY <2>1 DEF ExpectedChildren
    <3> QED
      BY <2>1, <3>1, <3>2 DEF LinksSeen
  <2>6. Len(deque') \in Nat
    BY FrontierInv DEF QInv, QTypeOK
  <2> QED
    BY <1>1, <2>1, <2>3, <2>5, <2>6
<1> QED
  BY <1>3, <1>4, <1>5, <1>6, <1>7, <1>8, <1>9, <1>10, <1>11, <1>12, <1>13, <1>14
     DEF Next, Worker

-----------------------------------------------------------------------------
LEMMA WInvInit == Init => WInv
<1> SUFFICES ASSUME Init PROVE WInv
  OBVIOUS
<1> USE DEF Init
<1>1. QInv
  BY QInvInit
<1>2. item \in Entry
  BY SeedsAssumption DEF Entry
<1>3. /\ deque = <<>> /\ admitted = <<>> /\ pages = <<>> /\ remaining = <<>>
      /\ popped_total = 0 /\ pc = "idle"
  BY DEF QInit
<1>4. TypeOK
  <2>1. /\ remaining \in Seq(Urls) /\ pages \in Seq(Entry)
        /\ apc \in [Clients -> {"ready", "pauseClear", "pauseLabel", "resumeSet",
                                "resumeLabel", "stopRelease"}]
    BY <1>3
  <2>2. stop_event \in BOOLEAN /\ pause_event \in BOOLEAN /\ crashed \in BOOLEAN
    OBVIOUS
  <2> QED
    BY <1>1, <1>2, <2>1, <2>2 DEF TypeOK, QInv
<1>5. LabelOfPhase /\ BudgetRespected /\ BudgetChecked /\ Expanding
  BY <1>3, MaxUrlsAssumption DEF LabelOfPhase, BudgetRespected, BudgetChecked, Expanding
<1>6. Frontline /\ Sorted /\ AllExplained
  BY <1>3, MaxDepthAssumption DEF Frontline, Sorted, AllExplained
<1>7. HaltInv /\ ShortcutBudget /\ ShortcutEnd
  BY <1>3 DEF HaltInv, HaltTakesAtMostOne, ShortcutBudget, ShortcutEnd, InFetch
<1> QED
  BY <1>1, <1>4, <1>5, <1>6, <1>7 DEF WInv

\* Each conjunct of the invariant is kept by every step.
THEOREM WInvHolds == Spec => []WInv
<1>1. WInv /\ [Next]_vars => WInv'
  BY FrontierInv, TypesInv, BudgetInv, HaltStep, ExpandingInv, FrontlineInv, AllExplainedInv,
     ShortcutEndInv, ShortcutBudgetInv DEF WInv
<1> QED
  BY <1>1, WInvInit, PTL DEF Spec

\* Type correctness of a job, for every web, capacity, budget and number of API threads.
THEOREM WorkerTypeCorrect == Spec => []TypeOK
BY WInvHolds, PTL DEF WInv

\* The invariants of the frontier alone hold of it inside a running job, which pushes
\* depths of its own choice.
THEOREM WorkerKeepsFrontier == Spec => []QInv
BY WInvHolds, PTL DEF WInv

\* worker.py, _crawl_loop(): max_urls is a hard bound on the pages crawled.
THEOREM WorkerBudget == Spec => []BudgetRespected
BY WInvHolds, PTL DEF WInv

\* Depths are admitted in order, pending spans two of them, none exceeds max_depth, and
\* every page but the seed was linked by a page crawled before it one level up.
THEOREM WorkerBreadthFirst == Spec => []BreadthFirst
<1>1. WInv => BreadthFirst
  <2> SUFFICES ASSUME WInv PROVE BreadthFirst
    OBVIOUS
  <2>1. /\ deque \in Seq(Entry) /\ admitted \in Seq(Entry) /\ item \in Entry
        /\ \A i \in 1 .. Len(deque) :
              /\ Len(admitted) - Len(deque) + i \in 1 .. Len(admitted)
              /\ deque[i] = admitted[Len(admitted) - Len(deque) + i]
    <3>1. deque \in Seq(Entry) /\ admitted \in Seq(Entry) /\ item \in Entry
      BY DEF WInv, TypeOK, QTypeOK
    <3> QED
      BY <3>1 DEF WInv, QInv, PendingIsNewestSuffix
  <2>2. ASSUME NEW i \in 1 .. Len(deque), NEW j \in 1 .. Len(deque)
        PROVE  deque[j].depth <= deque[i].depth + 1
    <3>1. deque[j].depth <= item.depth + 1 /\ item.depth <= deque[i].depth
      BY <2>1 DEF WInv, Frontline
    <3>2. deque[i] \in Entry /\ deque[j] \in Entry
      BY <2>1
    <3>3. deque[i].depth \in Nat /\ deque[j].depth \in Nat /\ item.depth \in Nat
      BY <2>1, <3>2 DEF Entry
    <3> QED
      BY <3>1, <3>3
  <2>3. ASSUME NEW i \in 1 .. Len(pages)
        PROVE  IF pages[i].depth = 0 THEN pages[i].url = seed
               ELSE \E j \in 1 .. (i - 1) :
                      /\ pages[j].depth = pages[i].depth - 1
                      /\ \E k \in 1 .. Len(links[pages[j].url]) :
                             links[pages[j].url][k] = pages[i].url
    BY DEF WInv, AllExplained, Explained
  <2> QED
    BY <2>2, <2>3 DEF BreadthFirst, WInv, Frontline, Sorted
<1> QED
  BY <1>1, WInvHolds, PTL

\* After pause() or stop(), however they interleave with each other and with the loop,
\* the worker takes at most one more entry.
THEOREM WorkerHalts == Spec => []HaltTakesAtMostOne
BY WInvHolds, PTL DEF WInv, HaltInv

\* worker.py:310-314: when everything popped was crawled, a job that completes under its
\* budget has looked at every link of every page it expanded.
THEOREM WorkerShortcut == Spec => []ShortcutLosesNothing
<1>1. WInv => ShortcutLosesNothing
  <2> SUFFICES ASSUME WInv, CompletedUnderBudget, popped_total = Len(pages),
                      NEW i \in 1 .. Len(pages)
               PROVE  ExpectedChildren(pages[i]) \subseteq seen_hashes
    BY DEF ShortcutLosesNothing
  <2>1. /\ pc \in {"archive", "done"} /\ ~crashed /\ deque = <<>>
        /\ crawled_count \in Nat /\ crawled_count < MaxUrls /\ MaxUrls \in Nat
        /\ popped_total \in Nat
    BY MaxUrlsAssumption DEF CompletedUnderBudget, WInv, ShortcutEnd, TypeOK, QTypeOK
  <2>2. LinksSeen(i)
    BY <2>1 DEF WInv, ShortcutBudget, InFetch
  <2> QED
    BY <2>1, <2>2 DEF LinksSeen
<1> QED
  BY <1>1, WInvHolds, PTL
=============================================================================
