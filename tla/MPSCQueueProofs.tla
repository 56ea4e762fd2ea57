--------------------------- MODULE MPSCQueueProofs ---------------------------
(***************************************************************************)
(* The lock-free queue frees no node in use and implements a channel, for  *)
(* any number of producers and items, any heap and any reclamation         *)
(* threshold.                                                              *)
(*                                                                         *)
(* The inductive invariant is about the chain c of the nodes from head to  *)
(* the last one: tail is on it, retired nodes are not, and every node that *)
(* a producer has validated is on it or retired.  A validated node that is *)
(* retired stays in the producer's hazard slot until the consumer's scan   *)
(* has read that slot.                                                     *)
(***************************************************************************)
EXTENDS MPSCQueue, FiniteSetTheorems, TLAPS

Places == {"idle", "load", "publish", "recheck", "read", "help", "link",
           "swing", "clear"}
ConsumerPlaces == {"loop", "dequeue", "tail", "helptail", "take", "slots",
                   "scan", "ended"}

QueueTypeOK ==
    /\ live \in SUBSET Address /\ retired \in SUBSET live
    /\ next \in [Address -> Pointer]
    /\ data \in [Address -> QueueItem \cup {<< >>}]
    /\ tail \in Address /\ head \in Address
    /\ hazard \in [1 .. MaxProducers -> Pointer]
    /\ pc \in [Producers -> Places]
    /\ node \in [Producers -> Pointer]
    /\ t \in [Producers -> Pointer] /\ t_next \in [Producers -> Pointer]
    /\ slot \in [Producers -> 0 .. MaxProducers]
    /\ count \in [Producers -> Nat]
    /\ cpc \in ConsumerPlaces
    /\ cnext \in Pointer /\ used \in 0 .. MaxProducers
    /\ snapshot \in Seq(Pointer)
    /\ got \in Seq(QueueItem) /\ sent \in Seq(QueueItem)

\* Every thread in enqueue has a slot of its own, below slots_used_.
SlotsOwned ==
    /\ slots_used = Cardinality({p \in Producers : slot[p] # 0})
    /\ \A p \in Producers : slot[p] <= slots_used
    /\ \A p, q \in Producers : slot[p] = slot[q] /\ slot[p] # 0 => p = q
    /\ \A p \in Producers : pc[p] # "idle" => slot[p] # 0

\* The producer has a node that is not in the queue yet.
Private(p) == pc[p] \in {"load", "publish", "recheck", "read", "help", "link"}

\* The producer has validated the node t and may access it.
Validated(p) == pc[p] \in {"read", "help", "link", "swing"}

OnChain(c, a) == \E i \in 1 .. Len(c) : a = c[i]

IsChain(c) ==
    /\ c \in Seq(Address) /\ Len(c) > 0 /\ c[1] = head
    /\ \A i \in 1 .. Len(c) : c[i] \in live /\ c[i] \notin retired
    /\ \A i \in 1 .. Len(c) - 1 : next[c[i]] = c[i + 1]
    /\ next[c[Len(c)]] = null
    /\ \A i, j \in 1 .. Len(c) : c[i] = c[j] => i = j
    /\ OnChain(c, tail)

PrivateNodes(c) ==
    /\ \A p \in Producers : Private(p) =>
        /\ node[p] \in live /\ node[p] \notin retired /\ ~ OnChain(c, node[p])
        /\ next[node[p]] = null
        /\ data[node[p]] \in QueueItem
    /\ \A p, q \in Producers :
        Private(p) /\ Private(q) /\ node[p] = node[q] => p = q

ValidatedNodes(c) ==
    \A p \in Producers :
        /\ pc[p] = "recheck" \/ Validated(p) => hazard[slot[p]] = t[p]
        /\ Validated(p) => t[p] \in live /\ (t[p] \in retired \/ OnChain(c, t[p]))
        /\ pc[p] = "help" => t_next[p] # null /\ t_next[p] = next[t[p]]
        /\ pc[p] = "swing" => node[p] # null /\ node[p] = next[t[p]]

\* What a retired node's next says is settled: nothing is linked to it.
RetiredNodes == \A a \in retired : next[a] # null

\* The scan of the hazard slots finds every retired node that is validated.
Scanning ==
    cpc = "scan" =>
        /\ Len(snapshot) <= used
        /\ \A p \in Producers : Validated(p) /\ t[p] \in retired =>
            /\ slot[p] <= used
            /\ slot[p] <= Len(snapshot) => snapshot[slot[p]] = t[p]

Dequeuing ==
    /\ cnext = IF cpc \in {"tail", "helptail", "take"} THEN next[head] ELSE null
    /\ cpc \in {"tail", "helptail", "take"} => cnext # null
    /\ cpc = "take" => tail # head

\* What is on the chain is what was sent and not yet taken, in order.
Items(c) ==
    /\ Len(sent) = Len(got) + Len(c) - 1
    /\ \A i \in 2 .. Len(c) : data[c[i]] = sent[Len(got) + i - 1]

Inv(c) == /\ IsChain(c) /\ PrivateNodes(c) /\ ValidatedNodes(c)
          /\ RetiredNodes /\ Scanning /\ Dequeuing /\ Items(c)

IndInv == QueueTypeOK /\ SlotsOwned /\ \E c \in Seq(Address) : Inv(c)

-----------------------------------------------------------------------------
(* Types and slots *)

LEMMA InitInd == QueueInit => IndInv
<1> SUFFICES ASSUME QueueInit PROVE IndInv
  OBVIOUS
<1> USE QueueAssumption
<1>1. PICK a \in {CHOOSE a \in Address : TRUE} :
          live = {a} /\ tail = a /\ head = a
  BY DEF QueueInit
<1>2. a \in Address
  BY <1>1
<1>3. QueueTypeOK
  BY <1>1, <1>2 DEF QueueInit, QueueTypeOK, Pointer, Places, ConsumerPlaces
<1>4. SlotsOwned
  <2>1. {p \in Producers : slot[p] # 0} = {} /\ slots_used = 0
    BY DEF QueueInit
  <2>2. Cardinality({}) = 0
    BY FS_EmptySet
  <2>3. \A p \in Producers : slot[p] = 0 /\ pc[p] = "idle"
    BY DEF QueueInit
  <2> QED
    BY <2>1, <2>2, <2>3 DEF SlotsOwned
<1>5. Inv(<<a>>)
  <2>1. IsChain(<<a>>)
    BY <1>1, <1>2 DEF QueueInit, IsChain, OnChain
  <2>2. PrivateNodes(<<a>>) /\ ValidatedNodes(<<a>>)
    BY DEF QueueInit, PrivateNodes, ValidatedNodes, Private, Validated
  <2>3. RetiredNodes /\ Scanning /\ Dequeuing /\ Items(<<a>>)
    BY DEF QueueInit, RetiredNodes, Scanning, Dequeuing, Items
  <2> QED
    BY <2>1, <2>2, <2>3 DEF Inv
<1>6. <<a>> \in Seq(Address)
  BY <1>2
<1> QED
  BY <1>3, <1>4, <1>5, <1>6, Zenon DEF IndInv

\* A thread that enters enqueue for the first time finds a free slot.
LEMMA NewSlot ==
    ASSUME QueueTypeOK, SlotsOwned, NEW p \in Producers, acquire_slot(p)
    PROVE  /\ slot' \in [Producers -> 0 .. MaxProducers]
           /\ slot'[p] # 0
           /\ slots_used' = Cardinality({q \in Producers : slot'[q] # 0})
           /\ \A q \in Producers : slot'[q] <= slots_used'
           /\ \A q, r \in Producers : slot'[q] = slot'[r] /\ slot'[q] # 0 => q = r
           /\ \A q \in Producers \ {p} : slot'[q] = slot[q]
<1> DEFINE S == {q \in Producers : slot[q] # 0}
           T == {q \in Producers : slot'[q] # 0}
<1>1. IsFiniteSet(S) /\ Cardinality(S) \in Nat /\ slots_used = Cardinality(S)
  BY QueueAssumption, FS_Subset, FS_CardinalityType DEF SlotsOwned
<1>2. CASE slot[p] # 0
  BY <1>1, <1>2 DEF acquire_slot, SlotsOwned, QueueTypeOK
<1>3. CASE slot[p] = 0
  <2>1. slots_used' = slots_used + 1 /\ slot' = [slot EXCEPT ![p] = slots_used + 1]
    BY <1>3 DEF acquire_slot
  <2>2. T = S \cup {p} /\ p \notin S
    <3>1. slots_used \in Nat
      BY <1>1
    <3>2. \A q \in Producers : slot'[q] # 0 <=> slot[q] # 0 \/ q = p
      BY <2>1, <3>1 DEF QueueTypeOK
    <3> QED
      BY <1>3, <3>2
  <2>3. Cardinality(T) = Cardinality(S) + 1 /\ IsFiniteSet(T)
    BY <1>1, <2>2, FS_AddElement
  <2>4. Cardinality(T) <= Cardinality(Producers) /\ Cardinality(Producers) \in Nat
    BY QueueAssumption, FS_Subset, FS_CardinalityType
  <2> HIDE DEF S, T
  <2>5. slots_used + 1 \in 0 .. MaxProducers /\ slots_used \in Nat
    BY <1>1, <2>3, <2>4, QueueAssumption
  <2>6. \A q \in Producers : slot'[q] = IF q = p THEN slots_used + 1 ELSE slot[q]
    BY <2>1 DEF QueueTypeOK
  <2>7. \A q \in Producers : slot[q] \in Nat /\ slot[q] <= slots_used
    BY QueueAssumption DEF QueueTypeOK, SlotsOwned
  <2>8. slot' \in [Producers -> 0 .. MaxProducers]
    BY <2>1, <2>5 DEF QueueTypeOK
  <2>9. \A q, r \in Producers : slot'[q] = slot'[r] /\ slot'[q] # 0 => q = r
    <3> SUFFICES ASSUME NEW q \in Producers, NEW r \in Producers,
                        slot'[q] = slot'[r], slot'[q] # 0
                 PROVE  q = r
      OBVIOUS
    <3>1. CASE q # p /\ r # p
      BY <3>1, <2>6 DEF SlotsOwned
    <3>2. CASE q = p /\ r # p
      BY <3>2, <2>5, <2>6, <2>7
    <3>3. CASE q # p /\ r = p
      BY <3>3, <2>5, <2>6, <2>7
    <3> QED
      BY <3>1, <3>2, <3>3
  <2>10. \A q \in Producers : slot'[q] <= slots_used'
    BY <2>1, <2>5, <2>6, <2>7
  <2>11. slots_used' = Cardinality(T) /\ slot'[p] # 0
    BY <1>1, <2>1, <2>3, <2>5, <2>6
  <2> QED
    BY <2>6, <2>8, <2>9, <2>10, <2>11 DEF T
<1> QED
  BY <1>2, <1>3

\* Every other step leaves the slots alone, and no thread enters enqueue.
LEMMA SameSlots ==
    ASSUME SlotsOwned, UNCHANGED <<slot, slots_used>>,
           \A q \in Producers : pc'[q] # "idle" => pc[q] # "idle"
    PROVE  SlotsOwned'
  BY DEF SlotsOwned

-----------------------------------------------------------------------------
(* What a step must leave alone *)

LEMMA ChainKept ==
    ASSUME NEW c \in Seq(Address), IsChain(c), head' = head,
           tail' = tail \/ OnChain(c, tail'),
           \A i \in 1 .. Len(c) : c[i] \in live' /\ c[i] \notin retired'
                                   /\ next'[c[i]] = next[c[i]]
    PROVE  IsChain(c)'
<1>1. Len(c) \in Nat /\ Len(c) > 0
  BY DEF IsChain
<1>2. \A i \in 1 .. Len(c) - 1 : i \in 1 .. Len(c)
  BY <1>1
<1>3. \A i \in 1 .. Len(c) - 1 : next'[c[i]] = c[i + 1]
  BY <1>2 DEF IsChain
<1>4. next'[c[Len(c)]] = null
  BY <1>1 DEF IsChain
<1>5. OnChain(c, tail')
  BY DEF IsChain
<1> QED
  BY <1>3, <1>4, <1>5 DEF IsChain, OnChain

LEMMA ItemsKept ==
    ASSUME NEW c \in Seq(Address), Items(c), UNCHANGED <<got, sent>>,
           \A i \in 1 .. Len(c) : data'[c[i]] = data[c[i]]
    PROVE  Items(c)'
<1>1. \A i \in 2 .. Len(c) : i \in 1 .. Len(c)
  OBVIOUS
<1> QED
  BY <1>1 DEF Items

\* A step that changes neither the heap nor the consumer keeps what is said of
\* them, wherever on the chain, but never back to head, it moves the tail.
LEMMA HeapKept ==
    ASSUME NEW c \in Seq(Address), Inv(c),
           UNCHANGED <<live, next, data, head, retired, cpc, cnext, got, sent>>,
           tail' = tail \/ (OnChain(c, tail') /\ tail' # head)
    PROVE  IsChain(c)' /\ RetiredNodes' /\ Dequeuing' /\ Items(c)'
<1>1. IsChain(c)'
  <2>1. \A i \in 1 .. Len(c) : c[i] \in live /\ c[i] \notin retired
    BY DEF Inv, IsChain
  <2> QED
    BY <2>1, ChainKept DEF Inv
<1>2. RetiredNodes' /\ Dequeuing'
  BY DEF Inv, RetiredNodes, Dequeuing
<1>3. Items(c)'
  BY ItemsKept DEF Inv
<1> QED
  BY <1>1, <1>2, <1>3

\* The successor of a node that is on the chain is on the chain, after head.
LEMMA NextOnChain ==
    ASSUME NEW c \in Seq(Address), IsChain(c), NEW a, OnChain(c, a), next[a] # null
    PROVE  OnChain(c, next[a]) /\ next[a] # head
<1>1. PICK i \in 1 .. Len(c) : a = c[i]
  BY DEF OnChain
<1>2. i # Len(c)
  BY <1>1 DEF IsChain
<1>3. i \in 1 .. Len(c) - 1 /\ i + 1 \in 1 .. Len(c) /\ i + 1 # 1 /\ 1 \in 1 .. Len(c)
  BY <1>1, <1>2
<1>4. next[a] = c[i + 1] /\ head = c[1]
  BY <1>1, <1>3 DEF IsChain
<1>5. c[i + 1] # c[1]
  BY <1>3 DEF IsChain
<1> QED
  BY <1>3, <1>4, <1>5 DEF OnChain

\* A node whose next is null and that a producer has validated is the last.
LEMMA LastOnChain ==
    ASSUME NEW c \in Seq(Address), IsChain(c), RetiredNodes, NEW a,
           a \in retired \/ OnChain(c, a), next[a] = null
    PROVE  Len(c) \in 1 .. Len(c) /\ a = c[Len(c)]
<1>1. PICK i \in 1 .. Len(c) : a = c[i]
  BY DEF OnChain, RetiredNodes
<1>2. CASE i # Len(c)
  <2>1. i \in 1 .. Len(c) - 1 /\ i + 1 \in 1 .. Len(c)
    BY <1>1, <1>2
  <2>2. c[i + 1] \in Address /\ next[a] = c[i + 1]
    BY <1>1, <2>1 DEF IsChain
  <2> QED
    BY <2>2, QueueAssumption
<1> QED
  BY <1>1, <1>2

-----------------------------------------------------------------------------
(* Producers *)

LEMMA NewNodeInd ==
    ASSUME QueueTypeOK, SlotsOwned, NEW c \in Seq(Address), Inv(c),
           NEW p \in Producers, NewNode(p)
    PROVE  QueueTypeOK' /\ SlotsOwned' /\ Inv(c)'
<1> USE QueueAssumption
<1>1. PICK a \in Address \ live :
          /\ live' = live \cup {a}
          /\ next' = [next EXCEPT ![a] = null]
          /\ data' = [data EXCEPT ![a] = <<p, count[p] + 1>>]
          /\ node' = [node EXCEPT ![p] = a]
  BY DEF NewNode
<1>2. /\ slot' \in [Producers -> 0 .. MaxProducers]
      /\ slot'[p] # 0
      /\ slots_used' = Cardinality({q \in Producers : slot'[q] # 0})
      /\ \A q \in Producers : slot'[q] <= slots_used'
      /\ \A q, r \in Producers : slot'[q] = slot'[r] /\ slot'[q] # 0 => q = r
      /\ \A q \in Producers \ {p} : slot'[q] = slot[q]
  BY NewSlot DEF NewNode
<1>3. /\ pc[p] = "idle" /\ count[p] < MaxItems[p]
      /\ pc' = [pc EXCEPT ![p] = "load"]
      /\ count' = [count EXCEPT ![p] = @ + 1]
      /\ UNCHANGED <<tail, head, hazard, retired, t, t_next, cpc, mode, cnext,
                     used, snapshot, got, sent>>
  BY DEF NewNode, Goto, At, consumerVars
<1>4. <<p, count[p] + 1>> \in QueueItem
  <2>1. count[p] + 1 \in 1 .. MaxItems[p]
    BY <1>3 DEF QueueTypeOK
  <2> QED
    BY <2>1 DEF QueueItem
<1>5. QueueTypeOK'
  BY <1>1, <1>2, <1>3, <1>4 DEF QueueTypeOK, Pointer, Places
<1>6. SlotsOwned'
  <2>1. \A q \in Producers : pc'[q] # "idle" => slot'[q] # 0
    BY <1>2, <1>3 DEF SlotsOwned, QueueTypeOK
  <2> QED
    BY <1>2, <2>1 DEF SlotsOwned
<1>7. /\ \A b \in live : b # a /\ b \in live' /\ b \in Address
                            /\ next'[b] = next[b] /\ data'[b] = data[b]
      /\ next'[a] = null /\ data'[a] \in QueueItem /\ a \in live'
      /\ a \notin retired
  BY <1>1, <1>4 DEF QueueTypeOK
<1>8. IsChain(c)'
  <2>1. \A i \in 1 .. Len(c) : c[i] \in live /\ c[i] \notin retired
    BY DEF Inv, IsChain
  <2> QED
    BY <1>3, <1>7, <2>1, ChainKept DEF Inv
<1>9. PrivateNodes(c)'
  <2>1. \A q \in Producers \ {p} : (Private(q)' <=> Private(q)) /\ node'[q] = node[q]
    BY <1>1, <1>3 DEF QueueTypeOK, Private
  <2>2. node'[p] = a /\ ~ OnChain(c, a)
    BY <1>1, <1>7 DEF QueueTypeOK, Inv, IsChain, OnChain
  <2> QED
    BY <1>3, <1>7, <2>1, <2>2 DEF Inv, PrivateNodes, OnChain
<1>10. /\ \A q \in Producers : q # p => pc'[q] = pc[q] /\ slot'[q] = slot[q] /\ node'[q] = node[q]
       /\ pc'[p] = "load"
  BY <1>1, <1>2, <1>3 DEF QueueTypeOK
<1>11. ValidatedNodes(c)'
  BY <1>3, <1>7, <1>10 DEF Inv, ValidatedNodes, Validated, OnChain
<1>12. RetiredNodes' /\ Scanning' /\ Dequeuing' /\ Items(c)'
  <2>1. RetiredNodes'
    BY <1>3, <1>7 DEF Inv, RetiredNodes, QueueTypeOK
  <2>2. Scanning'
    BY <1>3, <1>10 DEF Inv, Scanning, Validated
  <2>3. Dequeuing'
    BY <1>3, <1>7 DEF Inv, Dequeuing, IsChain
  <2>4. Items(c)'
    <3>1. \A i \in 1 .. Len(c) : c[i] \in live
      BY DEF Inv, IsChain
    <3> QED
      BY <1>3, <1>7, <3>1, ItemsKept DEF Inv
  <2> QED
    BY <2>1, <2>2, <2>3, <2>4
<1> QED
  BY <1>5, <1>6, <1>8, <1>9, <1>11, <1>12 DEF Inv

LEMMA LoadTailInd ==
    ASSUME QueueTypeOK, SlotsOwned, NEW c \in Seq(Address), Inv(c),
           NEW p \in Producers, LoadTail(p)
    PROVE  QueueTypeOK' /\ SlotsOwned' /\ Inv(c)'
<1>1. /\ pc[p] = "load" /\ pc' = [pc EXCEPT ![p] = "publish"]
      /\ t' = [t EXCEPT ![p] = tail]
      /\ UNCHANGED <<live, next, data, tail, head, hazard, slots_used, retired,
                     node, t_next, slot, count, cpc, cnext, used, snapshot, got,
                     sent>>
  BY DEF LoadTail, At, Goto, heapVars, consumerVars
<1>2. QueueTypeOK'
  BY <1>1 DEF QueueTypeOK, Places, Pointer
<1>3. /\ \A q \in Producers \ {p} : pc'[q] = pc[q] /\ t'[q] = t[q]
      /\ pc'[p] = "publish"
  BY <1>1 DEF QueueTypeOK
<1>4. SlotsOwned'
  BY <1>1, <1>3, SameSlots
<1>5. IsChain(c)' /\ RetiredNodes' /\ Dequeuing' /\ Items(c)'
  BY <1>1, HeapKept
<1>6. PrivateNodes(c)'
  BY <1>1, <1>3 DEF Inv, PrivateNodes, Private, OnChain
<1>7. ValidatedNodes(c)' /\ Scanning'
  BY <1>1, <1>3 DEF Inv, ValidatedNodes, Scanning, Validated, OnChain
<1> QED
  BY <1>2, <1>4, <1>5, <1>6, <1>7 DEF Inv

LEMMA PublishHazardInd ==
    ASSUME QueueTypeOK, SlotsOwned, NEW c \in Seq(Address), Inv(c),
           NEW p \in Producers, PublishHazard(p)
    PROVE  QueueTypeOK' /\ SlotsOwned' /\ Inv(c)'
<1>1. /\ pc[p] = "publish" /\ pc' = [pc EXCEPT ![p] = "recheck"]
      /\ hazard' = [hazard EXCEPT ![slot[p]] = t[p]]
      /\ UNCHANGED <<live, next, data, tail, head, slots_used, retired,
                     node, t, t_next, slot, count, cpc, cnext, used, snapshot,
                     got, sent>>
  BY DEF PublishHazard, At, Goto, heapVars, consumerVars
<1>2. QueueTypeOK'
  BY <1>1 DEF QueueTypeOK, Places
<1>3. /\ \A q \in Producers \ {p} : pc'[q] = pc[q]
      /\ pc'[p] = "recheck"
  BY <1>1 DEF QueueTypeOK
<1>4. SlotsOwned'
  BY <1>1, <1>3, SameSlots
<1>5. /\ slot[p] \in 1 .. MaxProducers
      /\ \A q \in Producers \ {p} : pc[q] # "idle" => slot[q] # slot[p]
  BY <1>1, QueueAssumption DEF QueueTypeOK, SlotsOwned
<1>6. /\ \A q \in Producers \ {p} : pc[q] # "idle" => hazard'[slot[q]] = hazard[slot[q]]
      /\ hazard'[slot[p]] = t[p]
  <2>1. \A q \in Producers : pc[q] # "idle" => slot[q] \in 1 .. MaxProducers
    BY QueueAssumption DEF QueueTypeOK, SlotsOwned
  <2> QED
    BY <1>1, <1>5, <2>1 DEF QueueTypeOK
<1>7. IsChain(c)' /\ RetiredNodes' /\ Dequeuing' /\ Items(c)'
  BY <1>1, HeapKept
<1>8. PrivateNodes(c)'
  BY <1>1, <1>3 DEF Inv, PrivateNodes, Private, OnChain
<1>9. ValidatedNodes(c)' /\ Scanning'
  BY <1>1, <1>3, <1>6 DEF Inv, ValidatedNodes, Scanning, Validated, OnChain
<1> QED
  BY <1>2, <1>4, <1>7, <1>8, <1>9 DEF Inv

LEMMA RecheckTailInd ==
    ASSUME QueueTypeOK, SlotsOwned, NEW c \in Seq(Address), Inv(c),
           NEW p \in Producers, RecheckTail(p)
    PROVE  QueueTypeOK' /\ SlotsOwned' /\ Inv(c)'
<1>1. /\ pc[p] = "recheck"
      /\ pc' = [pc EXCEPT ![p] = IF t[p] = tail THEN "read" ELSE "load"]
      /\ UNCHANGED <<live, next, data, tail, head, hazard, slots_used, retired,
                     node, t, t_next, slot, count, cpc, cnext, used, snapshot,
                     got, sent>>
  BY DEF RecheckTail, At, Goto, heapVars, consumerVars
<1>2. QueueTypeOK'
  BY <1>1 DEF QueueTypeOK, Places
<1>3. /\ \A q \in Producers \ {p} : pc'[q] = pc[q]
      /\ pc'[p] = IF t[p] = tail THEN "read" ELSE "load"
  BY <1>1 DEF QueueTypeOK
<1>4. SlotsOwned'
  BY <1>1, <1>3, SameSlots
<1>5. IsChain(c)' /\ RetiredNodes' /\ Dequeuing' /\ Items(c)'
  BY <1>1, HeapKept
<1>6. PrivateNodes(c)'
  BY <1>1, <1>3 DEF Inv, PrivateNodes, Private, OnChain
<1>7. OnChain(c, tail) /\ tail \in live /\ tail \notin retired
  BY DEF Inv, IsChain, OnChain
<1>8. ValidatedNodes(c)'
  BY <1>1, <1>3, <1>7 DEF Inv, ValidatedNodes, Validated, OnChain
<1>9. Scanning'
  BY <1>1, <1>3, <1>7 DEF Inv, Scanning, Validated
<1> QED
  BY <1>2, <1>4, <1>5, <1>6, <1>8, <1>9 DEF Inv

LEMMA ReadNextInd ==
    ASSUME QueueTypeOK, SlotsOwned, NEW c \in Seq(Address), Inv(c),
           NEW p \in Producers, ReadNext(p)
    PROVE  QueueTypeOK' /\ SlotsOwned' /\ Inv(c)'
<1>1. /\ pc[p] = "read"
      /\ t_next' = [t_next EXCEPT ![p] = next[t[p]]]
      /\ pc' = [pc EXCEPT ![p] = IF next[t[p]] = null THEN "link" ELSE "help"]
      /\ UNCHANGED <<live, next, data, tail, head, hazard, slots_used, retired,
                     node, t, slot, count, cpc, cnext, used, snapshot, got, sent>>
  BY DEF ReadNext, At, Goto, heapVars, consumerVars
<1>2. t[p] \in live
  BY <1>1 DEF Inv, ValidatedNodes, Validated
<1>3. QueueTypeOK'
  BY <1>1, <1>2 DEF QueueTypeOK, Places
<1>4. /\ \A q \in Producers \ {p} : pc'[q] = pc[q] /\ t_next'[q] = t_next[q]
      /\ pc'[p] = IF next[t[p]] = null THEN "link" ELSE "help"
      /\ t_next'[p] = next[t[p]]
  BY <1>1 DEF QueueTypeOK
<1>5. SlotsOwned'
  BY <1>1, <1>4, SameSlots
<1>6. IsChain(c)' /\ RetiredNodes' /\ Dequeuing' /\ Items(c)'
  BY <1>1, HeapKept
<1>7. PrivateNodes(c)'
  BY <1>1, <1>4 DEF Inv, PrivateNodes, Private, OnChain
<1>8. ValidatedNodes(c)'
  BY <1>1, <1>4 DEF Inv, ValidatedNodes, Validated, OnChain
<1>9. Scanning'
  BY <1>1, <1>4 DEF Inv, Scanning, Validated
<1> QED
  BY <1>3, <1>5, <1>6, <1>7, <1>8, <1>9 DEF Inv

LEMMA HelpTailInd ==
    ASSUME QueueTypeOK, SlotsOwned, NEW c \in Seq(Address), Inv(c),
           NEW p \in Producers, HelpTail(p)
    PROVE  QueueTypeOK' /\ SlotsOwned' /\ Inv(c)'
<1>1. /\ pc[p] = "help" /\ pc' = [pc EXCEPT ![p] = "load"]
      /\ tail' = IF tail = t[p] THEN t_next[p] ELSE tail
      /\ UNCHANGED <<live, next, data, head, hazard, slots_used, retired,
                     node, t, t_next, slot, count, cpc, cnext, used, snapshot,
                     got, sent>>
  BY DEF HelpTail, SwingTail, At, Goto, heapVars, consumerVars
<1>2. tail' = tail \/ (OnChain(c, tail') /\ tail' # head /\ tail' \in Address)
  <2>1. t_next[p] # null /\ t_next[p] = next[t[p]] /\ IsChain(c) /\ OnChain(c, tail)
    BY <1>1 DEF Inv, ValidatedNodes, IsChain
  <2>2. t_next[p] \in Address
    BY <2>1 DEF QueueTypeOK, Pointer
  <2>3. CASE tail = t[p]
    <3>1. OnChain(c, next[tail]) /\ next[tail] # head
      BY <2>1, <2>3, NextOnChain
    <3> QED
      BY <1>1, <2>1, <2>2, <2>3, <3>1
  <2> QED
    BY <1>1, <2>3
<1>3. QueueTypeOK'
  BY <1>1, <1>2 DEF QueueTypeOK, Places
<1>4. \A q \in Producers : pc'[q] = IF q = p THEN "load" ELSE pc[q]
  BY <1>1 DEF QueueTypeOK
<1>5. SlotsOwned'
  BY <1>1, <1>4, SameSlots
<1>6. IsChain(c)' /\ RetiredNodes' /\ Dequeuing' /\ Items(c)'
  BY <1>1, <1>2, HeapKept
<1>7. PrivateNodes(c)'
  BY <1>1, <1>4 DEF Inv, PrivateNodes, Private, OnChain
<1>8. ValidatedNodes(c)'
  BY <1>1, <1>4 DEF Inv, ValidatedNodes, Validated, OnChain
<1>9. Scanning'
  BY <1>1, <1>4 DEF Inv, Scanning, Validated
<1> QED
  BY <1>3, <1>5, <1>6, <1>7, <1>8, <1>9 DEF Inv

LEMMA SwingToNodeInd ==
    ASSUME QueueTypeOK, SlotsOwned, NEW c \in Seq(Address), Inv(c),
           NEW p \in Producers, SwingToNode(p)
    PROVE  QueueTypeOK' /\ SlotsOwned' /\ Inv(c)'
<1>1. /\ pc[p] = "swing" /\ pc' = [pc EXCEPT ![p] = "clear"]
      /\ tail' = IF tail = t[p] THEN node[p] ELSE tail
      /\ UNCHANGED <<live, next, data, head, hazard, slots_used, retired,
                     node, t, t_next, slot, count, cpc, cnext, used, snapshot,
                     got, sent>>
  BY DEF SwingToNode, SwingTail, At, Goto, heapVars, consumerVars
<1>2. tail' = tail \/ (OnChain(c, tail') /\ tail' # head /\ tail' \in Address)
  <2>1. node[p] # null /\ node[p] = next[t[p]] /\ IsChain(c) /\ OnChain(c, tail)
    BY <1>1 DEF Inv, ValidatedNodes, IsChain
  <2>2. node[p] \in Address
    BY <2>1 DEF QueueTypeOK, Pointer
  <2>3. CASE tail = t[p]
    <3>1. OnChain(c, next[tail]) /\ next[tail] # head
      BY <2>1, <2>3, NextOnChain
    <3> QED
      BY <1>1, <2>1, <2>2, <2>3, <3>1
  <2> QED
    BY <1>1, <2>3
<1>3. QueueTypeOK'
  BY <1>1, <1>2 DEF QueueTypeOK, Places
<1>4. \A q \in Producers : pc'[q] = IF q = p THEN "clear" ELSE pc[q]
  BY <1>1 DEF QueueTypeOK
<1>5. SlotsOwned'
  BY <1>1, <1>4, SameSlots
<1>6. IsChain(c)' /\ RetiredNodes' /\ Dequeuing' /\ Items(c)'
  BY <1>1, <1>2, HeapKept
<1>7. PrivateNodes(c)'
  BY <1>1, <1>4 DEF Inv, PrivateNodes, Private, OnChain
<1>8. ValidatedNodes(c)'
  BY <1>1, <1>4 DEF Inv, ValidatedNodes, Validated, OnChain
<1>9. Scanning'
  BY <1>1, <1>4 DEF Inv, Scanning, Validated
<1> QED
  BY <1>3, <1>5, <1>6, <1>7, <1>8, <1>9 DEF Inv

LEMMA ClearHazardInd ==
    ASSUME QueueTypeOK, SlotsOwned, NEW c \in Seq(Address), Inv(c),
           NEW p \in Producers, ClearHazard(p)
    PROVE  QueueTypeOK' /\ SlotsOwned' /\ Inv(c)'
<1>1. /\ pc[p] = "clear" /\ pc' = [pc EXCEPT ![p] = "idle"]
      /\ hazard' = [hazard EXCEPT ![slot[p]] = null]
      /\ node' = [node EXCEPT ![p] = null]
      /\ t' = [t EXCEPT ![p] = null]
      /\ t_next' = [t_next EXCEPT ![p] = null]
      /\ UNCHANGED <<live, next, data, tail, head, slots_used, retired,
                     slot, count, cpc, cnext, used, snapshot, got, sent>>
  BY DEF ClearHazard, At, Goto, heapVars, consumerVars
<1>2. QueueTypeOK'
  BY <1>1 DEF QueueTypeOK, Places, Pointer
<1>3. /\ \A q \in Producers \ {p} : /\ pc'[q] = pc[q] /\ node'[q] = node[q]
                                     /\ t'[q] = t[q] /\ t_next'[q] = t_next[q]
      /\ pc'[p] = "idle"
  BY <1>1 DEF QueueTypeOK
<1>4. SlotsOwned'
  BY <1>1, <1>3, SameSlots
<1>5. \A q \in Producers \ {p} : pc[q] # "idle" => hazard'[slot[q]] = hazard[slot[q]]
  <2>1. \A q \in Producers : pc[q] # "idle" => slot[q] \in 1 .. MaxProducers
    BY QueueAssumption DEF QueueTypeOK, SlotsOwned
  <2>2. \A q \in Producers \ {p} : pc[q] # "idle" => slot[q] # slot[p]
    BY <1>1 DEF SlotsOwned
  <2> QED
    BY <1>1, <2>1, <2>2 DEF QueueTypeOK
<1>6. IsChain(c)' /\ RetiredNodes' /\ Dequeuing' /\ Items(c)'
  BY <1>1, HeapKept
<1>7. PrivateNodes(c)'
  BY <1>1, <1>3 DEF Inv, PrivateNodes, Private, OnChain
<1>8. ValidatedNodes(c)'
  BY <1>1, <1>3, <1>5 DEF Inv, ValidatedNodes, Validated, OnChain
<1>9. Scanning'
  BY <1>1, <1>3 DEF Inv, Scanning, Validated
<1> QED
  BY <1>2, <1>4, <1>6, <1>7, <1>8, <1>9 DEF Inv

LEMMA LinkNodeInd ==
    ASSUME QueueTypeOK, SlotsOwned, NEW c \in Seq(Address), Inv(c),
           NEW p \in Producers, LinkNode(p)
    PROVE  QueueTypeOK' /\ SlotsOwned' /\ \E d \in Seq(Address) : Inv(d)'
<1>1. /\ pc[p] = "link"
      /\ UNCHANGED <<live, data, tail, head, hazard, slots_used, retired, node,
                     t, t_next, slot, count, cpc, cnext, used, snapshot, got>>
  BY DEF LinkNode, At, consumerVars
<1>2. t[p] \in live /\ t[p] \in Address /\ (t[p] \in retired \/ OnChain(c, t[p]))
  BY <1>1 DEF Inv, ValidatedNodes, Validated, QueueTypeOK
<1>3. /\ node[p] \in live /\ node[p] \in Address /\ node[p] \notin retired
      /\ ~ OnChain(c, node[p]) /\ next[node[p]] = null /\ data[node[p]] \in QueueItem
  BY <1>1 DEF Inv, PrivateNodes, Private, QueueTypeOK
<1>4. CASE next[t[p]] # null
  <2>1. /\ pc' = [pc EXCEPT ![p] = "load"] /\ UNCHANGED <<next, sent>>
    BY <1>4 DEF LinkNode, Goto
  <2>2. QueueTypeOK'
    BY <1>1, <2>1 DEF QueueTypeOK, Places
  <2>3. \A q \in Producers : pc'[q] = IF q = p THEN "load" ELSE pc[q]
    BY <2>1 DEF QueueTypeOK
  <2>4. SlotsOwned'
    BY <1>1, <2>3, SameSlots
  <2>5. IsChain(c)' /\ RetiredNodes' /\ Dequeuing' /\ Items(c)'
    BY <1>1, <2>1, HeapKept
  <2>6. PrivateNodes(c)'
    BY <1>1, <2>1, <2>3 DEF Inv, PrivateNodes, Private, OnChain
  <2>7. ValidatedNodes(c)'
    BY <1>1, <2>1, <2>3 DEF Inv, ValidatedNodes, Validated, OnChain
  <2>8. Scanning'
    BY <1>1, <2>3 DEF Inv, Scanning, Validated
  <2> QED
    BY <1>4, <2>2, <2>4, <2>5, <2>6, <2>7, <2>8 DEF Inv
<1>5. CASE next[t[p]] = null
  <2> DEFINE n == Len(c)
  <2>0. PICK d : d = Append(c, node[p])
    OBVIOUS
  <2>1. /\ pc' = [pc EXCEPT ![p] = "swing"]
        /\ next' = [next EXCEPT ![t[p]] = node[p]]
        /\ sent' = Append(sent, data[node[p]])
    BY <1>5 DEF LinkNode, Goto
  <2>2. n \in Nat /\ n \in 1 .. n /\ t[p] = c[n]
    BY <1>2, <1>5, LastOnChain DEF Inv
  <2>3. /\ d \in Seq(Address) /\ Len(d) = n + 1 /\ d[n + 1] = node[p]
        /\ \A i \in 1 .. n : d[i] = c[i]
    BY <1>3, <2>0
  <2>4. \A a \in Address : next'[a] = IF a = t[p] THEN node[p] ELSE next[a]
    BY <2>1 DEF QueueTypeOK
  <2>5. \A q \in Producers : pc'[q] = IF q = p THEN "swing" ELSE pc[q]
    BY <2>1 DEF QueueTypeOK
  <2>6. node[p] # t[p] /\ node[p] # null
    BY <1>3, <2>2, QueueAssumption DEF OnChain
  <2>7. QueueTypeOK'
    <3>1. next' \in [Address -> Pointer]
      BY <1>3, <2>1 DEF QueueTypeOK, Pointer
    <3>2. sent' \in Seq(QueueItem)
      BY <1>3, <2>1 DEF QueueTypeOK
    <3>3. pc' \in [Producers -> Places]
      BY <2>1 DEF QueueTypeOK, Places
    <3> QED
      BY <1>1, <3>1, <3>2, <3>3 DEF QueueTypeOK
  <2>8. SlotsOwned'
    BY <1>1, <2>5, SameSlots
  <2>9. \A a : OnChain(d, a) <=> OnChain(c, a) \/ a = node[p]
    BY <2>2, <2>3 DEF OnChain
  <2> HIDE DEF n
  <2>10. IsChain(d)'
    <3>1. /\ Len(d) > 0 /\ d[1] = head
          /\ \A i \in 1 .. n : c[i] \in live /\ c[i] \notin retired /\ c[i] \in Address
          /\ \A i \in 1 .. n - 1 : next[c[i]] = c[i + 1]
          /\ \A i, j \in 1 .. n : c[i] = c[j] => i = j
      BY <2>2, <2>3 DEF Inv, IsChain, n
    <3>2. \A i \in 1 .. Len(d) : i \in 1 .. n \/ i = n + 1
      BY <2>2, <2>3
    <3>3. \A i \in 1 .. Len(d) : d[i] \in live /\ d[i] \notin retired
      BY <1>3, <2>3, <3>1, <3>2
    <3>4. \A i \in 1 .. Len(d) - 1 : next'[d[i]] = d[i + 1]
      <4> SUFFICES ASSUME NEW i \in 1 .. Len(d) - 1 PROVE next'[d[i]] = d[i + 1]
        OBVIOUS
      <4>1. CASE i = n
        BY <4>1, <2>2, <2>3, <2>4, <3>1
      <4>2. CASE i # n
        <5>1. i \in 1 .. n - 1 /\ i \in 1 .. n /\ i + 1 \in 1 .. n
          BY <4>2, <2>2, <2>3
        <5>2. c[i] # t[p]
          BY <4>2, <5>1, <2>2, <3>1
        <5> QED
          BY <5>1, <5>2, <2>3, <2>4, <3>1
      <4> QED
        BY <4>1, <4>2
    <3>5. next'[d[Len(d)]] = null
      BY <1>3, <2>3, <2>4, <2>6
    <3>6. \A i, j \in 1 .. Len(d) : d[i] = d[j] => i = j
      <4>1. \A i \in 1 .. n : c[i] # node[p]
        BY <1>3 DEF OnChain, n
      <4> QED
        BY <4>1, <2>3, <3>1, <3>2
    <3>7. OnChain(d, tail)
      BY <2>9 DEF Inv, IsChain
    <3> QED
      BY <1>1, <2>3, <3>1, <3>3, <3>4, <3>5, <3>6, <3>7 DEF IsChain, OnChain
  <2>11. PrivateNodes(d)'
    <3>1. \A q \in Producers : Private(q)' =>
            /\ q # p /\ Private(q) /\ node[q] # node[p]
            /\ node[q] # t[p] /\ node[q] \in Address
      <4> SUFFICES ASSUME NEW q \in Producers, Private(q)'
                   PROVE  /\ q # p /\ Private(q) /\ node[q] # node[p]
                          /\ node[q] # t[p] /\ node[q] \in Address
        OBVIOUS
      <4>1. q # p /\ Private(q) /\ Private(p)
        BY <1>1, <2>5 DEF Private
      <4>2. node[q] # node[p] /\ ~ OnChain(c, node[q]) /\ node[q] \in Address
        BY <4>1 DEF Inv, PrivateNodes, QueueTypeOK
      <4> QED
        BY <4>1, <4>2, <2>2 DEF OnChain, n
    <3>2. \A q \in Producers : Private(q) /\ q # p /\ node[q] # node[p] => ~ OnChain(d, node[q])
      BY <2>9 DEF Inv, PrivateNodes
    <3> QED
      BY <1>1, <2>4, <3>1, <3>2 DEF Inv, PrivateNodes, OnChain
  <2>12. ValidatedNodes(d)'
    <3> SUFFICES ASSUME NEW q \in Producers
                 PROVE  /\ pc'[q] = "recheck" \/ Validated(q)' => hazard[slot[q]] = t[q]
                        /\ Validated(q)' => t[q] \in live /\ (t[q] \in retired \/ OnChain(d, t[q]))
                        /\ pc'[q] = "help" => t_next[q] # null /\ t_next[q] = next'[t[q]]
                        /\ pc'[q] = "swing" => node[q] # null /\ node[q] = next'[t[q]]
      BY <1>1 DEF ValidatedNodes, Validated, OnChain
    <3>1. CASE q = p
      BY <3>1, <1>1, <1>2, <2>4, <2>5, <2>6, <2>9 DEF Inv, ValidatedNodes, Validated
    <3>2. CASE q # p
      <4>1. pc'[q] = pc[q]
        BY <3>2, <2>5
      <4>2. Validated(q) => t[q] \in live /\ t[q] \in Address
        BY DEF Inv, ValidatedNodes, QueueTypeOK
      <4>3. pc[q] = "help" \/ pc[q] = "swing" => next[t[q]] # null /\ t[q] # t[p]
        BY <1>5 DEF Inv, ValidatedNodes
      <4> QED
        BY <4>1, <4>2, <4>3, <2>4, <2>9 DEF Inv, ValidatedNodes, Validated
    <3> QED
      BY <3>1, <3>2
  <2>13. RetiredNodes'
    BY <1>1, <2>4, <2>6 DEF Inv, RetiredNodes, QueueTypeOK
  <2>14. Scanning'
    BY <1>1, <2>5 DEF Inv, Scanning, Validated
  <2>15. Dequeuing'
    BY <1>1, <1>5, <2>4 DEF Inv, Dequeuing, QueueTypeOK
  <2>16. Items(d)'
    <3>1. /\ Len(sent') = Len(sent) + 1 /\ sent'[Len(sent) + 1] = data[node[p]]
          /\ \A i \in 1 .. Len(sent) : sent'[i] = sent[i]
          /\ Len(sent) \in Nat /\ Len(got) \in Nat
      BY <2>1 DEF QueueTypeOK
    <3>2. Len(sent) = Len(got) + n - 1
      BY DEF Inv, Items, n
    <3>3. \A i \in 2 .. n : data[c[i]] = sent[Len(got) + i - 1]
      BY DEF Inv, Items, n
    <3>4. \A i \in 2 .. Len(d) : data[d[i]] = sent'[Len(got) + i - 1]
      <4> SUFFICES ASSUME NEW i \in 2 .. Len(d)
                   PROVE  data[d[i]] = sent'[Len(got) + i - 1]
        OBVIOUS
      <4>1. CASE i = n + 1
        BY <4>1, <2>2, <2>3, <3>1, <3>2
      <4>2. CASE i # n + 1
        <5>1. i \in 2 .. n /\ i \in 1 .. n /\ Len(got) + i - 1 \in 1 .. Len(sent)
          BY <4>2, <2>2, <2>3, <3>1, <3>2
        <5> QED
          BY <5>1, <2>3, <3>1, <3>3
      <4> QED
        BY <4>1, <4>2
    <3> QED
      BY <1>1, <2>2, <2>3, <3>1, <3>2, <3>4 DEF Items
  <2> QED
    BY <1>5, <2>7, <2>8, <2>10, <2>11, <2>12, <2>13, <2>14, <2>15, <2>16, <2>3 DEF Inv
<1> QED
  BY <1>4, <1>5

-----------------------------------------------------------------------------
(* The consumer *)

\* A step of the consumer leaves the producers alone: what is said of their
\* nodes holds as long as the heap, the hazard slots and the chain do.
LEMMA ProducersKept ==
    ASSUME NEW c \in Seq(Address), Inv(c),
           UNCHANGED <<live, next, data, hazard, retired, producerVars>>
    PROVE  PrivateNodes(c)' /\ ValidatedNodes(c)'
  BY DEF Inv, PrivateNodes, ValidatedNodes, Private, Validated, OnChain, producerVars

\* CheckStop, ReadHead, ReadTail and RequestStop only read.
LEMMA ReadingInd ==
    ASSUME QueueTypeOK, SlotsOwned, NEW c \in Seq(Address), Inv(c),
           CheckStop \/ ReadHead \/ ReadTail \/ RequestStop
    PROVE  QueueTypeOK' /\ SlotsOwned' /\ Inv(c)'
<1>1. UNCHANGED <<live, next, data, tail, head, hazard, slots_used, retired,
                  producerVars, used, snapshot, got, sent>>
  BY DEF CheckStop, ReadHead, ReadTail, RequestStop, heapVars, consumerVars
<1>2. \/ cpc' = cpc /\ cnext' = cnext
      \/ cpc = "loop" /\ cpc' = "dequeue" /\ cnext' = cnext
      \/ /\ cpc = "dequeue" /\ cnext' = next[head] /\ cpc' \in {"tail", "ended", "loop"}
         /\ cpc' = "tail" <=> next[head] # null
      \/ /\ cpc = "tail" /\ cnext' = cnext /\ cpc' \in {"helptail", "take"}
         /\ cpc' = "take" => tail # head
  BY DEF CheckStop, ReadHead, ReadTail, RequestStop, consumerVars
<1>3. next[head] \in Pointer
  BY DEF QueueTypeOK
<1>4. cpc' \in ConsumerPlaces /\ cnext' \in Pointer
  BY <1>2, <1>3 DEF QueueTypeOK, ConsumerPlaces
<1>5. QueueTypeOK'
  BY <1>1, <1>4 DEF QueueTypeOK, producerVars
<1>6. SlotsOwned'
  BY <1>1, SameSlots DEF producerVars
<1>7. PrivateNodes(c)' /\ ValidatedNodes(c)'
  BY <1>1, ProducersKept
<1>8. Scanning'
  BY <1>1, <1>2 DEF Inv, Scanning, Validated, producerVars
<1>9. Dequeuing'
  BY <1>1, <1>2 DEF Inv, Dequeuing
<1>10. IsChain(c)' /\ RetiredNodes' /\ Items(c)'
  BY <1>1 DEF Inv, IsChain, RetiredNodes, Items, OnChain
<1> QED
  BY <1>5, <1>6, <1>7, <1>8, <1>9, <1>10 DEF Inv

LEMMA ConsumerHelpsTailInd ==
    ASSUME QueueTypeOK, SlotsOwned, NEW c \in Seq(Address), Inv(c),
           ConsumerHelpsTail
    PROVE  QueueTypeOK' /\ SlotsOwned' /\ Inv(c)'
<1>1. /\ cpc = "helptail" /\ cpc' = "take"
      /\ tail' = IF tail = head THEN cnext ELSE tail
      /\ UNCHANGED <<live, next, data, head, hazard, slots_used, retired,
                     producerVars, cnext, used, snapshot, got, sent>>
  BY DEF ConsumerHelpsTail, SwingTail, heapVars
<1>2. /\ IsChain(c) /\ OnChain(c, head) /\ cnext = next[head] /\ next[head] # null
      /\ next[head] \in Address
  BY <1>1 DEF Inv, IsChain, OnChain, Dequeuing, QueueTypeOK, Pointer
<1>3. OnChain(c, next[head]) /\ next[head] # head
  BY <1>2, NextOnChain
<1>4. tail' # head /\ tail' \in Address /\ (tail' = tail \/ OnChain(c, tail'))
  BY <1>1, <1>2, <1>3 DEF QueueTypeOK
<1>5. QueueTypeOK'
  BY <1>1, <1>4 DEF QueueTypeOK, ConsumerPlaces, producerVars
<1>6. SlotsOwned'
  BY <1>1, SameSlots DEF producerVars
<1>7. PrivateNodes(c)' /\ ValidatedNodes(c)'
  BY <1>1, ProducersKept
<1>8. Scanning' /\ Dequeuing' /\ RetiredNodes'
  BY <1>1, <1>2, <1>4 DEF Inv, Scanning, Dequeuing, RetiredNodes
<1>9. IsChain(c)'
  <2>1. \A i \in 1 .. Len(c) : c[i] \in live /\ c[i] \notin retired
    BY DEF Inv, IsChain
  <2> QED
    BY <1>1, <1>2, <1>4, <2>1, ChainKept
<1>10. Items(c)'
  BY <1>1, ItemsKept DEF Inv
<1> QED
  BY <1>5, <1>6, <1>7, <1>8, <1>9, <1>10 DEF Inv

LEMMA TakeAndRetireInd ==
    ASSUME QueueTypeOK, SlotsOwned, NEW c \in Seq(Address), Inv(c), TakeAndRetire
    PROVE  /\ QueueTypeOK' /\ SlotsOwned' /\ \E d \in Seq(Address) : Inv(d)'
           /\ Len(got) < Len(sent) /\ data[cnext] = sent[Len(got) + 1]
<1> DEFINE n == Len(c)
<1>1. /\ cpc = "take" /\ got' = Append(got, data[cnext]) /\ head' = cnext
      /\ retired' = retired \cup {head} /\ cnext' = null
      /\ cpc' \in {"slots", "dequeue"}
      /\ UNCHANGED <<live, next, data, tail, hazard, slots_used, producerVars,
                     used, snapshot, sent>>
  BY DEF TakeAndRetire, heapVars
<1>2. cnext = next[head] /\ cnext # null /\ tail # head /\ cnext \in Address
  BY <1>1 DEF Inv, Dequeuing, QueueTypeOK, Pointer
<1>3. /\ n \in Nat /\ n > 0 /\ c[1] = head
      /\ \A i \in 1 .. n : c[i] \in live /\ c[i] \notin retired /\ c[i] \in Address
      /\ \A i \in 1 .. n - 1 : next[c[i]] = c[i + 1]
      /\ next[c[n]] = null
      /\ \A i, j \in 1 .. n : c[i] = c[j] => i = j
      /\ OnChain(c, tail)
  BY DEF Inv, IsChain
<1>4. n > 1 /\ c[2] = cnext
  BY <1>2, <1>3
<1>5. PICK d : d = Tail(c)
  OBVIOUS
<1>6. /\ d \in Seq(Address) /\ Len(d) = n - 1
      /\ \A i \in 1 .. n - 1 : d[i] = c[i + 1]
  BY <1>4, <1>5
<1>7. /\ Len(sent) \in Nat /\ Len(got) \in Nat /\ Len(sent) = Len(got) + n - 1
      /\ \A i \in 2 .. n : data[c[i]] = sent[Len(got) + i - 1]
  BY DEF Inv, Items, QueueTypeOK
<1>8. Len(got) < Len(sent) /\ data[cnext] = sent[Len(got) + 1]
  <2>1. 2 \in 2 .. n /\ Len(got) + 2 - 1 = Len(got) + 1
    BY <1>3, <1>4, <1>7
  <2> QED
    BY <1>4, <1>7, <2>1
<1>9. data[cnext] \in QueueItem
  BY <1>7, <1>8 DEF QueueTypeOK
<1> HIDE DEF n
<1>10. QueueTypeOK'
  <2>1. got' \in Seq(QueueItem)
    BY <1>1, <1>9 DEF QueueTypeOK
  <2>2. head' \in Address /\ cpc' \in ConsumerPlaces /\ cnext' \in Pointer
    BY <1>1, <1>2 DEF ConsumerPlaces, Pointer
  <2>3. retired' \in SUBSET live
    <3>1. head \in live
      BY <1>3, <1>4
    <3> QED
      BY <1>1, <3>1 DEF QueueTypeOK
  <2> QED
    BY <1>1, <2>1, <2>2, <2>3 DEF QueueTypeOK, producerVars
<1>11. SlotsOwned'
  BY <1>1, SameSlots DEF producerVars
<1>12. \A i \in 1 .. n - 1 : i \in 1 .. n /\ i + 1 \in 1 .. n /\ i + 1 # 1
  BY <1>3
<1>13. \A i \in 1 .. n - 1 : d[i] # head
  <2>1. 1 \in 1 .. n
    BY <1>3
  <2> QED
    BY <1>3, <1>6, <1>12, <2>1
<1>14. \A a : OnChain(c, a) <=> OnChain(d, a) \/ a = head
  <2> SUFFICES ASSUME NEW a PROVE OnChain(c, a) <=> OnChain(d, a) \/ a = head
    OBVIOUS
  <2>1. ASSUME OnChain(c, a), a # head PROVE OnChain(d, a)
    <3>1. PICK i \in 1 .. n : a = c[i]
      BY <2>1 DEF OnChain, n
    <3>2. i # 1
      BY <2>1, <3>1, <1>3
    <3>3. i - 1 \in 1 .. n - 1 /\ (i - 1) + 1 = i
      BY <3>1, <3>2, <1>3
    <3> QED
      BY <3>1, <3>3, <1>6 DEF OnChain
  <2>2. ASSUME OnChain(d, a) PROVE OnChain(c, a)
    <3>1. PICK i \in 1 .. n - 1 : a = d[i]
      BY <2>2, <1>6 DEF OnChain
    <3> QED
      BY <3>1, <1>6, <1>12 DEF OnChain, n
  <2>3. OnChain(c, head)
    BY <1>3 DEF OnChain, n
  <2> QED
    BY <2>1, <2>2, <2>3
<1>15. IsChain(d)'
  <2>1. Len(d) > 0 /\ d[1] = cnext
    BY <1>3, <1>4, <1>6
  <2>2. \A i \in 1 .. Len(d) : d[i] \in live' /\ d[i] \notin retired'
    BY <1>1, <1>3, <1>6, <1>12, <1>13
  <2>3. \A i \in 1 .. Len(d) - 1 : next[d[i]] = d[i + 1]
    <3> SUFFICES ASSUME NEW i \in 1 .. Len(d) - 1 PROVE next[d[i]] = d[i + 1]
      OBVIOUS
    <3>1. i \in 1 .. n - 1 /\ i + 1 \in 1 .. n - 1
      BY <1>3, <1>6
    <3> QED
      BY <3>1, <1>3, <1>6
  <2>4. next[d[Len(d)]] = null
    <3>1. n - 1 \in 1 .. n - 1 /\ (n - 1) + 1 = n
      BY <1>3, <1>4
    <3> QED
      BY <3>1, <1>3, <1>6
  <2>5. \A i, j \in 1 .. Len(d) : d[i] = d[j] => i = j
    <3> SUFFICES ASSUME NEW i \in 1 .. n - 1, NEW j \in 1 .. n - 1, d[i] = d[j]
                 PROVE  i = j
      BY <1>6
    <3>1. i + 1 \in 1 .. n /\ j + 1 \in 1 .. n /\ c[i + 1] = c[j + 1]
      BY <1>6, <1>12
    <3>2. i + 1 = j + 1
      BY <3>1, <1>3
    <3> QED
      BY <3>2
  <2>6. OnChain(d, tail)
    BY <1>2, <1>3, <1>14
  <2> QED
    BY <1>1, <1>6, <2>1, <2>2, <2>3, <2>4, <2>5, <2>6 DEF IsChain, OnChain
<1>16. PrivateNodes(d)'
  <2>1. \A q \in Producers : Private(q) => node[q] # head /\ ~ OnChain(d, node[q])
    BY <1>14 DEF Inv, PrivateNodes
  <2> QED
    BY <1>1, <2>1 DEF Inv, PrivateNodes, Private, OnChain, producerVars
<1>17. ValidatedNodes(d)'
  <2>1. \A q \in Producers : Validated(q) => t[q] \in retired \cup {head} \/ OnChain(d, t[q])
    BY <1>14 DEF Inv, ValidatedNodes
  <2> QED
    BY <1>1, <2>1 DEF Inv, ValidatedNodes, Validated, OnChain, producerVars
<1>18. RetiredNodes' /\ Scanning' /\ Dequeuing'
  BY <1>1, <1>2 DEF Inv, RetiredNodes, Scanning, Dequeuing
<1>19. Items(d)'
  <2>1. Len(got') = Len(got) + 1
    BY <1>1, <1>9 DEF QueueTypeOK
  <2>2. \A i \in 2 .. Len(d) : data[d[i]] = sent[Len(got') + i - 1]
    <3> SUFFICES ASSUME NEW i \in 2 .. Len(d)
                 PROVE  data[d[i]] = sent[Len(got') + i - 1]
      OBVIOUS
    <3>1. i \in 1 .. n - 1 /\ i + 1 \in 2 .. n
          /\ Len(got) + (i + 1) - 1 = Len(got') + i - 1
      BY <1>3, <1>6, <1>7, <2>1
    <3> QED
      BY <3>1, <1>6, <1>7
  <2>3. Len(sent) = Len(got') + Len(d) - 1
    BY <1>3, <1>6, <1>7, <2>1
  <2> QED
    BY <1>1, <2>2, <2>3 DEF Items
<1> QED
  BY <1>6, <1>8, <1>10, <1>11, <1>15, <1>16, <1>17, <1>18, <1>19 DEF Inv

\* ReadSlots and ScanHazard: the scan covers every slot in use and reads the
\* node out of the slot of every producer that has validated a retired one.
LEMMA ScanInd ==
    ASSUME QueueTypeOK, SlotsOwned, NEW c \in Seq(Address), Inv(c),
           ReadSlots \/ ScanHazard
    PROVE  QueueTypeOK' /\ SlotsOwned' /\ Inv(c)'
<1>1. /\ UNCHANGED <<live, next, data, tail, head, hazard, slots_used, retired,
                     producerVars, cnext, got, sent>>
      /\ cpc' = "scan" /\ cpc \in {"slots", "scan"}
  BY DEF ReadSlots, ScanHazard, heapVars
<1>2. slots_used \in Nat
  <2>1. IsFiniteSet({q \in Producers : slot[q] # 0})
    BY QueueAssumption, FS_Subset
  <2> QED
    BY <2>1, FS_CardinalityType DEF SlotsOwned
<1>3. QueueTypeOK' /\ Scanning'
  <2>1. CASE ReadSlots
    <3>1. /\ used' = IF slots_used > MaxProducers THEN MaxProducers ELSE slots_used
          /\ snapshot' = << >>
      BY <2>1 DEF ReadSlots
    <3>2. used' \in 0 .. MaxProducers
      BY <1>2, <3>1, QueueAssumption
    <3>3. QueueTypeOK'
      BY <1>1, <3>1, <3>2 DEF QueueTypeOK, ConsumerPlaces, producerVars
    <3>4. \A q \in Producers : slot[q] \in Nat /\ slot[q] <= used'
      BY <1>2, <3>1, QueueAssumption DEF QueueTypeOK, SlotsOwned
    <3>5. \A q \in Producers : Validated(q) => slot[q] # 0
      BY DEF SlotsOwned, Validated
    <3>6. Len(snapshot') = 0 /\ \A q \in Producers : Validated(q) => ~ (slot[q] <= 0)
      BY <3>1, <3>4, <3>5
    <3>7. Scanning'
      BY <1>1, <3>2, <3>4, <3>6 DEF Scanning, Validated, producerVars
    <3> QED
      BY <3>3, <3>7
  <2>2. CASE ScanHazard
    <3>1. /\ Len(snapshot) < used /\ used' = used
          /\ snapshot' = Append(snapshot, hazard[Len(snapshot) + 1])
          /\ cpc = "scan" /\ Len(snapshot) \in Nat /\ used \in Nat
      BY <2>2 DEF ScanHazard, QueueTypeOK
    <3>2. hazard[Len(snapshot) + 1] \in Pointer
      BY <3>1, QueueAssumption DEF QueueTypeOK
    <3>3. QueueTypeOK'
      BY <1>1, <3>1, <3>2 DEF QueueTypeOK, producerVars
    <3>4. /\ Len(snapshot') = Len(snapshot) + 1
          /\ snapshot'[Len(snapshot) + 1] = hazard[Len(snapshot) + 1]
          /\ \A i \in 1 .. Len(snapshot) : snapshot'[i] = snapshot[i]
      BY <3>1, <3>2 DEF QueueTypeOK
    <3>5. ASSUME NEW q \in Producers, Validated(q), t[q] \in retired
          PROVE  slot[q] <= used /\ (slot[q] <= Len(snapshot') => snapshot'[slot[q]] = t[q])
      <4>1. slot[q] \in Nat /\ slot[q] # 0
        BY <3>5, QueueAssumption DEF QueueTypeOK, SlotsOwned, Validated
      <4>2. /\ hazard[slot[q]] = t[q] /\ slot[q] <= used
            /\ slot[q] <= Len(snapshot) => snapshot[slot[q]] = t[q]
        BY <3>1, <3>5 DEF Inv, ValidatedNodes, Scanning
      <4>3. CASE slot[q] <= Len(snapshot)
        <5>1. slot[q] \in 1 .. Len(snapshot)
          BY <3>1, <4>1, <4>3
        <5> QED
          BY <3>4, <4>2, <4>3, <5>1
      <4>4. CASE slot[q] = Len(snapshot) + 1
        BY <3>4, <4>2, <4>4
      <4> QED
        BY <3>1, <3>4, <4>1, <4>2, <4>3, <4>4
    <3>6. Len(snapshot') <= used'
      BY <3>1, <3>4
    <3>7. Scanning'
      BY <1>1, <3>1, <3>5, <3>6 DEF Scanning, Validated, producerVars
    <3> QED
      BY <3>3, <3>7
  <2> QED
    BY <2>1, <2>2
<1>4. SlotsOwned'
  BY <1>1, SameSlots DEF producerVars
<1>5. PrivateNodes(c)' /\ ValidatedNodes(c)'
  BY <1>1, ProducersKept
<1>6. IsChain(c)' /\ RetiredNodes' /\ Items(c)'
  BY <1>1 DEF Inv, IsChain, RetiredNodes, Items, OnChain
<1>7. Dequeuing'
  BY <1>1 DEF Inv, Dequeuing
<1> QED
  BY <1>3, <1>4, <1>5, <1>6, <1>7 DEF Inv

LEMMA FreeRetiredInd ==
    ASSUME QueueTypeOK, SlotsOwned, NEW c \in Seq(Address), Inv(c), FreeRetired
    PROVE  QueueTypeOK' /\ SlotsOwned' /\ Inv(c)'
<1> DEFINE nodes == retired \ Guarded
<1>1. /\ cpc = "scan" /\ Len(snapshot) = used /\ cpc' = "dequeue" /\ used' = 0
      /\ snapshot' = << >> /\ retired' = retired \cap Guarded
      /\ UNCHANGED <<tail, head, hazard, slots_used, producerVars, cnext, got, sent>>
  BY DEF FreeRetired
<1>2. /\ live' = live \ nodes
      /\ next' = [a \in Address |-> IF a \in nodes THEN null ELSE next[a]]
      /\ data' = [a \in Address |-> IF a \in nodes THEN << >> ELSE data[a]]
  BY DEF FreeRetired, Freed
<1>3. \A a \in live : a \notin nodes =>
        a \in live' /\ a \in Address /\ next'[a] = next[a] /\ data'[a] = data[a]
  BY <1>2 DEF QueueTypeOK
<1>4. QueueTypeOK'
  <2>1. live' \in SUBSET Address /\ retired' \in SUBSET live'
    BY <1>1, <1>2 DEF QueueTypeOK
  <2>2. next' \in [Address -> Pointer] /\ data' \in [Address -> QueueItem \cup {<< >>}]
    BY <1>2 DEF QueueTypeOK, Pointer
  <2>3. used' \in 0 .. MaxProducers /\ snapshot' \in Seq(Pointer) /\ cpc' \in ConsumerPlaces
    BY <1>1, QueueAssumption DEF ConsumerPlaces
  <2> QED
    BY <1>1, <2>1, <2>2, <2>3 DEF QueueTypeOK, producerVars
<1>5. SlotsOwned'
  BY <1>1, SameSlots DEF producerVars
<1>6. \A q \in Producers : Validated(q) =>
        t[q] \in live /\ t[q] \notin nodes /\ (t[q] \in retired => t[q] \in retired')
  <2> SUFFICES ASSUME NEW q \in Producers, Validated(q)
               PROVE  t[q] \in live /\ (t[q] \in retired => t[q] \in Guarded)
    BY <1>1
  <2>1. ASSUME t[q] \in retired PROVE t[q] \in Guarded
    <3>1. slot[q] \in 1 .. Len(snapshot)
      BY <1>1, <2>1, QueueAssumption DEF Inv, Scanning, QueueTypeOK, SlotsOwned, Validated
    <3>2. snapshot[slot[q]] = t[q] /\ DOMAIN snapshot = 1 .. Len(snapshot)
      BY <1>1, <2>1, <3>1 DEF Inv, Scanning, QueueTypeOK
    <3> QED
      BY <3>1, <3>2 DEF Guarded, ToSet
  <2> QED
    BY <2>1 DEF Inv, ValidatedNodes
<1>7. \A i \in 1 .. Len(c) : c[i] \in live /\ c[i] \notin retired /\ c[i] \notin nodes
  BY DEF Inv, IsChain
<1>8. IsChain(c)'
  BY <1>1, <1>3, <1>7, ChainKept DEF Inv
<1>9. Items(c)'
  BY <1>1, <1>3, <1>7, ItemsKept DEF Inv
<1>10. PrivateNodes(c)'
  <2>1. \A q \in Producers : Private(q) =>
          node[q] \in live /\ node[q] \notin nodes /\ node[q] \notin retired'
    BY <1>1 DEF Inv, PrivateNodes
  <2> QED
    BY <1>1, <1>3, <2>1 DEF Inv, PrivateNodes, Private, OnChain, producerVars
<1>11. ValidatedNodes(c)'
  <2>1. \A q \in Producers : Validated(q) => t[q] \in live' /\ next'[t[q]] = next[t[q]]
    BY <1>3, <1>6
  <2> QED
    BY <1>1, <1>6, <2>1 DEF Inv, ValidatedNodes, Validated, OnChain, producerVars
<1>12. RetiredNodes'
  BY <1>1, <1>3 DEF Inv, RetiredNodes, QueueTypeOK
<1>13. Scanning' /\ Dequeuing'
  BY <1>1 DEF Inv, Scanning, Dequeuing
<1> QED
  BY <1>4, <1>5, <1>8, <1>9, <1>10, <1>11, <1>12, <1>13 DEF Inv

-----------------------------------------------------------------------------
(* The theorems *)

LEMMA StepInd == IndInv /\ [QueueNext]_queueVars => IndInv'
<1> SUFFICES ASSUME IndInv, [QueueNext]_queueVars PROVE IndInv'
  OBVIOUS
<1>1. PICK c \in Seq(Address) : Inv(c)
  BY DEF IndInv
<1>2. QueueTypeOK /\ SlotsOwned
  BY DEF IndInv
<1>3. ASSUME NEW p \in Producers, Producer(p) PROVE IndInv'
  <2>1. QueueTypeOK' /\ SlotsOwned' /\ \E d \in Seq(Address) : Inv(d)'
    <3>1. CASE NewNode(p)
      BY <1>1, <1>2, <3>1, NewNodeInd
    <3>2. CASE LoadTail(p)
      BY <1>1, <1>2, <3>2, LoadTailInd
    <3>3. CASE PublishHazard(p)
      BY <1>1, <1>2, <3>3, PublishHazardInd
    <3>4. CASE RecheckTail(p)
      BY <1>1, <1>2, <3>4, RecheckTailInd
    <3>5. CASE ReadNext(p)
      BY <1>1, <1>2, <3>5, ReadNextInd
    <3>6. CASE HelpTail(p)
      BY <1>1, <1>2, <3>6, HelpTailInd
    <3>7. CASE LinkNode(p)
      BY <1>1, <1>2, <3>7, LinkNodeInd
    <3>8. CASE SwingToNode(p)
      BY <1>1, <1>2, <3>8, SwingToNodeInd
    <3>9. CASE ClearHazard(p)
      BY <1>1, <1>2, <3>9, ClearHazardInd
    <3> QED
      BY <1>3, <3>1, <3>2, <3>3, <3>4, <3>5, <3>6, <3>7, <3>8, <3>9 DEF Producer
  <2> QED
    BY <2>1 DEF IndInv
<1>4. ASSUME Consumer \/ RequestStop PROVE IndInv'
  <2>1. QueueTypeOK' /\ SlotsOwned' /\ \E d \in Seq(Address) : Inv(d)'
    <3>1. CASE CheckStop \/ ReadHead \/ ReadTail \/ RequestStop
      BY <1>1, <1>2, <3>1, ReadingInd
    <3>2. CASE ConsumerHelpsTail
      BY <1>1, <1>2, <3>2, ConsumerHelpsTailInd
    <3>3. CASE TakeAndRetire
      BY <1>1, <1>2, <3>3, TakeAndRetireInd
    <3>4. CASE ReadSlots \/ ScanHazard
      BY <1>1, <1>2, <3>4, ScanInd
    <3>5. CASE FreeRetired
      BY <1>1, <1>2, <3>5, FreeRetiredInd
    <3> QED
      BY <1>4, <3>1, <3>2, <3>3, <3>4, <3>5 DEF Consumer
  <2> QED
    BY <2>1 DEF IndInv
<1>5. CASE UNCHANGED queueVars
  <2> USE <1>5 DEF queueVars, heapVars, producerVars, consumerVars
  <2>1. QueueTypeOK' /\ SlotsOwned'
    BY <1>2 DEF QueueTypeOK, SlotsOwned
  <2>2. IsChain(c)' /\ RetiredNodes' /\ Scanning' /\ Dequeuing' /\ Items(c)'
    BY <1>1 DEF Inv, IsChain, RetiredNodes, Scanning, Dequeuing, Items, OnChain, Validated
  <2>3. PrivateNodes(c)' /\ ValidatedNodes(c)'
    BY <1>1, ProducersKept
  <2> QED
    BY <2>1, <2>2, <2>3 DEF IndInv, Inv
<1> QED
  BY <1>3, <1>4, <1>5 DEF QueueNext

\* Every reachable state satisfies the inductive invariant.
THEOREM QueueInvariant == QueueSpec => []IndInv
  BY InitInd, StepInd, PTL DEF QueueSpec

\* try_reclaim_ frees no node that a producer may still read or write, and the
\* nodes that head_ and tail_ point at are live: whatever the number of
\* producers, the size of the heap and the moment a reclamation starts.
THEOREM QueueFreesSafely == QueueSpec => []NoUseAfterFree
<1>1. IndInv => NoUseAfterFree
  <2> SUFFICES ASSUME IndInv PROVE NoUseAfterFree
    OBVIOUS
  <2>1. PICK c \in Seq(Address) : Inv(c)
    BY DEF IndInv
  <2>2. \A p \in Producers : pc[p] \in {"read", "help", "link"} => t[p] \in live
    BY <2>1 DEF Inv, ValidatedNodes, Validated
  <2>3. IsChain(c) /\ OnChain(c, head) /\ OnChain(c, tail)
    BY <2>1 DEF Inv, IsChain, OnChain
  <2>4. head \in live /\ tail \in live
    BY <2>3 DEF IsChain, OnChain
  <2>5. cnext \in live \cup {null}
    <3>1. CASE cnext # null
      <4>1. cnext = next[head]
        BY <2>1, <3>1 DEF Inv, Dequeuing
      <4>2. OnChain(c, next[head])
        BY <2>3, <3>1, <4>1, NextOnChain
      <4> QED
        BY <2>3, <4>1, <4>2 DEF IsChain, OnChain
    <3> QED
      BY <3>1
  <2> QED
    BY <2>2, <2>4, <2>5 DEF NoUseAfterFree
<1> QED
  BY <1>1, QueueInvariant, PTL

\* The queue implements a channel: linking a node sends its item, taking one
\* receives the oldest item that is not yet received, and no other step of
\* enqueue, try_dequeue or the reclamation sends or receives.
THEOREM QueueIsChannel == QueueSpec => QueueImplementsChannel
<1>1. QueueInit => Chan!ChannelInit
  BY DEF QueueInit, Chan!ChannelInit
<1>2. IndInv /\ [QueueNext]_queueVars => [Chan!Send \/ Chan!Receive]_<<sent, got>>
  <2> SUFFICES ASSUME IndInv, [QueueNext]_queueVars
               PROVE  Chan!Send \/ Chan!Receive \/ UNCHANGED <<sent, got>>
    OBVIOUS
  <2>1. PICK c \in Seq(Address) : Inv(c)
    BY DEF IndInv
  <2>2. QueueTypeOK /\ SlotsOwned
    BY DEF IndInv
  <2>3. ASSUME NEW p \in Producers, LinkNode(p)
        PROVE  Chan!Send \/ UNCHANGED <<sent, got>>
    <3>1. got' = got
      BY <2>3 DEF LinkNode, consumerVars
    <3>2. data[node[p]] \in QueueItem
      BY <2>1, <2>3 DEF LinkNode, At, Inv, PrivateNodes, Private
    <3>3. sent' = sent \/ sent' = Append(sent, data[node[p]])
      BY <2>3 DEF LinkNode
    <3> QED
      BY <3>1, <3>2, <3>3 DEF Chan!Send
  <2>4. ASSUME TakeAndRetire PROVE Chan!Receive
    <3>1. Len(got) < Len(sent) /\ data[cnext] = sent[Len(got) + 1]
      BY <2>1, <2>2, <2>4, TakeAndRetireInd
    <3> QED
      BY <2>4, <3>1 DEF TakeAndRetire, Chan!Receive
  <2>5. ASSUME NEW p \in Producers, Producer(p), ~ LinkNode(p)
        PROVE  UNCHANGED <<sent, got>>
    BY <2>5 DEF Producer, NewNode, LoadTail, PublishHazard, RecheckTail, ReadNext,
                HelpTail, SwingToNode, ClearHazard, consumerVars
  <2>6. ASSUME Consumer \/ RequestStop, ~ TakeAndRetire
        PROVE  UNCHANGED <<sent, got>>
    BY <2>6 DEF Consumer, CheckStop, ReadHead, ReadTail, ConsumerHelpsTail,
                ReadSlots, ScanHazard, FreeRetired, RequestStop, consumerVars
  <2>7. ASSUME UNCHANGED queueVars PROVE UNCHANGED <<sent, got>>
    BY <2>7 DEF queueVars, consumerVars
  <2> QED
    BY <2>3, <2>4, <2>5, <2>6, <2>7 DEF QueueNext
<1> QED
  BY <1>1, <1>2, QueueInvariant, PTL DEF QueueSpec, QueueImplementsChannel, Chan!ChannelSpec
=============================================================================
