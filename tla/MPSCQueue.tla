----------------------------- MODULE MPSCQueue -----------------------------
(***************************************************************************)
(* The lock-free queue with many producers and one consumer of             *)
(* core/include/collab/mpsc_queue.h, and the loop of the consuming thread: *)
(* DocumentSession::run and AsyncLogger::writer_loop take items until they *)
(* are asked to stop, and once more after that.                            *)
(*                                                                         *)
(* The queue is a linked list of nodes from head to the last one; tail may *)
(* lag behind the last node.  A producer publishes the node it is about to *)
(* read in its hazard slot; the consumer frees a node it has taken only    *)
(* when no slot holds it.  Every access to shared memory is a step of its  *)
(* own and steps interleave (sequential consistency; the weaker orderings  *)
(* of the code are not modelled).  A freed address may be allocated again. *)
(***************************************************************************)
EXTENDS Naturals, Sequences, FiniteSets

CONSTANTS Producers,          \* threads that enqueue
          Address,            \* addresses of the heap that nodes may have
          null,               \* nullptr
          MaxProducers,       \* number of hazard slots
          ReclaimThreshold,   \* retired nodes that start a reclamation
          MaxItems            \* bound on the items of each producer, a function

ASSUME QueueAssumption ==
    /\ null \notin Address
    /\ Address # {}
    /\ IsFiniteSet(Producers)
    /\ MaxProducers \in Nat /\ MaxProducers >= Cardinality(Producers)
    /\ ReclaimThreshold \in Nat
    /\ MaxItems \in [Producers -> Nat]

Pointer == Address \cup {null}
QueueItem == UNION {{p} \X (1 .. MaxItems[p]) : p \in Producers}

VARIABLES
    live, next, data,       \* the heap: allocated nodes, their fields
    tail, head,             \* tail_, head_
    hazard, slots_used,     \* hazards_, slots_used_
    retired,                \* the list from retired_head_
    pc, node, t, t_next,    \* each producer: its place in enqueue, locals
    slot,                   \* slot_cache_ of each producer, 0 if none
    count,                  \* items each producer has handed to enqueue
    cpc, mode,              \* the consumer: in try_dequeue, in its loop
    cnext, used, snapshot,  \* locals of try_dequeue and try_reclaim_
    got,                    \* items the consumer has taken
    stop,                   \* stop_requested()
    sent                    \* history: the items in the order of their linking

heapVars == <<live, next, data>>
producerVars == <<pc, node, t, t_next, slot, count>>
consumerVars == <<cpc, mode, cnext, used, snapshot, got>>
queueVars == <<heapVars, tail, head, hazard, slots_used, retired,
               producerVars, consumerVars, stop, sent>>

QueueInit ==
    \E sentinel \in {CHOOSE a \in Address : TRUE} :
        /\ live = {sentinel} /\ tail = sentinel /\ head = sentinel
        /\ next = [a \in Address |-> null]
        /\ data = [a \in Address |-> << >>]
        /\ hazard = [i \in 1 .. MaxProducers |-> null]
        /\ slots_used = 0 /\ retired = {}
        /\ pc = [p \in Producers |-> "idle"]
        /\ node = [p \in Producers |-> null]
        /\ t = [p \in Producers |-> null]
        /\ t_next = [p \in Producers |-> null]
        /\ slot = [p \in Producers |-> 0]
        /\ count = [p \in Producers |-> 0]
        /\ cpc = "loop" /\ mode = "poll"
        /\ cnext = null /\ used = 0 /\ snapshot = << >> /\ got = << >>
        /\ stop = FALSE /\ sent = << >>

ToSet(s) == {s[i] : i \in DOMAIN s}

-----------------------------------------------------------------------------
(* enqueue, run by producer p *)

At(p, place) == pc[p] = place
Goto(p, place) == pc' = [pc EXCEPT ![p] = place]

\* A thread takes a slot at its first item and keeps it.  With more threads
\* than slots the process aborts: QueueAssumption excludes that.
acquire_slot(p) ==
    IF slot[p] = 0
    THEN slots_used' = slots_used + 1 /\ slot' = [slot EXCEPT ![p] = slots_used + 1]
    ELSE UNCHANGED <<slots_used, slot>>

NewNode(p) ==
    /\ At(p, "idle") /\ count[p] < MaxItems[p]
    /\ \E a \in Address \ live :
        /\ live' = live \cup {a}
        /\ next' = [next EXCEPT ![a] = null]
        /\ data' = [data EXCEPT ![a] = <<p, count[p] + 1>>]
        /\ node' = [node EXCEPT ![p] = a]
    /\ count' = [count EXCEPT ![p] = @ + 1]
    /\ acquire_slot(p)
    /\ Goto(p, "load")
    /\ UNCHANGED <<tail, head, hazard, retired, t, t_next, consumerVars, stop, sent>>

LoadTail(p) ==
    /\ At(p, "load")
    /\ t' = [t EXCEPT ![p] = tail]
    /\ Goto(p, "publish")
    /\ UNCHANGED <<heapVars, tail, head, hazard, slots_used, retired, node,
                   t_next, slot, count, consumerVars, stop, sent>>

PublishHazard(p) ==
    /\ At(p, "publish")
    /\ hazard' = [hazard EXCEPT ![slot[p]] = t[p]]
    /\ Goto(p, "recheck")
    /\ UNCHANGED <<heapVars, tail, head, slots_used, retired, node, t, t_next,
                   slot, count, consumerVars, stop, sent>>

RecheckTail_bug_trusted(p) ==
    /\ At(p, "recheck")
    /\ Goto(p, "read")
    /\ UNCHANGED <<heapVars, tail, head, hazard, slots_used, retired, node, t,
                   t_next, slot, count, consumerVars, stop, sent>>

\* The slot protects t only if t was still the tail when it was published.
RecheckTail(p) ==
    /\ At(p, "recheck")
    /\ Goto(p, IF t[p] = tail THEN "read" ELSE "load")
    /\ UNCHANGED <<heapVars, tail, head, hazard, slots_used, retired, node, t,
                   t_next, slot, count, consumerVars, stop, sent>>

ReadNext(p) ==
    /\ At(p, "read")
    /\ t_next' = [t_next EXCEPT ![p] = next[t[p]]]
    /\ Goto(p, IF next[t[p]] = null THEN "link" ELSE "help")
    /\ UNCHANGED <<heapVars, tail, head, hazard, slots_used, retired, node, t,
                   slot, count, consumerVars, stop, sent>>

\* tail_.compare_exchange_strong(from, to)
SwingTail(from, to) == tail' = IF tail = from THEN to ELSE tail

HelpTail(p) ==
    /\ At(p, "help")
    /\ SwingTail(t[p], t_next[p])
    /\ Goto(p, "load")
    /\ UNCHANGED <<heapVars, head, hazard, slots_used, retired, node, t,
                   t_next, slot, count, consumerVars, stop, sent>>

LinkNode_bug_store(p) ==
    /\ At(p, "link")
    /\ next' = [next EXCEPT ![t[p]] = node[p]]
    /\ sent' = Append(sent, data[node[p]])
    /\ Goto(p, "swing")
    /\ UNCHANGED <<live, data, tail, head, hazard, slots_used, retired, node,
                   t, t_next, slot, count, consumerVars, stop>>

\* t->next.compare_exchange_strong(nullptr, node): the item is in the queue.
LinkNode(p) ==
    /\ At(p, "link")
    /\ IF next[t[p]] = null
       THEN /\ next' = [next EXCEPT ![t[p]] = node[p]]
            /\ sent' = Append(sent, data[node[p]])
            /\ Goto(p, "swing")
       ELSE UNCHANGED <<next, sent>> /\ Goto(p, "load")
    /\ UNCHANGED <<live, data, tail, head, hazard, slots_used, retired, node,
                   t, t_next, slot, count, consumerVars, stop>>

SwingToNode(p) ==
    /\ At(p, "swing")
    /\ SwingTail(t[p], node[p])
    /\ Goto(p, "clear")
    /\ UNCHANGED <<heapVars, head, hazard, slots_used, retired, node, t,
                   t_next, slot, count, consumerVars, stop, sent>>

ClearHazard(p) ==
    /\ At(p, "clear")
    /\ hazard' = [hazard EXCEPT ![slot[p]] = null]
    /\ Goto(p, "idle")
    /\ node' = [node EXCEPT ![p] = null]
    /\ t' = [t EXCEPT ![p] = null]
    /\ t_next' = [t_next EXCEPT ![p] = null]
    /\ UNCHANGED <<heapVars, tail, head, slots_used, retired, slot, count,
                   consumerVars, stop, sent>>

Producer(p) ==
    \/ NewNode(p) \/ LoadTail(p) \/ PublishHazard(p) \/ RecheckTail(p)
    \/ ReadNext(p) \/ HelpTail(p) \/ LinkNode(p) \/ SwingToNode(p) \/ ClearHazard(p)

-----------------------------------------------------------------------------
(* The consuming thread *)

CheckStop_bug_nodrain ==
    /\ cpc = "loop"
    /\ mode' = IF stop THEN "ended" ELSE "poll"
    /\ cpc' = IF stop THEN "ended" ELSE "dequeue"
    /\ UNCHANGED <<heapVars, tail, head, hazard, slots_used, retired,
                   producerVars, cnext, used, snapshot, got, stop, sent>>

\* while (!stop_requested()): the last loop, after a stop, takes what is left.
CheckStop ==
    /\ cpc = "loop"
    /\ mode' = IF stop THEN "drain" ELSE "poll"
    /\ cpc' = "dequeue"
    /\ UNCHANGED <<heapVars, tail, head, hazard, slots_used, retired,
                   producerVars, cnext, used, snapshot, got, stop, sent>>

\* try_dequeue: h->next; the queue is empty when there is none.
ReadHead ==
    /\ cpc = "dequeue"
    /\ cnext' = next[head]
    /\ cpc' = IF next[head] # null THEN "tail"
              ELSE IF mode = "drain" THEN "ended" ELSE "loop"
    /\ UNCHANGED <<heapVars, tail, head, hazard, slots_used, retired,
                   producerVars, mode, used, snapshot, got, stop, sent>>

\* if (t == h): the tail must not stay on the node that is retired.
ReadTail ==
    /\ cpc = "tail"
    /\ cpc' = IF tail = head THEN "helptail" ELSE "take"
    /\ UNCHANGED <<heapVars, tail, head, hazard, slots_used, retired,
                   producerVars, mode, cnext, used, snapshot, got, stop, sent>>

ConsumerHelpsTail ==
    /\ cpc = "helptail"
    /\ SwingTail(head, cnext)
    /\ cpc' = "take"
    /\ UNCHANGED <<heapVars, head, hazard, slots_used, retired, producerVars,
                   mode, cnext, used, snapshot, got, stop, sent>>

\* Move the data out, make next the head, retire h.
TakeAndRetire ==
    /\ cpc = "take"
    /\ got' = Append(got, data[cnext])
    /\ head' = cnext
    /\ retired' = retired \cup {head}
    /\ cnext' = null
    /\ cpc' = IF Cardinality(retired) + 1 >= ReclaimThreshold THEN "slots" ELSE "dequeue"
    /\ UNCHANGED <<heapVars, tail, hazard, slots_used, producerVars, mode,
                   used, snapshot, stop, sent>>

\* try_reclaim_: slots_used_, then the slots one after the other.
ReadSlots ==
    /\ cpc = "slots"
    /\ used' = IF slots_used > MaxProducers THEN MaxProducers ELSE slots_used
    /\ snapshot' = << >>
    /\ cpc' = "scan"
    /\ UNCHANGED <<heapVars, tail, head, hazard, slots_used, retired,
                   producerVars, mode, cnext, got, stop, sent>>

ScanHazard ==
    /\ cpc = "scan" /\ Len(snapshot) < used
    /\ snapshot' = Append(snapshot, hazard[Len(snapshot) + 1])
    /\ UNCHANGED <<heapVars, tail, head, hazard, slots_used, retired,
                   producerVars, cpc, mode, cnext, used, got, stop, sent>>

\* delete of every node of a set; what a freed node held is of no account.
Freed(nodes) ==
    /\ live' = live \ nodes
    /\ next' = [a \in Address |-> IF a \in nodes THEN null ELSE next[a]]
    /\ data' = [a \in Address |-> IF a \in nodes THEN << >> ELSE data[a]]

Guarded == ToSet(snapshot)

FreeRetired ==
    /\ cpc = "scan" /\ Len(snapshot) = used
    /\ Freed(retired \ Guarded)
    /\ retired' = retired \cap Guarded
    /\ cpc' = "dequeue" /\ used' = 0 /\ snapshot' = << >>
    /\ UNCHANGED <<tail, head, hazard, slots_used, producerVars,
                   mode, cnext, got, stop, sent>>

Consumer == \/ CheckStop \/ ReadHead \/ ReadTail \/ ConsumerHelpsTail
            \/ TakeAndRetire \/ ReadSlots \/ ScanHazard \/ FreeRetired

\* request_stop, called by the destructor of the session or by shutdown().
RequestStop ==
    /\ ~ stop
    /\ stop' = TRUE
    /\ UNCHANGED <<heapVars, tail, head, hazard, slots_used, retired,
                   producerVars, consumerVars, sent>>

QueueNext == (\E p \in Producers : Producer(p)) \/ Consumer \/ RequestStop

\* A thread that can take a step takes one: the code has no locks here, and
\* the operating system runs every thread.
QueueFairness == (\A p \in Producers : WF_queueVars(Producer(p)))
                    /\ WF_queueVars(Consumer)

QueueSpec == QueueInit /\ [][QueueNext]_queueVars /\ QueueFairness

-----------------------------------------------------------------------------
(* Properties *)

\* No thread reads or writes a node that has been freed: the node a producer
\* has read from tail_ and validated, and the nodes of try_dequeue, are live
\* (try_reclaim_ frees only what no hazard slot protects).
NoUseAfterFree ==
    /\ \A p \in Producers : pc[p] \in {"read", "help", "link"} => t[p] \in live
    /\ head \in live /\ tail \in live
    /\ cnext \in live \cup {null}

Chan == INSTANCE Channel WITH Item <- QueueItem

\* The queue is a channel: an item is in it from the moment it is linked, no
\* item is lost, duplicated or overtaken, whoever helps to move the tail.
QueueImplementsChannel == Chan!ChannelSpec

\* Every call of enqueue returns, and every item that is in the queue while no
\* stop has been requested is taken: run and writer_loop drain the queue after
\* a stop, so that destroying a session loses none of its commands.
QueueDelivers ==
    /\ \A p \in Producers : pc[p] # "idle" ~> pc[p] = "idle"
    /\ \A p \in Producers : \A n \in 1 .. MaxItems[p] :
        ~ stop /\ <<p, n>> \in ToSet(sent) ~> <<p, n>> \in ToSet(got)
=============================================================================
