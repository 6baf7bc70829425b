--------------------------- MODULE MCSharedBuilds ---------------------------
(* Processes configured with different compile capacities. *)
EXTENDS SharedBuilds, SequencesExt

CONSTANTS p1, p2, k1, k2

\* Both want k1, and k2 competes with it for the slots.
Three == {<<p1, k1>>, <<p2, k1>>, <<p2, k2>>}

MixedCapacity == [p \in Owners |-> IF p = p1 THEN 1 ELSE 2]

\* Queues of up to three builds, each waiting or running; keys do not matter.
SlotRows == [key : {k1}, owner : Owners, rank : 0..2, running : BOOLEAN]
Queues == UNION {[1..n -> SlotRows] : n \in 0..3}

\* admitSlots as the loop it is: slot by slot, in the order of the query.
AdmissionLoop(queue) ==
    LET waiting(r) == SelectSeq([i \in DOMAIN queue |-> i],
                                LAMBDA i : ~queue[i].running /\ queue[i].rank = r)
        capacity == SlotCapacity(queue, DOMAIN queue)
        admit(running, i) ==
            IF HasBuildSlotCapacity(queue, queue[i].rank, running, capacity)
            THEN running \cup {i} ELSE running
    IN  FoldLeft(admit, {i \in DOMAIN queue : queue[i].running},
                 waiting(0) \o waiting(1) \o waiting(2))

\* Admission rank by rank is that loop.
ASSUME AdmissionIsTheLoop ==
    \A queue \in Queues :
        {i \in DOMAIN queue : AdmitSlots(queue, DOMAIN queue)[i].running} = AdmissionLoop(queue)
=============================================================================
