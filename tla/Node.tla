-------------------------------- MODULE Node --------------------------------
(***************************************************************************)
(* The store-and-forward node of package node, as operators on the record  *)
(* of its fields.  StoreAndForward runs one node alone; Mesh runs several. *)
(***************************************************************************)
EXTENDS Bundle, SequencesExt

NewNode == [store |-> EmptyMap, order |-> <<>>, delivered |-> <<>>, seen |-> {}]

\* Mutants: only what is stored counts as a duplicate; nothing does.
IsStoredAlready(n, b) == ID(b) \in DOMAIN n.store

NoDuplicates(n, b) == FALSE

\* The four outcomes of Ingest at the node called self, in the order the code
\* tests for them.
IsDuplicate(n, b) == ID(b) \in n.seen

IsExpired(n, b, now) == ~IsDuplicate(n, b) /\ Expired(b, now)

IsDelivered(self, n, b, now) ==
    ~IsDuplicate(n, b) /\ ~Expired(b, now) /\ NodeID(b.dest) = self

IsStored(self, n, b, now) ==
    ~IsDuplicate(n, b) /\ ~Expired(b, now) /\ NodeID(b.dest) # self

\* The node after Ingest.  A bundle is marked as seen whatever happens to it.
AfterIngest(self, n, b, now) ==
    [store |-> IF IsStored(self, n, b, now) THEN Put(n.store, ID(b), b)
               ELSE n.store,
     order |-> IF IsStored(self, n, b, now) THEN Append(n.order, ID(b))
               ELSE n.order,
     delivered |-> IF IsDelivered(self, n, b, now) THEN Append(n.delivered, b)
                   ELSE n.delivered,
     seen |-> n.seen \cup {ID(b)}]

\* The first place of id in order, when it has one.
FirstPlace(order, id) ==
    CHOOSE i \in DOMAIN order :
        order[i] = id /\ \A j \in DOMAIN order : order[j] = id => i <= j

\* Mutants: the list keeps the ID; the last ID takes its place.
AfterDequeueUnlisted(n, id) == [n EXCEPT !.store = Delete(@, id)]

AfterDequeueSwapped(n, id) ==
    IF id \notin DOMAIN n.store THEN n
    ELSE [n EXCEPT
            !.store = Delete(@, id),
            !.order = [i \in 1..(Len(@) - 1) |->
                         IF i = FirstPlace(@, id) THEN Last(@) ELSE @[i]]]

\* The node after Dequeue, of an ID that it stores or of another one.
AfterDequeue(n, id) ==
    IF id \notin DOMAIN n.store THEN n
    ELSE [n EXCEPT
            !.store = Delete(n.store, id),
            !.order = IF \E i \in DOMAIN n.order : n.order[i] = id
                      THEN RemoveAt(n.order, FirstPlace(n.order, id))
                      ELSE n.order]
=============================================================================
