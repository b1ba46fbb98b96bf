------------------------ MODULE DuplicateRequestCache ------------------------
(***************************************************************************)
(* What the transaction tracker promises its callers, without time: every  *)
(* key (xid, client address) is vacant, in progress or completed with one  *)
(* response.  A vacant key may be claimed, a claimed key is completed or   *)
(* released, a completed key keeps its response until it is forgotten, and *)
(* nothing but a completed key is ever forgotten.                          *)
(*                                                                         *)
(* TransactionTracker is shown to implement Spec; RpcPipeline keeps its    *)
(* cache with the operators below.                                         *)
(***************************************************************************)
CONSTANTS Keys, Responses

VARIABLE cache

Vacant == [tag |-> "Vacant"]
InProgress == [tag |-> "InProgress"]
Completed(r) == [tag |-> "Completed", response |-> r]

Entries == {Vacant, InProgress} \cup [tag : {"Completed"}, response : Responses]

\* The keys a lookup may forget on its way.
Forgettable(c) == {k \in DOMAIN c : c[k].tag = "Completed"}

\* The cache once the keys of S are forgotten.
Forget(c, S) == [k \in DOMAIN c |-> IF k \in S THEN Vacant ELSE c[k]]

Init == cache = [k \in Keys |-> Vacant]

\* A call is new: its key, vacant once S is forgotten, is claimed.
Claim(k, S) ==
    /\ Forget(cache, S)[k] = Vacant
    /\ cache' = [Forget(cache, S) EXCEPT ![k] = InProgress]

\* A call is a retransmission: it is dropped or answered from the cache.
Repeat(k, S) ==
    /\ Forget(cache, S)[k] # Vacant
    /\ cache' = Forget(cache, S)

\* The response of a claimed call is kept.
Complete(k) ==
    /\ cache[k] = InProgress
    /\ \E r \in Responses : cache' = [cache EXCEPT ![k] = Completed(r)]

\* A claimed call failed: a retry will be processed.
Release(k) ==
    /\ cache[k] = InProgress
    /\ cache' = [cache EXCEPT ![k] = Vacant]

Next ==
    \E k \in Keys :
        \/ \E S \in SUBSET Forgettable(cache) : Claim(k, S) \/ Repeat(k, S)
        \/ Complete(k)
        \/ Release(k)

Spec == Init /\ [][Next]_cache
==============================================================================
