---------------------------- MODULE SessionChannel ----------------------------
(***************************************************************************)
(* The refinement: every stream of a session is a channel as Channel       *)
(* promises it to the clients of the services.                             *)
(***************************************************************************)
EXTENDS SessionProps

(* The numbers K, from the smallest to the largest. *)
Ascending(K) ==
    CHOOSE p \in [1 .. Cardinality(K) -> K] :
        \A i, j \in 1 .. Cardinality(K) : i < j => p[i] < p[j]

(* The device's stream that stream s's OPEN has started. *)
Serving(s) == {r \in RemoteIds : devSt[r] # "free" /\ devHost[r] = localId[s]}

(* A payload on its way up is in the outbox or in the link ... *)
UpOf(s) ==
    LET q == h2d \o outbox
        p == Ascending({k \in DOMAIN q : q[k].cmd = "WRTE" /\ q[k].arg0 = localId[s]})
    IN  [i \in DOMAIN p |-> q[p[i]].data]

(* ... and a chunk on its way down in the link, in the data channel or in   *)
(* recv's hand.                                                             *)
ChunksDown(s) ==
    LET p == Ascending({k \in DOMAIN d2h : d2h[k].cmd = "WRTE" /\ d2h[k].arg1 = localId[s]})
    IN  [i \in DOMAIN p |-> <<d2h[p[i]].arg0, d2h[p[i]].data>>]

DownOf(s) == hand[s] \o dataQ[s] \o ChunksDown(s)

PeerOf(s) == IF Serving(s) = {} THEN "none"
             ELSE IF \A r \in Serving(s) : devSt[r] = "open" THEN "open"
             ELSE "finished"

(* The owner has given the stream up, or has not got one. *)
GivenUp(s) == \/ life[s] \in {"closed", "dropped", "orphan", "refused",
                              "disconnected"}
              \/ pc[s] \in {"close_mark", "close_remove", "close_post"}

OwnOf(s) == IF GivenUp(s) THEN "closed" ELSE "open"

Lost == link = "down" \/ readerErr \/ writer = "stopped" \/ apc["session"] # "before"

ChannelOf(s) == INSTANCE Channel WITH
    Room   <- 1,
    Window <- 1,
    up     <- UpOf(s),
    down   <- DownOf(s),
    peer   <- PeerOf(s),
    own    <- OwnOf(s),
    lost   <- Lost,
    ended  <- eof[s]

(* Every stream is a Channel, whose send accepts one payload at a time and  *)
(* whose service writes one chunk at a time: in order, nothing lost unless  *)
(* the session or the stream has ended, and None after the last chunk.      *)
KeepsPromise ==
    /\ \A s \in Streams : ChannelOf(s)!ChannelInit
    /\ [][\A s \in Streams :
            [ChannelOf(s)!ChannelNext]_(ChannelOf(s)!channelVars)]_vars

=============================================================================
