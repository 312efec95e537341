--------------------------- MODULE StreamService ---------------------------
(***************************************************************************)
(* What the three programs of a stream do together, without timers,        *)
(* connections, topics and queues: the broadcaster publishes the chunks of *)
(* a recording one after the other, and every listener hears each of them  *)
(* at most twice, as gossipsub forwards it and as the relay publishes it   *)
(* again, either way in order; the relay leaves out none in between.  It is*)
(* the service of the code, not the one of docs/TEST-PLAN-LISTEN.md, where *)
(* a listener ignores the second copy.                                     *)
(***************************************************************************)
EXTENDS Integers, SequencesExt

CONSTANTS
    Listener,
    LastChunk       \* the recording has the chunks 1 .. LastChunk

VARIABLES
    published,      \* so many chunks have been published
    heard           \* what each listener has decoded, in order

Init ==
    /\ published = 0
    /\ heard = [l \in Listener |-> <<>>]

Publish ==
    /\ published < LastChunk
    /\ published' = published + 1
    /\ UNCHANGED heard

(* The chunks that l has heard this way.                                   *)
HeardBy(l, via) ==
    {n \in 1..LastChunk : \E i \in DOMAIN heard[l] :
                              heard[l][i].via = via /\ heard[l][i].seq = n}

(* Newer than all of them, and without a gap if run() publishes it again.  *)
Follows(l, n, via) ==
    /\ \A m \in HeardBy(l, via) : m < n
    /\ via = "republished" => HeardBy(l, via) = {} \/ n - 1 \in HeardBy(l, via)

Hear(l) ==
    /\ \E n \in 1..published, via \in {"forwarded", "republished"} :
         /\ Follows(l, n, via)
         /\ heard' = [heard EXCEPT ![l] = Append(@, [seq |-> n, via |-> via])]
    /\ UNCHANGED published

Next == Publish \/ \E l \in Listener : Hear(l)

Spec == Init /\ [][Next]_<<published, heard>>
=============================================================================
