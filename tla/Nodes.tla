------------------------------- MODULE Nodes -------------------------------
(***************************************************************************)
(* The programs of one machine: which key each runs under                  *)
(* (mdrn-cli/src/main.rs, broadcast.rs, relay.rs), the swarm each creates  *)
(* with its own DHT store (mdrn-core/src/transport/swarm.rs), what a       *)
(* broadcaster puts there, and what discovery makes of a store             *)
(* (mdrn-cli/src/discover.rs).                                             *)
(*                                                                         *)
(* A "tool" is any other program built on the library, as the tests are:   *)
(* it puts any announcement under any key, with or without the namespace,  *)
(* well formed or not, of the stream it announces or not.  A stream id is  *)
(* a name of `chars' characters of `width' UTF-8 bytes each; addresses are *)
(* collision-free.  Kademlia is external: it takes a record or refuses it, *)
(* and nothing in the source asks it for one.                              *)
(***************************************************************************)
EXTENDS Integers, FiniteSets

LOCAL INSTANCE Functions        \* SumFunction

CONSTANTS
    Process,        \* slots for running programs
    Name,           \* stream ids, records with width and chars
    Tag,            \* tags, in any case
    Lower,          \* to_lowercase on tags
    TagSets,        \* the sets of tags that tools announce
    NoTag,          \* discover without --tag
    Limits,         \* values of --limit
    NoKey,          \* there is no key file
    NoAddress,      \* what follows the namespace is not an address in hex
    NoNode,         \* no program in the slot
    Unreadable,     \* a value that is not the CBOR of an announcement
    MaxKeys,        \* bound: key pairs generated
    MaxRecords      \* bound: records in the stores when a tool adds one

ASSUME NodesAssumption ==
    /\ \A n \in Name : n.width \in 1..4 /\ n.chars \in Nat
    /\ Lower \in [Tag -> Tag]
    /\ TagSets \subseteq SUBSET Tag
    /\ {} \in TagSets
    /\ NoTag \notin Tag
    /\ Limits \subseteq Nat
    /\ MaxKeys \in Nat
    /\ MaxRecords \in Nat

VARIABLES
    keyFile,        \* ~/.mdrn/keypair.cbor
    made,           \* key pairs generated so far
    node,           \* the program in each slot and the key it runs under
    store,          \* dht_store of its swarm
    offered         \* records its Kademlia has accepted

vars == <<keyFile, made, node, store, offered>>

KeyType  == {"Ed25519", "Secp256k1"}
Identity == [type : KeyType, serial : 1..MaxKeys]
Kind     == {"broadcast", "relay", "listen", "discover", "tool"}
Node     == [kind : Kind, id : Identity]
Address  == [broadcaster : Identity, name : Name]
(* streams: the key begins with DHT_STREAM_NAMESPACE.                      *)
RecordKey    == [streams : BOOLEAN, address : Address \cup {NoAddress}]
Announcement == [address : Address, tags : SUBSET Tag]
Value        == Announcement \cup {Unreadable}

Empty == [k \in {} |-> Unreadable]

IsStore(s) == DOMAIN s \subseteq RecordKey /\ \A k \in DOMAIN s : s[k] \in Value

TypeOK ==
    /\ keyFile \in Identity \cup {NoKey}
    /\ made \in 0..MaxKeys
    /\ node \in [Process -> Node \cup {NoNode}]
    /\ DOMAIN store = Process /\ DOMAIN offered = Process
    /\ \A p \in Process : IsStore(store[p]) /\ IsStore(offered[p])

Init ==
    /\ keyFile = NoKey
    /\ made = 0
    /\ node = [p \in Process |-> NoNode]
    /\ store = [p \in Process |-> Empty]
    /\ offered = [p \in Process |-> Empty]
-----------------------------------------------------------------------------
NewKey(type) == [type |-> type, serial |-> made + 1]

(* mdrn keygen, to the default location: whatever is there is overwritten. *)
Keygen(type) ==
    /\ made < MaxKeys
    /\ keyFile' = NewKey(type)
    /\ made' = made + 1
    /\ UNCHANGED <<node, store, offered>>

(* MdrnSwarm::new: Ed25519 keys only, and an empty store.                  *)
StartNode(p, kind, id) ==
    /\ node[p] = NoNode
    /\ id.type = "Ed25519"
    /\ node' = [node EXCEPT ![p] = [kind |-> kind, id |-> id]]
    /\ store' = [store EXCEPT ![p] = Empty]
    /\ offered' = [offered EXCEPT ![p] = Empty]

(* load_keypair_default and what follows: a broadcaster needs a key file.  *)
StartBroadcast(p) ==
    /\ keyFile # NoKey
    /\ StartNode(p, "broadcast", keyFile)
    /\ UNCHANGED <<keyFile, made>>

(* Mutant: the generator, seeded alike, yields its last key again.         *)
StartWithSeededKey(p, kind) ==
    /\ made < MaxKeys
    /\ StartNode(p, kind, NewKey("Ed25519"))
    /\ UNCHANGED <<keyFile, made>>

(* A key pair is generated and used, but not saved.                        *)
StartWithNewKey(p, kind) ==
    /\ made < MaxKeys
    /\ StartNode(p, kind, NewKey("Ed25519"))
    /\ made' = made + 1
    /\ UNCHANGED keyFile

(* load_relay_keypair: the key file if there is one, or a new key.         *)
StartRelay(p) ==
    IF keyFile # NoKey
    THEN StartNode(p, "relay", keyFile) /\ UNCHANGED <<keyFile, made>>
    ELSE StartWithNewKey(p, "relay")

(* listen and discover run under temporary keys.                           *)
StartTemporary(p) ==
    \E kind \in {"listen", "discover", "tool"} : StartWithNewKey(p, kind)

Exit(p) ==
    /\ node[p] # NoNode
    /\ node' = [node EXCEPT ![p] = NoNode]
    /\ store' = [store EXCEPT ![p] = Empty]
    /\ offered' = [offered EXCEPT ![p] = Empty]
    /\ UNCHANGED <<keyFile, made>>
-----------------------------------------------------------------------------
(* HashMap::insert.                                                        *)
Inserted(s, key, value) ==
    [k \in DOMAIN s \cup {key} |-> IF k = key THEN value ELSE s[k]]

(* Mutant: the arguments of insert are swapped.                            *)
DhtPutSwapped(p, key, value, ok) ==
    /\ store' = [store EXCEPT ![p] = Inserted(@, value, key)]
    /\ offered' = IF ok
                  THEN [offered EXCEPT ![p] = Inserted(@, value, key)]
                  ELSE offered

(* dht_put: the local copy is written first and stays, whether Kademlia    *)
(* takes the record (ok) or not.                                           *)
DhtPut(p, key, value, ok) ==
    /\ store' = [store EXCEPT ![p] = Inserted(@, key, value)]
    /\ offered' = IF ok
                  THEN [offered EXCEPT ![p] = Inserted(@, key, value)]
                  ELSE offered

AddressOf(p, name) == [broadcaster |-> node[p].id, name |-> name]
KeyOf(address)     == [streams |-> TRUE, address |-> address]

(* Mutant: an error of dht_put is only logged, as those of publish are.    *)
AnnounceRegardless(p) ==
    /\ node[p] # NoNode
    /\ node[p].kind = "broadcast"
    /\ store[p] = Empty
    /\ \E name \in Name, ok \in BOOLEAN :
         LET address == AddressOf(p, name)
             value   == [address |-> address, tags |-> {}]
         IN  DhtPut(p, KeyOf(address), value, ok)
    /\ UNCHANGED <<keyFile, made, node>>

(* The broadcaster announces its stream, without tags; should that fail,   *)
(* the program ends.                                                       *)
Announce(p) ==
    /\ node[p] # NoNode
    /\ node[p].kind = "broadcast"
    /\ store[p] = Empty
    /\ \E name \in Name :
         LET address == AddressOf(p, name)
             value   == [address |-> address, tags |-> {}]
         IN  \/ DhtPut(p, KeyOf(address), value, TRUE) /\ UNCHANGED node
             \/ /\ node' = [node EXCEPT ![p] = NoNode]
                /\ store' = [store EXCEPT ![p] = Empty]
                /\ UNCHANGED offered
    /\ UNCHANGED <<keyFile, made>>

(* A tool puts any value under any key: dht_put compares neither with the  *)
(* other, nor with whose they are.                                         *)
Put(p) ==
    /\ node[p] # NoNode
    /\ node[p].kind = "tool"
    /\ SumFunction([q \in Process |-> Cardinality(DOMAIN store[q])])
         < MaxRecords
    /\ LET streams == {AddressOf(q, name) :
                          q \in {r \in Process : node[r] # NoNode},
                          name \in Name}
       IN  \E key \in [streams : BOOLEAN, address : streams \cup {NoAddress}],
              value \in [address : streams, tags : TagSets] \cup {Unreadable},
              ok \in BOOLEAN :
                DhtPut(p, key, value, ok)
    /\ UNCHANGED <<keyFile, made, node>>

Next ==
    \/ \E type \in KeyType : Keygen(type)
    \/ \E p \in Process : \/ StartBroadcast(p)
                          \/ StartRelay(p)
                          \/ StartTemporary(p)
                          \/ Announce(p)
                          \/ Put(p)
                          \/ Exit(p)

Spec == Init /\ [][Next]_vars
-----------------------------------------------------------------------------
(* discover_streams on the store s: the records that are announcements ... *)
Announced(s) == {k \in DOMAIN s : k.streams /\ s[k] # Unreadable}

(* ... those the filter keeps ...                                          *)
Suits(announcement, tag) ==
    tag # NoTag => \E t \in announcement.tags : Lower[t] = Lower[tag]

Matching(s, tag) == {k \in Announced(s) : Suits(s[k], tag)}

Smaller(a, b) == IF a < b THEN a ELSE b

(* All choices of up to n records of ks.                                   *)
Taken(ks, n) ==
    {kept \in SUBSET ks : Cardinality(kept) = Smaller(n, Cardinality(ks))}

(* Mutant: the limit is applied before the filter.                         *)
LimitedFirst(s, tag, limit) ==
    {[streams  |-> {k \in kept : Suits(s[k], tag)},
      total    |-> Cardinality(Announced(s)),
      filtered |-> Cardinality(Matching(s, tag))] :
        kept \in Taken(Announced(s), limit)}

(* ... and the results: as many of them as the limit allows, whichever the *)
(* HashMap yields first.                                                   *)
Discoveries(s, tag, limit) ==
    {[streams  |-> kept,
      total    |-> Cardinality(Announced(s)),
      filtered |-> Cardinality(Matching(s, tag))] :
        kept \in Taken(Matching(s, tag), limit)}

(* truncate(stream_id, 20) slices at byte 17, which panics within a        *)
(* character.                                                              *)
Bytes(name) == name.width * name.chars
TruncatePanics(name) == Bytes(name) > 20 /\ 17 % name.width # 0

(* What format_discover_output says of a result from the store s: that     *)
(* there is nothing, that nothing matches, or a table under a line that    *)
(* omits the total and the number shown when they are the number found.    *)
Report(s, r) ==
    IF r.streams = {}
    THEN IF r.total = 0 THEN [says |-> "nothing"]
         ELSE [says |-> "no_match", total |-> r.total]
    ELSE IF \E k \in r.streams : TruncatePanics(s[k].address.name)
    THEN [says |-> "panic"]
    ELSE [says  |-> "table",
          found |-> r.filtered,
          total |-> IF r.filtered < r.total THEN r.total ELSE r.filtered,
          shown |-> IF Cardinality(r.streams) < r.filtered
                    THEN Cardinality(r.streams) ELSE r.filtered]

(* lookup_stream_announcement: a stream by its address.                    *)
Lookup(s, address) ==
    IF KeyOf(address) \in DOMAIN s THEN s[KeyOf(address)] ELSE Unreadable
-----------------------------------------------------------------------------
(* Two programs of a machine run under one peer id only if each of them is *)
(* a broadcaster or a relay, which read the key file: a listener, or a tool*)
(* with a temporary key, is never taken for another program, whatever is   *)
(* generated and overwritten meanwhile (load_keypair_default,              *)
(* load_relay_keypair, run_listen_network).                                *)
OnlyServersSharePeerIds ==
    \A p, q \in Process :
        p # q /\ node[p] # NoNode /\ node[q] # NoNode
              /\ node[p].id = node[q].id
            => {node[p].kind, node[q].kind} \subseteq {"broadcast", "relay"}

(* What a running broadcaster holds as announced, Kademlia has accepted:   *)
(* the local copy that dht_put leaves behind when it fails does not        *)
(* outlive the failure (broadcast_to_network).                             *)
AnnouncedIsOffered ==
    \A p \in Process :
        node[p] # NoNode /\ node[p].kind = "broadcast"
            => \A k \in DOMAIN store[p] :
                 k \in DOMAIN offered[p] /\ offered[p][k] = store[p][k]

(* A report on the results r from the store s agrees with what lookups of  *)
(* addresses find there.  A record of the namespace whose key is of no     *)
(* address, a stray, is found by none but counts.                          *)
Agrees(s, tag, limit, r) ==
    LET report    == Report(s, r)
        stray     == \E k \in Announced(s) : k.address = NoAddress
        found     == {a \in {k.address : k \in DOMAIN s} \ {NoAddress} :
                        Lookup(s, a) # Unreadable}
        suitable  == {a \in found : Suits(Lookup(s, a), tag)}
        Counts(n, S) == n = Cardinality(S) \/ (stray /\ n > Cardinality(S))
    IN  /\ report.says = "nothing" => found = {}
        /\ report.says = "no_match" =>
             suitable = {} /\ Counts(report.total, found)
        /\ report.says = "table" =>
             /\ Counts(report.found, suitable)
             /\ Counts(report.total, found)
             /\ report.shown = Smaller(limit, report.found)
             /\ report.shown = report.found =>
                  \A a \in suitable : \E k \in r.streams : s[k] = Lookup(s, a)

(* Whatever is in a store, under whatever keys, and whatever is asked for: *)
(* discovery misses no stream that a lookup of its address finds.  It says *)
(* that there is nothing, or nothing suitable, only when lookups find none;*)
(* its numbers are theirs, but for records under no address; and a table   *)
(* that is not cut short has a row for each of them (discover_streams,     *)
(* format_discover_output, lookup_stream_announcement).  Of --limit 0,     *)
(* which is answered by the wrong words, and of a panic in the table       *)
(* nothing is said.                                                        *)
ReportsAreComplete ==
    \A p \in Process, tag \in Tag \cup {NoTag}, limit \in Limits :
        limit > 0 => \A r \in Discoveries(store[p], tag, limit) :
                        Agrees(store[p], tag, limit, r)
=============================================================================
