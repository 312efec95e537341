---------------------------- MODULE Nodes_proofs ----------------------------
(***************************************************************************)
(* Proofs about Nodes, for any number of programs, keys, names and records.*)
(*                                                                         *)
(* That only servers share peer ids is not inductive: a relay that starts  *)
(* now takes the key in the file, which must not be one a listener runs    *)
(* under, and a listener takes a new key, which nobody may have had.       *)
(* KeysAreFresh says so.                                                   *)
(***************************************************************************)
EXTENDS Nodes, Facts

Running == {p \in Process : node[p] # NoNode}

(* Every key in use has been generated, and the file does not hold that of *)
(* a temporary program.                                                    *)
KeysAreFresh ==
    /\ keyFile # NoKey => keyFile.serial <= made
    /\ \A p \in Running :
         /\ node[p].id.serial <= made
         /\ keyFile # NoKey /\ node[p].id = keyFile
              => node[p].kind \in {"broadcast", "relay"}

KeysInv == KeysAreFresh /\ OnlyServersSharePeerIds
-----------------------------------------------------------------------------
(* A record put into a store leaves a store (DhtPut).                      *)
LEMMA InsertedIsStore ==
    ASSUME NEW s, IsStore(s), NEW key \in RecordKey, NEW value \in Value
    PROVE  IsStore(Inserted(s, key, value))
  BY DEF IsStore, Inserted

LEMMA EmptyIsStore == IsStore(Empty)
  BY DEF IsStore, Empty

LEMMA NewKeyIsNew ==
    ASSUME TypeOK, made < MaxKeys, NEW type \in KeyType
    PROVE  /\ NewKey(type) \in Identity
           /\ NewKey(type).serial = made + 1
           /\ made + 1 \in 0..MaxKeys
  BY NodesAssumption DEF TypeOK, NewKey, Identity

(* A program that starts has an empty store; the others are as they were.  *)
LEMMA StartKeepsTypes ==
    ASSUME TypeOK, NEW p \in Process, NEW kind \in Kind, NEW id \in Identity,
           StartNode(p, kind, id)
    PROVE  /\ node' \in [Process -> Node \cup {NoNode}]
           /\ DOMAIN store' = Process /\ DOMAIN offered' = Process
           /\ \A q \in Process : IsStore(store'[q]) /\ IsStore(offered'[q])
  <1>1. [kind |-> kind, id |-> id] \in Node
    BY DEF Node
  <1> QED
    BY <1>1, EmptyIsStore DEF TypeOK, StartNode

LEMMA PutKeepsTypes ==
    ASSUME TypeOK, NEW p \in Process, NEW key \in RecordKey,
           NEW value \in Value, NEW ok \in BOOLEAN, DhtPut(p, key, value, ok)
    PROVE  /\ DOMAIN store' = Process /\ DOMAIN offered' = Process
           /\ \A q \in Process : IsStore(store'[q]) /\ IsStore(offered'[q])
  <1>1. /\ IsStore(Inserted(store[p], key, value))
        /\ IsStore(Inserted(offered[p], key, value))
    BY InsertedIsStore DEF TypeOK
  <1> QED
    BY <1>1 DEF TypeOK, DhtPut
-----------------------------------------------------------------------------
LEMMA TypeCorrectInitially == Init => TypeOK
  BY NodesAssumption, EmptyIsStore DEF Init, TypeOK

LEMMA TypeCorrectNext == TypeOK /\ [Next]_vars => TypeOK'
<1> SUFFICES ASSUME TypeOK, [Next]_vars PROVE TypeOK'
  OBVIOUS
<1>1. ASSUME NEW type \in KeyType, Keygen(type) PROVE TypeOK'
  BY <1>1, NewKeyIsNew DEF Keygen, TypeOK
<1>2. ASSUME NEW p \in Process, StartBroadcast(p) PROVE TypeOK'
  <2>1. keyFile \in Identity /\ "broadcast" \in Kind
    BY <1>2 DEF StartBroadcast, TypeOK, Kind
  <2> QED
    BY <1>2, <2>1, StartKeepsTypes DEF StartBroadcast, TypeOK
<1>3. ASSUME NEW p \in Process, NEW kind \in Kind, StartWithNewKey(p, kind)
      PROVE  TypeOK'
  <2>1. NewKey("Ed25519") \in Identity /\ made + 1 \in 0..MaxKeys
    BY <1>3, NewKeyIsNew DEF StartWithNewKey, KeyType
  <2> QED
    BY <1>3, <2>1, StartKeepsTypes DEF StartWithNewKey, TypeOK
<1>4. ASSUME NEW p \in Process, StartRelay(p) PROVE TypeOK'
  <2>1. "relay" \in Kind
    BY DEF Kind
  <2>2. CASE keyFile = NoKey
    BY <1>3, <1>4, <2>1, <2>2 DEF StartRelay
  <2>3. CASE keyFile # NoKey
    <3>1. keyFile \in Identity
      BY <2>3 DEF TypeOK
    <3> QED
      BY <1>4, <2>1, <2>3, <3>1, StartKeepsTypes DEF StartRelay, TypeOK
  <2> QED
    BY <2>2, <2>3
<1>5. ASSUME NEW p \in Process, StartTemporary(p) PROVE TypeOK'
  BY <1>3, <1>5 DEF StartTemporary, Kind
<1>6. ASSUME NEW p \in Process, Announce(p) PROVE TypeOK'
  <2>1. PICK name \in Name :
          LET address == AddressOf(p, name)
              value   == [address |-> address, tags |-> {}]
          IN  \/ DhtPut(p, KeyOf(address), value, TRUE) /\ UNCHANGED node
              \/ /\ node' = [node EXCEPT ![p] = NoNode]
                 /\ store' = [store EXCEPT ![p] = Empty]
                 /\ UNCHANGED offered
    BY <1>6 DEF Announce
  <2> DEFINE address == AddressOf(p, name)
             value   == [address |-> address, tags |-> {}]
  <2>2. KeyOf(address) \in RecordKey /\ value \in Value
    BY <1>6 DEF Announce, TypeOK, Node, AddressOf, Address, KeyOf, RecordKey,
                Value, Announcement
  <2>3. UNCHANGED <<keyFile, made>>
    BY <1>6 DEF Announce
  <2>4. CASE DhtPut(p, KeyOf(address), value, TRUE) /\ UNCHANGED node
    <3> HIDE DEF address, value
    <3> QED
      BY <2>2, <2>3, <2>4, PutKeepsTypes DEF TypeOK
  <2>5. CASE /\ node' = [node EXCEPT ![p] = NoNode]
             /\ store' = [store EXCEPT ![p] = Empty]
             /\ UNCHANGED offered
    BY <2>3, <2>5, EmptyIsStore DEF TypeOK
  <2> QED
    BY <2>1, <2>4, <2>5
<1>7. ASSUME NEW p \in Process, Put(p) PROVE TypeOK'
  <2> DEFINE streams == {AddressOf(q, name) :
                           q \in {r \in Process : node[r] # NoNode},
                           name \in Name}
  <2>1. PICK key \in [streams : BOOLEAN, address : streams \cup {NoAddress}],
             value \in [address : streams, tags : TagSets] \cup {Unreadable},
             ok \in BOOLEAN :
               DhtPut(p, key, value, ok)
    BY <1>7 DEF Put
  <2>2. streams \subseteq Address
    BY DEF TypeOK, Node, AddressOf, Address
  <2>3. key \in RecordKey
    BY <2>2 DEF RecordKey
  <2>4. value \in Value
    BY <2>2, NodesAssumption DEF Value, Announcement
  <2>5. UNCHANGED <<keyFile, made, node>>
    BY <1>7 DEF Put
  <2> QED
    BY <2>1, <2>3, <2>4, <2>5, PutKeepsTypes DEF TypeOK
<1>8. ASSUME NEW p \in Process, Exit(p) PROVE TypeOK'
  BY <1>8, EmptyIsStore DEF Exit, TypeOK
<1>9. CASE UNCHANGED vars
  BY <1>9 DEF vars, TypeOK, IsStore
<1> QED
  BY <1>1, <1>2, <1>4, <1>5, <1>6, <1>7, <1>8, <1>9 DEF Next

(* The keys, programs and stores are always what the program keeps in them *)
(* (main.rs, MdrnSwarm).                                                   *)
THEOREM NodesTypeCorrect == Spec => []TypeOK
  BY TypeCorrectInitially, TypeCorrectNext, PTL DEF Spec
-----------------------------------------------------------------------------
LEMMA KeysInitially == Init => KeysInv
  BY DEF Init, KeysInv, KeysAreFresh, Running, OnlyServersSharePeerIds

(* Serial numbers can be compared.                                         *)
LEMMA SerialsAreNumbers ==
    ASSUME TypeOK
    PROVE  /\ made \in Nat
           /\ keyFile # NoKey => keyFile \in Identity /\ keyFile.serial \in Nat
           /\ \A p \in Running : /\ node[p] \in Node
                                 /\ node[p].id \in Identity
                                 /\ node[p].id.serial \in Nat
  BY NodesAssumption DEF TypeOK, Running, Node, Identity

(* A program may start under the key in the file if it is a server, and    *)
(* under a new key whatever it is.                                         *)
LEMMA StartKeepsKeys ==
    ASSUME TypeOK, TypeOK', KeysInv, NEW p \in Process, NEW kind \in Kind,
           NEW id \in Identity, StartNode(p, kind, id), UNCHANGED keyFile,
           \/ /\ kind \in {"broadcast", "relay"} /\ keyFile # NoKey
              /\ id = keyFile /\ made' = made
           \/ id.serial = made + 1 /\ made' = made + 1
    PROVE  KeysInv'
<1>1. /\ Running' \subseteq Running \cup {p}
      /\ node'[p] = [kind |-> kind, id |-> id]
      /\ \A q \in Process \ {p} : node'[q] = node[q]
  BY DEF StartNode, TypeOK, Running
<1>2. made \in Nat /\ made <= made'
  BY SerialsAreNumbers
<1>3. \A q \in Running : /\ node[q].id.serial \in Nat
                         /\ node[q].id.serial <= made
  BY SerialsAreNumbers DEF KeysInv, KeysAreFresh
<1>4. keyFile # NoKey => keyFile.serial \in Nat /\ keyFile.serial <= made
  BY SerialsAreNumbers DEF KeysInv, KeysAreFresh
<1>5. \A q \in Running : node[q].id = id =>
         node[q].kind \in {"broadcast", "relay"}
             /\ kind \in {"broadcast", "relay"}
  BY <1>2, <1>3 DEF KeysInv, KeysAreFresh
<1>6. keyFile # NoKey /\ id = keyFile => kind \in {"broadcast", "relay"}
  BY <1>2, <1>4
<1>7. id.serial <= made' /\ node[p] = NoNode
  BY <1>2, <1>4 DEF StartNode
<1>8. KeysAreFresh'
  <2>1. keyFile' # NoKey => keyFile'.serial <= made'
    BY <1>2, <1>4
  <2>2. ASSUME NEW q \in Running'
        PROVE  /\ node'[q].id.serial <= made'
               /\ keyFile' # NoKey /\ node'[q].id = keyFile'
                    => node'[q].kind \in {"broadcast", "relay"}
    <3>1. CASE q = p
      BY <1>1, <1>6, <1>7, <3>1
    <3>2. CASE q # p
      <4>1. q \in Running /\ node'[q] = node[q]
        BY <1>1, <3>2 DEF Running
      <4>2. node[q].id.serial <= made'
        BY <1>2, <1>3, <4>1
      <4> QED
        BY <4>1, <4>2 DEF KeysInv, KeysAreFresh
    <3> QED
      BY <3>1, <3>2
  <2> QED
    BY <2>1, <2>2 DEF KeysAreFresh
<1>9. OnlyServersSharePeerIds'
  <2> SUFFICES ASSUME NEW q \in Process, NEW r \in Process, q # r,
                      q \in Running', r \in Running',
                      node'[q].id = node'[r].id
               PROVE  /\ node'[q].kind \in {"broadcast", "relay"}
                      /\ node'[r].kind \in {"broadcast", "relay"}
    BY DEF OnlyServersSharePeerIds, Running
  <2>1. CASE q = p
    BY <1>1, <1>5, <2>1
  <2>2. CASE r = p
    BY <1>1, <1>5, <2>2
  <2>3. CASE q # p /\ r # p
    BY <1>1, <2>3 DEF KeysInv, OnlyServersSharePeerIds, Running
  <2> QED
    BY <2>1, <2>2, <2>3
<1> QED
  BY <1>8, <1>9 DEF KeysInv

(* Nor does it harm that a program ends, or that nothing starts or ends.   *)
LEMMA EndingKeepsKeys ==
    ASSUME TypeOK, KeysInv, UNCHANGED <<keyFile, made>>,
           \A q \in Process : node'[q] \in {node[q], NoNode}
    PROVE  KeysInv'
  BY DEF KeysInv, KeysAreFresh, OnlyServersSharePeerIds, Running

LEMMA KeysNext == TypeOK /\ TypeOK' /\ KeysInv /\ [Next]_vars => KeysInv'
<1> SUFFICES ASSUME TypeOK, TypeOK', KeysInv, [Next]_vars PROVE KeysInv'
  OBVIOUS
<1>1. ASSUME NEW type \in KeyType, Keygen(type) PROVE KeysInv'
  <2>1. keyFile'.serial = made + 1 /\ made' = made + 1 /\ node' = node
    BY <1>1, NewKeyIsNew DEF Keygen
  <2>2. \A q \in Running : /\ node[q].id.serial <= made'
                           /\ node[q].id # keyFile'
    BY <2>1, SerialsAreNumbers DEF KeysInv, KeysAreFresh
  <2>3. keyFile'.serial <= made'
    BY <2>1, SerialsAreNumbers
  <2> QED
    BY <2>1, <2>2, <2>3
    DEF KeysInv, KeysAreFresh, OnlyServersSharePeerIds, Running
<1>2. ASSUME NEW p \in Process, NEW kind \in Kind, StartWithNewKey(p, kind)
      PROVE  KeysInv'
  BY <1>2, NewKeyIsNew, StartKeepsKeys DEF StartWithNewKey, KeyType
<1>3. ASSUME NEW p \in Process, NEW kind \in {"broadcast", "relay"},
             keyFile # NoKey, StartNode(p, kind, keyFile),
             UNCHANGED <<keyFile, made>>
      PROVE  KeysInv'
  BY <1>3, SerialsAreNumbers, StartKeepsKeys DEF Kind
<1>4. ASSUME NEW p \in Process, StartBroadcast(p) PROVE KeysInv'
  BY <1>3, <1>4 DEF StartBroadcast
<1>5. ASSUME NEW p \in Process, StartRelay(p) PROVE KeysInv'
  BY <1>2, <1>3, <1>5 DEF StartRelay, Kind
<1>6. ASSUME NEW p \in Process, StartTemporary(p) PROVE KeysInv'
  BY <1>2, <1>6 DEF StartTemporary, Kind
<1>7. ASSUME NEW p \in Process, Announce(p) \/ Put(p) \/ Exit(p)
      PROVE  KeysInv'
  <2>1. CASE Put(p)
    <3>1. UNCHANGED <<keyFile, made, node>>
      BY <2>1 DEF Put
    <3> QED
      BY <3>1, EndingKeepsKeys
  <2>2. CASE Announce(p) \/ Exit(p)
    <3>1. \A q \in Process : node'[q] \in {node[q], NoNode}
      BY <2>2 DEF Announce, Exit, TypeOK
    <3>2. UNCHANGED <<keyFile, made>>
      BY <2>2 DEF Announce, Exit
    <3> QED
      BY <3>1, <3>2, EndingKeepsKeys
  <2> QED
    BY <1>7, <2>1, <2>2
<1>8. CASE UNCHANGED vars
  BY <1>8, EndingKeepsKeys DEF vars
<1> QED
  BY <1>1, <1>4, <1>5, <1>6, <1>7, <1>8 DEF Next

(* Whatever is generated, overwritten, started and ended, in any order and *)
(* any number: two programs of a machine share a peer id only if both read *)
(* it from the key file (load_keypair_default, load_relay_keypair).        *)
THEOREM PeerIdsShared == Spec => []OnlyServersSharePeerIds
<1>1. Init => TypeOK /\ KeysInv
  BY TypeCorrectInitially, KeysInitially
<1>2. TypeOK /\ KeysInv /\ [Next]_vars => (TypeOK /\ KeysInv)'
  BY TypeCorrectNext, KeysNext
<1>3. KeysInv => OnlyServersSharePeerIds
  BY DEF KeysInv
<1> QED
  BY <1>1, <1>2, <1>3, PTL DEF Spec
-----------------------------------------------------------------------------
(* A store that is empty holds nothing but what was accepted, and an equal *)
(* insertion into both keeps it so.                                        *)
LEMMA InsertedAlike ==
    ASSUME NEW s, NEW t, NEW key, NEW value, s = Empty
    PROVE  \A k \in DOMAIN Inserted(s, key, value) :
              /\ k \in DOMAIN Inserted(t, key, value)
              /\ Inserted(t, key, value)[k] = Inserted(s, key, value)[k]
  BY DEF Inserted, Empty

LEMMA AnnouncedNext ==
    TypeOK /\ AnnouncedIsOffered /\ [Next]_vars => AnnouncedIsOffered'
<1> SUFFICES ASSUME TypeOK, AnnouncedIsOffered, [Next]_vars
             PROVE  AnnouncedIsOffered'
  OBVIOUS
<1>0. DOMAIN Empty = {}
  BY DEF Empty
<1>1. ASSUME NEW type \in KeyType, Keygen(type) PROVE AnnouncedIsOffered'
  BY <1>1 DEF Keygen, AnnouncedIsOffered
<1>2. ASSUME NEW p \in Process, NEW kind, NEW id, StartNode(p, kind, id)
      PROVE  AnnouncedIsOffered'
  BY <1>0, <1>2 DEF StartNode, AnnouncedIsOffered, TypeOK
<1>3. ASSUME NEW p \in Process,
             StartBroadcast(p) \/ StartRelay(p) \/ StartTemporary(p)
      PROVE  AnnouncedIsOffered'
  BY <1>2, <1>3 DEF StartBroadcast, StartRelay, StartTemporary, StartWithNewKey
<1>4. ASSUME NEW p \in Process, Announce(p) PROVE AnnouncedIsOffered'
  <2>1. PICK name \in Name :
          LET address == AddressOf(p, name)
              value   == [address |-> address, tags |-> {}]
          IN  \/ DhtPut(p, KeyOf(address), value, TRUE) /\ UNCHANGED node
              \/ /\ node' = [node EXCEPT ![p] = NoNode]
                 /\ store' = [store EXCEPT ![p] = Empty]
                 /\ UNCHANGED offered
    BY <1>4 DEF Announce
  <2> DEFINE key   == KeyOf(AddressOf(p, name))
             value == [address |-> AddressOf(p, name), tags |-> {}]
  <2>2. CASE DhtPut(p, key, value, TRUE) /\ UNCHANGED node
    <3> HIDE DEF key, value
    <3>1. /\ store' = [store EXCEPT ![p] = Inserted(@, key, value)]
          /\ offered' = [offered EXCEPT ![p] = Inserted(@, key, value)]
          /\ node' = node
      BY <2>2 DEF DhtPut
    <3>2. store[p] = Empty
      BY <1>4 DEF Announce
    <3> QED
      BY <3>1, <3>2, InsertedAlike DEF AnnouncedIsOffered, TypeOK
  <2>3. CASE /\ node' = [node EXCEPT ![p] = NoNode]
             /\ store' = [store EXCEPT ![p] = Empty]
             /\ UNCHANGED offered
    BY <1>0, <2>3 DEF AnnouncedIsOffered, TypeOK
  <2> QED
    BY <2>1, <2>2, <2>3
<1>5. ASSUME NEW p \in Process, Put(p) PROVE AnnouncedIsOffered'
  <2>1. node' = node /\ node[p].kind = "tool"
    BY <1>5 DEF Put
  <2>2. \A q \in Process \ {p} :
           store'[q] = store[q] /\ offered'[q] = offered[q]
    BY <1>5 DEF Put, DhtPut, TypeOK
  <2> QED
    BY <2>1, <2>2 DEF AnnouncedIsOffered
<1>6. ASSUME NEW p \in Process, Exit(p) PROVE AnnouncedIsOffered'
  BY <1>0, <1>6 DEF Exit, AnnouncedIsOffered, TypeOK
<1>7. CASE UNCHANGED vars
  BY <1>7 DEF vars, AnnouncedIsOffered
<1> QED
  BY <1>1, <1>3, <1>4, <1>5, <1>6, <1>7 DEF Next

(* No record that Kademlia refused stays in the store of a broadcaster that*)
(* goes on (dht_put, broadcast_to_network).                                *)
THEOREM AnnouncedOffered == Spec => []AnnouncedIsOffered
<1>1. Init => TypeOK /\ AnnouncedIsOffered
  BY TypeCorrectInitially DEF Init, AnnouncedIsOffered, Empty
<1>2. TypeOK /\ AnnouncedIsOffered /\ [Next]_vars
        => (TypeOK /\ AnnouncedIsOffered)'
  BY TypeCorrectNext, AnnouncedNext
<1> QED
  BY <1>1, <1>2, PTL DEF Spec
-----------------------------------------------------------------------------
(* Discovery                                                               *)

(* A store holds what was put there, one record at a time.                 *)
StoresAreFinite == \A p \in Process : IsFiniteSet(DOMAIN store[p])

LEMMA FiniteNext ==
    TypeOK /\ StoresAreFinite /\ [Next]_vars => StoresAreFinite'
<1> SUFFICES ASSUME TypeOK, StoresAreFinite, [Next]_vars
             PROVE  StoresAreFinite'
  OBVIOUS
<1>1. IsFiniteSet(DOMAIN Empty)
  <2>1. DOMAIN Empty = {}
    BY DEF Empty
  <2> QED
    BY <2>1, FS_EmptySet
<1>2. ASSUME NEW s, NEW key, NEW value, IsFiniteSet(DOMAIN s)
      PROVE  IsFiniteSet(DOMAIN Inserted(s, key, value))
  <2>1. DOMAIN Inserted(s, key, value) = DOMAIN s \cup {key}
    BY DEF Inserted
  <2> QED
    BY <1>2, <2>1, FS_AddElement
<1>3. ASSUME NEW p \in Process, NEW key, NEW value, NEW ok,
             DhtPut(p, key, value, ok)
      PROVE  StoresAreFinite'
  BY <1>2, <1>3 DEF DhtPut, StoresAreFinite, TypeOK
<1>4. ASSUME NEW p \in Process, store' = [store EXCEPT ![p] = Empty]
      PROVE  StoresAreFinite'
  BY <1>1, <1>4 DEF StoresAreFinite, TypeOK
<1>5. ASSUME NEW p \in Process,
             StartBroadcast(p) \/ StartRelay(p) \/ StartTemporary(p)
      PROVE  StoresAreFinite'
  BY <1>4, <1>5
  DEF StartBroadcast, StartRelay, StartTemporary, StartWithNewKey, StartNode
<1>6. ASSUME NEW p \in Process, Announce(p) PROVE StoresAreFinite'
  <2>1. \/ \E key, value : DhtPut(p, key, value, TRUE)
        \/ store' = [store EXCEPT ![p] = Empty]
    BY <1>6 DEF Announce
  <2> QED
    BY <1>3, <1>4, <2>1
<1>7. ASSUME NEW p \in Process, Put(p) PROVE StoresAreFinite'
  <2>1. \E key, value, ok : DhtPut(p, key, value, ok)
    BY <1>7 DEF Put
  <2> QED
    BY <1>3, <2>1
<1>8. ASSUME NEW p \in Process, Exit(p) PROVE StoresAreFinite'
  BY <1>4, <1>8 DEF Exit
<1>9. ASSUME UNCHANGED store PROVE StoresAreFinite'
  BY <1>9 DEF StoresAreFinite
<1>10. ASSUME NEW type \in KeyType, Keygen(type) PROVE UNCHANGED store
  BY <1>10 DEF Keygen
<1> QED
  BY <1>5, <1>6, <1>7, <1>8, <1>9, <1>10 DEF Next, vars

(* Records of the namespace are as many as their addresses: the key of a   *)
(* record is its address (dht_key).                                        *)
LEMMA AddressesCount ==
    ASSUME NEW s, IsStore(s), IsFiniteSet(DOMAIN s),
           NEW K \in SUBSET Announced(s)
    PROVE  /\ IsFiniteSet(K)
           /\ Cardinality({k.address : k \in K}) = Cardinality(K)
           /\ Cardinality(K) \in Nat
<1> DEFINE f == [k \in K |-> k.address]
           T == {k.address : k \in K}
<1>1. \A k \in K : k \in RecordKey /\ k.streams /\ k = KeyOf(k.address)
  BY DEF Announced, IsStore, RecordKey, KeyOf
<1>2. f \in Bijection(K, T)
  <2>1. f \in [K -> T]
    OBVIOUS
  <2>2. \A a, b \in K : f[a] = f[b] => a = b
    BY <1>1
  <2>3. \A t \in T : \E a \in K : f[a] = t
    OBVIOUS
  <2> QED
    BY <2>1, <2>2, <2>3 DEF Bijection, Injection, Surjection, IsInjective
<1>3. IsFiniteSet(K)
  <2>1. K \subseteq DOMAIN s
    BY DEF Announced
  <2> QED
    BY <2>1, FS_Subset
<1>4. ExistsBijection(K, T)
  BY <1>2 DEF ExistsBijection
<1> HIDE DEF T
<1>5. Cardinality(T) = Cardinality(K)
  BY <1>3, <1>4, FS_Bijection
<1> QED
  BY <1>3, <1>5, FS_CardinalityType DEF T

(* The records of K whose key is of an address.                            *)
WithAddress(K) == {k \in K : k.address # NoAddress}

(* How many addresses there are among K: all, or fewer if one is a stray.  *)
LEMMA StraysCount ==
    ASSUME NEW s, IsStore(s), IsFiniteSet(DOMAIN s),
           NEW K \in SUBSET Announced(s)
    PROVE  LET n == Cardinality({k.address : k \in WithAddress(K)})
           IN  /\ n \in Nat /\ Cardinality(K) \in Nat
               /\ \/ n = Cardinality(K)
                  \/ /\ \E k \in Announced(s) : k.address = NoAddress
                     /\ n < Cardinality(K)
<1>1. IsFiniteSet(K) /\ Cardinality(K) \in Nat
  BY AddressesCount
<1>2. WithAddress(K) \subseteq K
  BY DEF WithAddress
<1>3. /\ Cardinality({k.address : k \in WithAddress(K)})
           = Cardinality(WithAddress(K))
      /\ Cardinality(WithAddress(K)) \in Nat
  BY <1>2, AddressesCount
<1>4. Cardinality(WithAddress(K)) <= Cardinality(K)
  BY <1>1, <1>2, FS_Subset
<1>5. WithAddress(K) = K \/ \E k \in Announced(s) : k.address = NoAddress
  BY DEF WithAddress
<1> QED
  BY <1>1, <1>3, <1>4, <1>5

(* A record discovery counts is one a lookup of its address finds, unless  *)
(* it is a stray, and the other way round.                                 *)
LEMMA CountedIsFound ==
    ASSUME NEW s, IsStore(s), NEW tag
    PROVE  LET found    == {a \in {k.address : k \in DOMAIN s} \ {NoAddress} :
                              Lookup(s, a) # Unreadable}
               suitable == {a \in found : Suits(Lookup(s, a), tag)}
           IN  /\ found = {k.address : k \in WithAddress(Announced(s))}
               /\ suitable = {k.address : k \in WithAddress(Matching(s, tag))}
               /\ \A a \in suitable : \E k \in Matching(s, tag) :
                     s[k] = Lookup(s, a)
<1>1. \A k \in Announced(s) : k \in DOMAIN s /\ k = KeyOf(k.address)
                              /\ s[k] # Unreadable
  BY DEF Announced, IsStore, RecordKey, KeyOf
<1>2. \A k \in Announced(s) : Lookup(s, k.address) = s[k]
  BY <1>1 DEF Lookup
<1>3. \A k \in DOMAIN s : Lookup(s, k.address) # Unreadable =>
         /\ KeyOf(k.address) \in Announced(s)
         /\ KeyOf(k.address).address = k.address
  BY DEF Lookup, KeyOf, Announced
<1> DEFINE found    == {a \in {k.address : k \in DOMAIN s} \ {NoAddress} :
                          Lookup(s, a) # Unreadable}
           suitable == {a \in found : Suits(Lookup(s, a), tag)}
<1>4. found = {k.address : k \in WithAddress(Announced(s))}
  BY <1>1, <1>2, <1>3 DEF WithAddress
<1> HIDE DEF found
<1>5. suitable = {k.address : k \in WithAddress(Matching(s, tag))}
  BY <1>2, <1>4 DEF WithAddress, Matching
<1>6. \A a \in suitable : \E k \in Matching(s, tag) : s[k] = Lookup(s, a)
  BY <1>2, <1>5 DEF WithAddress, Matching
<1> QED
  BY <1>4, <1>5, <1>6 DEF found

(* What the report says of any store.                                      *)
LEMMA ReportAgrees ==
    ASSUME NEW s, IsStore(s), IsFiniteSet(DOMAIN s), NEW tag,
           NEW limit \in Nat \ {0}, NEW r \in Discoveries(s, tag, limit)
    PROVE  Agrees(s, tag, limit, r)
<1> DEFINE stray    == \E k \in Announced(s) : k.address = NoAddress
           found    == {a \in {k.address : k \in DOMAIN s} \ {NoAddress} :
                          Lookup(s, a) # Unreadable}
           suitable == {a \in found : Suits(Lookup(s, a), tag)}
           matching == Matching(s, tag)
           total    == Cardinality(Announced(s))
           filtered == Cardinality(matching)
           Counts(n, S) == n = Cardinality(S) \/ (stray /\ n > Cardinality(S))
<1>1. matching \subseteq Announced(s)
  BY DEF Matching
<1>2. /\ found = {k.address : k \in WithAddress(Announced(s))}
      /\ suitable = {k.address : k \in WithAddress(matching)}
      /\ \A a \in suitable : \E k \in matching : s[k] = Lookup(s, a)
  BY CountedIsFound
<1>3. /\ IsFiniteSet(Announced(s)) /\ total \in Nat
      /\ IsFiniteSet(matching) /\ filtered \in Nat
  BY <1>1, AddressesCount
<1>4. filtered <= total
  BY <1>1, <1>3, FS_Subset
<1>5. Counts(total, found) /\ Counts(filtered, suitable)
  <2>1. /\ Cardinality(found) \in Nat
        /\ \/ Cardinality(found) = total
           \/ stray /\ Cardinality(found) < total
    BY <1>2, StraysCount
  <2>2. /\ Cardinality(suitable) \in Nat
        /\ \/ Cardinality(suitable) = filtered
           \/ stray /\ Cardinality(suitable) < filtered
    BY <1>1, <1>2, StraysCount
  <2> HIDE DEF found, suitable, stray, total, filtered
  <2> QED
    BY <1>3, <2>1, <2>2
<1>6. /\ r.streams \subseteq matching
      /\ r.total = total
      /\ r.filtered = filtered
      /\ Cardinality(r.streams) = Smaller(limit, filtered)
  BY DEF Discoveries, Taken
<1>7. IsFiniteSet(r.streams)
  BY <1>3, <1>6, FS_Subset
<1>8. /\ total = 0 <=> Announced(s) = {}
      /\ filtered = 0 <=> matching = {}
      /\ Cardinality(r.streams) = 0 <=> r.streams = {}
  BY <1>3, <1>7, FS_EmptySet
<1>9. /\ total = 0 => found = {}
      /\ filtered = 0 => suitable = {}
  BY <1>2, <1>8 DEF WithAddress
<1>10. Smaller(limit, filtered) = filtered => r.streams = matching
  BY <1>3, <1>6, FS_Subset
<1> SUFFICES
      /\ Report(s, r).says = "nothing" => found = {}
      /\ Report(s, r).says = "no_match" =>
           suitable = {} /\ Counts(Report(s, r).total, found)
      /\ Report(s, r).says = "table" =>
           /\ Counts(Report(s, r).found, suitable)
           /\ Counts(Report(s, r).total, found)
           /\ Report(s, r).shown = Smaller(limit, Report(s, r).found)
           /\ Report(s, r).shown = Report(s, r).found =>
                \A a \in suitable : \E k \in r.streams : s[k] = Lookup(s, a)
  BY DEF Agrees
<1> HIDE DEF found, suitable, matching, total, filtered, stray, Counts
<1>11. CASE r.streams = {}
  <2>1. filtered = 0
    BY <1>3, <1>6, <1>8, <1>11 DEF Smaller
  <2>2. CASE total = 0
    <3>1. Report(s, r) = [says |-> "nothing"]
      BY <1>6, <1>11, <2>2 DEF Report
    <3> QED
      BY <1>9, <2>2, <3>1
  <2>3. CASE total # 0
    <3>1. Report(s, r) = [says |-> "no_match", total |-> total]
      BY <1>6, <1>11, <2>3 DEF Report
    <3>2. Report(s, r).says = "no_match" /\ Report(s, r).total = total
      BY <3>1
    <3> QED
      BY <1>5, <1>9, <2>1, <3>2
  <2> QED
    BY <2>2, <2>3
<1>12. CASE r.streams # {} /\ \E k \in r.streams : TruncatePanics(s[k].address.name)
  <2>1. Report(s, r) = [says |-> "panic"]
    BY <1>12 DEF Report
  <2> QED
    BY <2>1
<1>13. CASE /\ r.streams # {}
            /\ ~\E k \in r.streams : TruncatePanics(s[k].address.name)
  <2> DEFINE shown == Smaller(limit, filtered)
  <2>1. shown \in Nat /\ shown <= filtered
    BY <1>3 DEF Smaller
  <2>2. Report(s, r) =
          [says  |-> "table", found |-> filtered,
           total |-> IF filtered < total THEN total ELSE filtered,
           shown |-> IF shown < filtered THEN shown ELSE filtered]
    BY <1>6, <1>13 DEF Report
  <2>3. /\ (IF filtered < total THEN total ELSE filtered) = total
        /\ (IF shown < filtered THEN shown ELSE filtered) = shown
    <3> HIDE DEF shown
    <3> QED
      BY <1>3, <1>4, <2>1
  <2>4. Report(s, r) = [says |-> "table", found |-> filtered,
                        total |-> total, shown |-> shown]
    BY <2>2, <2>3
  <2> HIDE DEF shown
  <2>5. /\ Report(s, r).says = "table"
        /\ Report(s, r).found = filtered
        /\ Report(s, r).total = total
        /\ Report(s, r).shown = shown
    BY <2>4
  <2>6. shown = filtered =>
          \A a \in suitable : \E k \in r.streams : s[k] = Lookup(s, a)
    BY <1>2, <1>10 DEF shown
  <2> QED
    BY <1>5, <2>5, <2>6 DEF shown
<1> QED
  BY <1>11, <1>12, <1>13

(* Whatever was put into a store, under whatever keys, in whatever order,  *)
(* and whatever is asked for with a limit of at least one: what discovery  *)
(* reports misses nothing that a lookup finds (discover_streams,           *)
(* format_discover_output, lookup_stream_announcement).                    *)
THEOREM DiscoveryReportsCompletely == Spec => []ReportsAreComplete
<1>1. Init => TypeOK /\ StoresAreFinite
  <2>1. DOMAIN Empty = {}
    BY DEF Empty
  <2> QED
    BY <2>1, TypeCorrectInitially, FS_EmptySet DEF Init, StoresAreFinite
<1>2. TypeOK /\ StoresAreFinite /\ [Next]_vars => (TypeOK /\ StoresAreFinite)'
  BY TypeCorrectNext, FiniteNext
<1>3. TypeOK /\ StoresAreFinite => ReportsAreComplete
  <2> SUFFICES ASSUME TypeOK, StoresAreFinite,
                      NEW p \in Process, NEW tag \in Tag \cup {NoTag},
                      NEW limit \in Limits, limit > 0,
                      NEW r \in Discoveries(store[p], tag, limit)
               PROVE  Agrees(store[p], tag, limit, r)
    BY DEF ReportsAreComplete
  <2>1. IsStore(store[p]) /\ IsFiniteSet(DOMAIN store[p])
    BY DEF TypeOK, StoresAreFinite
  <2>2. limit \in Nat \ {0}
    BY NodesAssumption
  <2> QED
    BY <2>1, <2>2, ReportAgrees
<1> QED
  BY <1>1, <1>2, <1>3, PTL DEF Spec
=============================================================================
