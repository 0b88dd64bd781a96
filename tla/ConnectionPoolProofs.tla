------------------------ MODULE ConnectionPoolProofs ------------------------
(***************************************************************************)
(* Proofs about ConnectionPool for any number of calls, origins and        *)
(* connections and any redirect limit: the type invariant, single flight,  *)
(* the matching of connections to keys, the locking discipline, the bound  *)
(* on resends and the rule that only dead connections are overwritten;     *)
(* that calls never wait in a circle; where dead connections are handed    *)
(* out; and what holds while TCP works.                                    *)
(***************************************************************************)
EXTENDS ConnectionPool, TLAPS

(* A call has a connection exactly while it checks it or sends on it. *)
ConnInv ==
    \A t \in Task : conn[t] # NoConn <=> pc[t] \in Sent \cup {"check"}

(* A connection has a key from the moment it is dialed, and is past its
   handshake by then if it is an HTTP/2 one. *)
KeyInv ==
    \A c \in Conn :
        /\ phase[c] = "unused" => key[c] = NoKey
        /\ phase[c] = "connecting" => key[c] # NoKey /\ key[c][2] = "h3"

(* The second transport of a hop is always HTTP/2, after HTTP/3. *)
TargetInv ==
    \A t \in Task :
        /\ target[t] = "h3" => transport[t] = "h3"
        /\ pc[t] \in {"check", "clear", "fbwait", "rfwait", "rfcheck", "rfdial"} => target[t] = "h2"
        /\ pc[t] \in {"fbwait", "rfwait", "rfcheck", "rfdial"} => transport[t] = "h3"

(* A call that dials or checks under a mutex owns it. *)
OwnInv == \A t \in Task : pc[t] \in Holding => holder[TargetKey(t)] = t

(* LockDiscipline, for the owner by its name. *)
HolderInv == \A k \in Key : \A t \in Task : holder[k] = t => MayOwn(t, k)

(* While a mutex is owned nobody else changes its slot: a check under it finds
   a connection, and a dial under it replaces nothing alive. *)
SlotInv ==
    \A t \in Task :
        /\ pc[t] = "rfcheck" => slot[TargetKey(t)] # NoConn
        /\ pc[t] \in Dialing /\ slot[TargetKey(t)] # NoConn
              => phase[slot[TargetKey(t)]] = "closed"

(* What a server may have processed before the attempt a call is preparing or
   has in flight. *)
Earlier(t) == IF transport[t] = "h3" /\ target[t] = "h2" THEN 1 ELSE 0

ServedInv ==
    \A t \in Task :
        /\ pc[t] \in Holding \cup Waiting \cup {"check", "inflight"} => served[t] <= Earlier(t)
        /\ pc[t] \in {"served", "answered"} \cup Ended => served[t] <= Earlier(t) + 1

IInv ==
    /\ TypeOK
    /\ HandoutMatches
    /\ ConnInv
    /\ KeyInv
    /\ TargetInv
    /\ OwnInv
    /\ HolderInv
    /\ SlotInv
    /\ ServedInv

-----------------------------------------------------------------------------
(* Keys are pairs of an origin and a transport, and none is NoKey. *)
LEMMA KeyFacts ==
    /\ \A o \in Origin, p \in Proto : <<o, p>> \in Key
    /\ \A k \in Key : k[1] \in Origin /\ k[2] \in Proto /\ k = <<k[1], k[2]>> /\ k # NoKey
  BY DEF Key, NoKey

(* A call always works on a key of the pool. *)
LEMMA TargetKeyType ==
    ASSUME TypeOK, NEW t \in Task
    PROVE TargetKey(t) \in Key
  BY KeyFacts DEF TypeOK, TargetKey

(* A step of one call that gives or takes mutexes only to or from it. *)
LEMMA OwnerStep ==
    ASSUME IInv, NEW t \in Task,
           \A u \in Task : u # t => /\ pc'[u] = pc[u] /\ origin'[u] = origin[u]
                                   /\ target'[u] = target[u] /\ transport'[u] = transport[u],
           \A k \in Key : holder'[k] \in {holder[k], NoTask, t},
           \A k \in Key : holder'[k] = t => MayOwn(t, k)'
    PROVE HolderInv'
  <1> SUFFICES ASSUME NEW k \in Key, NEW u \in Task, holder'[k] = u
               PROVE  MayOwn(u, k)'
    BY DEF HolderInv
  <1>1. CASE u = t
    BY <1>1
  <1>2. CASE u # t
    <2>1. MayOwn(u, k)
      BY <1>2, NoTaskAssumption DEF IInv, HolderInv
    <2> QED
      BY <1>2, <2>1 DEF MayOwn, TargetKey
  <1> QED
    BY <1>1, <1>2

-----------------------------------------------------------------------------
(* The inductive step, one lemma per action and one step per conjunct. *)

LEMMA BeginStep ==
    ASSUME IInv, NEW t \in Task, Begin(t)
    PROVE IInv'
  <1>1. TypeOK'
    BY DEF Begin, IInv, TypeOK, PC, Holding, Dialing, Waiting, Sent, Ended, shared, wires
  <1>2. HandoutMatches'
    BY DEF Begin, IInv, TypeOK, HandoutMatches, shared, wires, TargetKey
  <1>3. ConnInv'
    BY DEF Begin, IInv, TypeOK, ConnInv, Sent, shared, wires
  <1>4. KeyInv'
    BY DEF Begin, IInv, TypeOK, KeyInv, shared, wires
  <1>5. TargetInv'
    BY DEF Begin, IInv, TypeOK, TargetInv, shared, wires
  <1>6. OwnInv'
    BY DEF Begin, IInv, TypeOK, OwnInv, Holding, Dialing, shared, wires, TargetKey
  <1>7. HolderInv'
    BY DEF Begin, IInv, TypeOK, HolderInv, MayOwn, Sent, Holding, Dialing, shared, wires, TargetKey
  <1>8. SlotInv'
    BY DEF Begin, IInv, TypeOK, SlotInv, Dialing, shared, wires, TargetKey
  <1>9. ServedInv'
    BY DEF Begin, IInv, TypeOK, ServedInv, TargetInv, Holding, Dialing, Waiting, Sent, Ended, Earlier,
           shared, wires
  <1> QED
    BY <1>1, <1>2, <1>3, <1>4, <1>5, <1>6, <1>7, <1>8, <1>9 DEF IInv

LEMMA RouteStep ==
    ASSUME IInv, NEW t \in Task, Route(t)
    PROVE IInv'
  <1>1. TypeOK'
    BY TargetKeyType, KeyFacts DEF Route, IInv, TypeOK, PC, Holding, Dialing, Waiting, Sent, Ended,
           shared, wires, TargetKey, Proto
  <1>2. HandoutMatches'
    BY KeyFacts DEF Route, IInv, TypeOK, HandoutMatches, ConnInv, KeyInv, TargetInv, Sent,
           shared, wires, TargetKey, Proto
  <1>3. ConnInv'
    BY DEF Route, IInv, TypeOK, ConnInv, Sent, shared, wires
  <1>4. KeyInv'
    BY DEF Route, IInv, TypeOK, KeyInv, shared, wires
  <1>5. TargetInv'
    BY DEF Route, IInv, TypeOK, TargetInv, shared, wires
  <1>6. OwnInv'
    BY DEF Route, IInv, TypeOK, OwnInv, Holding, Dialing, shared, wires, TargetKey
  <1>7. HolderInv'
    BY DEF Route, IInv, TypeOK, HolderInv, MayOwn, Sent, Holding, Dialing, shared, wires, TargetKey
  <1>8. SlotInv'
    BY DEF Route, IInv, TypeOK, SlotInv, Dialing, shared, wires, TargetKey
  <1>9. ServedInv'
    BY DEF Route, IInv, TypeOK, ServedInv, TargetInv, Holding, Dialing, Waiting, Sent, Ended, Earlier,
           shared, wires
  <1> QED
    BY <1>1, <1>2, <1>3, <1>4, <1>5, <1>6, <1>7, <1>8, <1>9 DEF IInv

LEMMA PeekStep ==
    ASSUME IInv, NEW t \in Task, Peek(t)
    PROVE IInv'
  <1>a. \A u \in Task : TargetKey(u) \in Key /\ TargetKey(u)' = TargetKey(u)
    BY TargetKeyType DEF Peek, IInv, TypeOK, TargetKey
  <1>1. TypeOK'
    BY TargetKeyType, KeyFacts DEF Peek, Free, IInv, TypeOK, PC, Holding, Dialing, Waiting, Sent, Ended,
           shared, wires, TargetKey, Proto
  <1>2. HandoutMatches'
    BY <1>a DEF Peek, IInv, TypeOK, HandoutMatches, shared, wires
  <1>3. ConnInv'
    BY DEF Peek, IInv, TypeOK, ConnInv, Sent, shared, wires
  <1>4. KeyInv'
    BY DEF Peek, IInv, TypeOK, KeyInv, shared, wires
  <1>5. TargetInv'
    BY DEF Peek, Free, IInv, TypeOK, TargetInv, Holding, Dialing, Waiting, Sent, Ended, shared, wires,
           Proto
  <1>6. OwnInv'
    BY DEF Peek, IInv, TypeOK, OwnInv, Holding, Dialing, shared, wires, TargetKey
  <1>7. HolderInv'
    BY DEF Peek, IInv, TypeOK, HolderInv, MayOwn, Sent, Holding, Dialing, shared, wires, TargetKey
  <1>8. SlotInv'
    BY DEF Peek, IInv, TypeOK, SlotInv, Dialing, shared, wires, TargetKey
  <1>9. ServedInv'
    BY DEF Peek, IInv, TypeOK, ServedInv, TargetInv, Holding, Dialing, Waiting, Sent, Ended, Earlier,
           shared, wires
  <1> QED
    BY <1>1, <1>2, <1>3, <1>4, <1>5, <1>6, <1>7, <1>8, <1>9 DEF IInv

LEMMA CheckStep ==
    ASSUME IInv, NEW t \in Task, Check(t)
    PROVE IInv'
  <1>1. TypeOK'
    BY DEF Check, IInv, TypeOK, PC, Holding, Dialing, Waiting, Sent, Ended, shared, wires
  <1>2. HandoutMatches'
    BY DEF Check, IInv, TypeOK, HandoutMatches, shared, wires, TargetKey
  <1>3. ConnInv'
    BY DEF Check, IInv, TypeOK, ConnInv, Sent, shared, wires
  <1>4. KeyInv'
    BY DEF Check, IInv, TypeOK, KeyInv, shared, wires
  <1>5. TargetInv'
    BY DEF Check, IInv, TypeOK, TargetInv, shared, wires
  <1>6. OwnInv'
    BY DEF Check, IInv, TypeOK, OwnInv, Holding, Dialing, shared, wires, TargetKey
  <1>7. HolderInv'
    BY DEF Check, IInv, TypeOK, HolderInv, MayOwn, Sent, Holding, Dialing, shared, wires, TargetKey
  <1>8. SlotInv'
    BY DEF Check, IInv, TypeOK, SlotInv, Dialing, shared, wires, TargetKey
  <1>9. ServedInv'
    BY DEF Check, IInv, TypeOK, ServedInv, TargetInv, Holding, Dialing, Waiting, Sent, Ended, Earlier,
           shared, wires
  <1> QED
    BY <1>1, <1>2, <1>3, <1>4, <1>5, <1>6, <1>7, <1>8, <1>9 DEF IInv

LEMMA ClearStep ==
    ASSUME IInv, NEW t \in Task, Clear(t)
    PROVE IInv'
  <1>a. \A u \in Task : TargetKey(u) \in Key /\ TargetKey(u)' = TargetKey(u)
    BY TargetKeyType DEF Clear, IInv, TypeOK, TargetKey
  <1>b. holder[TargetKey(t)] = NoTask
    BY DEF Clear, Free
  <1>1. TypeOK'
    BY DEF Clear, IInv, TypeOK, PC, Holding, Dialing, Waiting, Sent, Ended, wires
  <1>2. HandoutMatches'
    BY DEF Clear, IInv, TypeOK, HandoutMatches, wires, TargetKey
  <1>3. ConnInv'
    BY DEF Clear, IInv, TypeOK, ConnInv, Sent, wires
  <1>4. KeyInv'
    BY DEF Clear, IInv, TypeOK, KeyInv, wires
  <1>5. TargetInv'
    BY DEF Clear, IInv, TypeOK, TargetInv, wires
  <1>6. OwnInv'
    BY DEF Clear, IInv, TypeOK, OwnInv, Holding, Dialing, wires, TargetKey
  <1>7. HolderInv'
    BY DEF Clear, IInv, TypeOK, HolderInv, MayOwn, Sent, Holding, Dialing, wires, TargetKey
  <1>8. SlotInv'
    BY <1>a, <1>b, NoTaskAssumption
    DEF Clear, IInv, TypeOK, SlotInv, Dialing, OwnInv, Holding, wires
  <1>9. ServedInv'
    BY DEF Clear, IInv, TypeOK, ServedInv, TargetInv, Holding, Dialing, Waiting, Sent, Ended, Earlier,
           wires
  <1> QED
    BY <1>1, <1>2, <1>3, <1>4, <1>5, <1>6, <1>7, <1>8, <1>9 DEF IInv

LEMMA AcquireStep ==
    ASSUME IInv, NEW t \in Task, Acquire(t)
    PROVE IInv'
  <1>a. \A u \in Task : TargetKey(u) \in Key /\ TargetKey(u)' = TargetKey(u)
    BY TargetKeyType DEF Acquire, IInv, TypeOK, TargetKey
  <1>b. holder[TargetKey(t)] = NoTask
    BY DEF Acquire, Free
  <1>1. TypeOK'
    BY TargetKeyType DEF Acquire, IInv, TypeOK, PC, Holding, Dialing, Waiting, wires
  <1>2. HandoutMatches'
    BY DEF Acquire, IInv, TypeOK, HandoutMatches, wires, TargetKey
  <1>3. ConnInv'
    BY DEF Acquire, IInv, TypeOK, ConnInv, Sent, wires
  <1>4. KeyInv'
    BY DEF Acquire, IInv, TypeOK, KeyInv, wires
  <1>5. TargetInv'
    BY DEF Acquire, IInv, TypeOK, TargetInv, wires
  <1>6. OwnInv'
    BY <1>a, <1>b, NoTaskAssumption
    DEF Acquire, IInv, TypeOK, OwnInv, Holding, Dialing, Waiting
  <1>7. HolderInv'
    <2>1. \A u \in Task : u # t => /\ pc'[u] = pc[u] /\ origin'[u] = origin[u]
                                  /\ target'[u] = target[u] /\ transport'[u] = transport[u]
      BY DEF Acquire, IInv, TypeOK
    <2>2. \A k \in Key : holder'[k] \in {holder[k], NoTask, t}
      BY <1>a DEF Acquire, IInv, TypeOK, shared
    <2>3. \A k \in Key : holder'[k] = t => MayOwn(t, k)'
      BY <1>a, <1>b, NoTaskAssumption, KeyFacts
      DEF Acquire, IInv, TypeOK, HolderInv, MayOwn, TargetInv, TargetKey, Holding, Dialing,
          Waiting, Sent, shared
    <2> QED
      BY <2>1, <2>2, <2>3, OwnerStep
  <1>8. SlotInv'
    BY <1>a, <1>b, NoTaskAssumption
    DEF Acquire, IInv, TypeOK, SlotInv, Dialing, OwnInv, Holding, wires
  <1>9. ServedInv'
    BY DEF Acquire, IInv, TypeOK, ServedInv, TargetInv, Holding, Dialing, Waiting, Sent, Ended, Earlier,
           wires
  <1> QED
    BY <1>1, <1>2, <1>3, <1>4, <1>5, <1>6, <1>7, <1>8, <1>9 DEF IInv

LEMMA DialOkStep ==
    ASSUME IInv, NEW t \in Task, NEW c \in Conn, DialOk(t, c)
    PROVE IInv'
  <1>a. \A u \in Task : TargetKey(u) \in Key /\ TargetKey(u)' = TargetKey(u)
    BY TargetKeyType DEF DialOk, IInv, TypeOK, TargetKey
  <1>1. TypeOK'
    <2>1. slot' \in [Key -> Conn \cup {NoConn}] /\ conn' \in [Task -> Conn \cup {NoConn}]
      BY <1>a DEF DialOk, Use, IInv, TypeOK
    <2>2. holder' \in [Key -> Task \cup {NoTask}]
      BY DEF DialOk, Release, IInv, TypeOK
    <2>3. key' \in [Conn -> Key \cup {NoKey}]
      BY KeyFacts DEF DialOk, IInv, TypeOK
    <2>4. phase' \in [Conn -> {"unused", "connecting", "open", "closed"}]
      BY DEF DialOk, IInv, TypeOK
    <2>5. pc' \in [Task -> PC]
      BY DEF DialOk, Use, IInv, TypeOK, PC, Sent
    <2> QED
      BY <2>1, <2>2, <2>3, <2>4, <2>5 DEF DialOk, IInv, TypeOK
  <1>2. HandoutMatches'
    <2>1. key[c] = NoKey /\ key'[c] = TargetKey(t) /\ \A d \in Conn : d # c => key'[d] = key[d]
      BY DEF DialOk, IInv, TypeOK, KeyInv, TargetKey
    <2>2. \A u \in Task : conn'[u] # NoConn => key'[conn'[u]] = TargetKey(u)'
      <3>1. conn'[t] = c /\ \A u \in Task : u # t => conn'[u] = conn[u]
        BY DEF DialOk, Use, IInv, TypeOK
      <3>2. \A u \in Task : conn[u] \in Conn \cup {NoConn}
        BY DEF IInv, TypeOK
      <3> QED
        BY <1>a, <2>1, <3>1, <3>2, KeyFacts DEF IInv, HandoutMatches
    <2>3. \A k \in Key : slot'[k] # NoConn => key'[slot'[k]] = k
      <3>1. slot'[TargetKey(t)] = c /\ \A k \in Key : k # TargetKey(t) => slot'[k] = slot[k]
        BY <1>a DEF DialOk, IInv, TypeOK
      <3>2. \A k \in Key : slot[k] \in Conn \cup {NoConn}
        BY DEF IInv, TypeOK
      <3> QED
        BY <2>1, <3>1, <3>2, KeyFacts DEF IInv, HandoutMatches
    <2> QED
      BY <2>2, <2>3 DEF HandoutMatches
  <1>3. ConnInv'
    BY NoConnAssumption DEF DialOk, Use, Release, IInv, TypeOK, ConnInv, SlotInv, Dialing, OwnInv, Sent,
           Holding, Waiting, Ended, Proto
  <1>4. KeyInv'
    BY KeyFacts DEF DialOk, IInv, TypeOK, KeyInv, Proto
  <1>5. TargetInv'
    BY DEF DialOk, Use, Release, IInv, TypeOK, TargetInv
  <1>6. OwnInv'
    BY <1>a, NoTaskAssumption
    DEF DialOk, Use, Release, IInv, TypeOK, OwnInv, Holding, Dialing, Waiting, Sent, Ended
  <1>7. HolderInv'
    <2>1. \A u \in Task : u # t => /\ pc'[u] = pc[u] /\ origin'[u] = origin[u]
                                  /\ target'[u] = target[u] /\ transport'[u] = transport[u]
      BY DEF DialOk, Use, Release, IInv, TypeOK
    <2>2. \A k \in Key : holder'[k] \in {holder[k], NoTask, t}
      BY <1>a DEF DialOk, Use, Release, IInv, TypeOK, shared
    <2>3. \A k \in Key : holder'[k] = t => MayOwn(t, k)'
      BY <1>a, NoTaskAssumption, KeyFacts
      DEF DialOk, Use, Release, IInv, TypeOK, HolderInv, MayOwn, TargetInv, TargetKey, Holding, Dialing,
          Waiting, Sent, shared
    <2> QED
      BY <2>1, <2>2, <2>3, OwnerStep
  <1>8. SlotInv'
    BY KeyFacts DEF DialOk, Use, Release, IInv, TypeOK, SlotInv, Dialing, OwnInv, HolderInv, MayOwn, Holding,
           Waiting, Sent, Ended, TargetKey, Proto
  <1>9. ServedInv'
    BY DEF DialOk, Use, Release, IInv, TypeOK, ServedInv, TargetInv, Holding, Dialing, Waiting, Sent,
           Ended, Earlier
  <1> QED
    BY <1>1, <1>2, <1>3, <1>4, <1>5, <1>6, <1>7, <1>8, <1>9 DEF IInv

LEMMA DialFailStep ==
    ASSUME IInv, NEW t \in Task, DialFail(t)
    PROVE IInv'
  <1>a. \A u \in Task : TargetKey(u) \in Key /\ (u # t => TargetKey(u)' = TargetKey(u))
    BY TargetKeyType DEF DialFail, IInv, TypeOK, TargetKey
  <1>1. TypeOK'
    <2>1. UNCHANGED <<slot, phase, key, origin, transport, hop, served>>
      BY DEF DialFail, wires
    <2>2. altSvc' \subseteq Origin /\ target' \in [Task -> Proto]
      BY DEF DialFail, Evict, IInv, TypeOK, Proto
    <2>3. holder' \in [Key -> Task \cup {NoTask}]
      BY DEF DialFail, End, Release, IInv, TypeOK
    <2>4. pc' \in [Task -> PC] /\ conn' \in [Task -> Conn \cup {NoConn}]
      BY DEF DialFail, End, IInv, TypeOK, PC, Waiting, Ended
    <2> QED
      BY <2>1, <2>2, <2>3, <2>4 DEF IInv, TypeOK
  <1>2. HandoutMatches'
    BY KeyFacts DEF DialFail, End, Release, Evict, IInv, TypeOK, HandoutMatches, ConnInv,
           KeyInv, TargetInv, Sent, Dialing, wires, TargetKey, Proto
  <1>3. ConnInv'
    BY DEF DialFail, End, Release, Evict, IInv, TypeOK, ConnInv, Sent, Dialing, wires
  <1>4. KeyInv'
    BY DEF DialFail, End, Release, Evict, IInv, TypeOK, KeyInv, wires
  <1>5. TargetInv'
    BY DEF DialFail, End, Release, Evict, IInv, TypeOK, TargetInv, wires
  <1>6. OwnInv'
    BY <1>a, NoTaskAssumption
    DEF DialFail, End, Release, IInv, TypeOK, OwnInv, Holding, Dialing, Waiting, Sent, Ended
  <1>7. HolderInv'
    BY NoTaskAssumption, KeyFacts DEF DialFail, End, Release, Evict, IInv, TypeOK, HolderInv, MayOwn,
           OwnInv, Holding, Dialing, Waiting, Sent, Ended, wires, TargetKey, Proto
  <1>8. SlotInv'
    BY DEF DialFail, End, Release, Evict, IInv, TypeOK, SlotInv, Dialing, wires, TargetKey
  <1>9. ServedInv'
    BY DEF DialFail, End, Release, Evict, IInv, TypeOK, ServedInv, TargetInv, Holding, Dialing, Waiting,
           Sent, Ended, Earlier, wires
  <1> QED
    BY <1>1, <1>2, <1>3, <1>4, <1>5, <1>6, <1>7, <1>8, <1>9 DEF IInv

LEMMA FallbackLockStep ==
    ASSUME IInv, NEW t \in Task, FallbackLock(t)
    PROVE IInv'
  <1>a. \A u \in Task : TargetKey(u) \in Key /\ TargetKey(u)' = TargetKey(u)
    BY TargetKeyType DEF FallbackLock, IInv, TypeOK, TargetKey
  <1>b. holder[TargetKey(t)] = NoTask
    BY DEF FallbackLock, Free
  <1>c. TargetKey(t)[1] = origin[t] /\ target[t] = "h2"
    BY DEF FallbackLock, IInv, TargetInv, TargetKey
  <1>1. TypeOK'
    <2>1. UNCHANGED <<altSvc, slot, phase, key, origin, transport, target, hop, served>>
      BY DEF FallbackLock, wires
    <2>2. holder' \in [Key -> Task \cup {NoTask}]
      BY DEF FallbackLock, Use, Release, IInv, TypeOK
    <2>3. pc' \in [Task -> PC]
      BY DEF FallbackLock, Use, IInv, TypeOK, PC, Holding, Dialing, Sent
    <2>4. conn' \in [Task -> Conn \cup {NoConn}]
      BY <1>a DEF FallbackLock, Use, IInv, TypeOK
    <2> QED
      BY <2>1, <2>2, <2>3, <2>4 DEF IInv, TypeOK
  <1>2. HandoutMatches'
    BY <1>a DEF FallbackLock, Use, IInv, TypeOK, HandoutMatches, wires
  <1>3. ConnInv'
    BY DEF FallbackLock, Use, Release, IInv, TypeOK, ConnInv, Sent, wires
  <1>4. KeyInv'
    BY DEF FallbackLock, Use, Release, IInv, TypeOK, KeyInv, wires
  <1>5. TargetInv'
    BY DEF FallbackLock, Use, Release, IInv, TypeOK, TargetInv, wires
  <1>6. OwnInv'
    BY <1>a, <1>b, NoTaskAssumption
    DEF FallbackLock, Use, Release, IInv, TypeOK, OwnInv, Holding, Dialing, Waiting
  <1>7. HolderInv'
    <2>1. \A u \in Task : u # t => /\ pc'[u] = pc[u] /\ origin'[u] = origin[u]
                                  /\ target'[u] = target[u] /\ transport'[u] = transport[u]
      BY DEF FallbackLock, Use, Release, IInv, TypeOK
    <2>2. \A k \in Key : holder'[k] \in {holder[k], NoTask, t}
      BY <1>a DEF FallbackLock, Use, Release, IInv, TypeOK, shared
    <2>3. \A k \in Key : holder'[k] = t => MayOwn(t, k)'
      BY <1>a, <1>b, <1>c, NoTaskAssumption, KeyFacts
      DEF FallbackLock, Use, Release, IInv, TypeOK, HolderInv, MayOwn, TargetInv, TargetKey, Holding, Dialing,
          Waiting, Sent, shared
    <2> QED
      BY <2>1, <2>2, <2>3, OwnerStep
  <1>8. SlotInv'
    BY <1>a, <1>b, NoTaskAssumption
    DEF FallbackLock, Use, Release, IInv, TypeOK, SlotInv, Dialing, OwnInv, Holding, wires
  <1>9. ServedInv'
    BY DEF FallbackLock, Use, Release, IInv, TypeOK, ServedInv, TargetInv, Holding, Dialing, Waiting,
           Sent, Ended, Earlier, wires
  <1> QED
    BY <1>1, <1>2, <1>3, <1>4, <1>5, <1>6, <1>7, <1>8, <1>9 DEF IInv

LEMMA ServeStep ==
    ASSUME IInv, NEW t \in Task, Serve(t)
    PROVE IInv'
  <1>1. TypeOK'
    BY DEF Serve, IInv, TypeOK, ServedInv, Earlier, PC, Sent, shared, wires
  <1>2. HandoutMatches'
    BY DEF Serve, IInv, TypeOK, HandoutMatches, shared, wires, TargetKey
  <1>3. ConnInv'
    BY DEF Serve, IInv, TypeOK, ConnInv, Sent, shared, wires
  <1>4. KeyInv'
    BY DEF Serve, IInv, TypeOK, KeyInv, shared, wires
  <1>5. TargetInv'
    BY DEF Serve, IInv, TypeOK, TargetInv, shared, wires
  <1>6. OwnInv'
    BY DEF Serve, IInv, TypeOK, OwnInv, Holding, Dialing, shared, wires, TargetKey
  <1>7. HolderInv'
    BY DEF Serve, IInv, TypeOK, HolderInv, MayOwn, Sent, Holding, Dialing, shared, wires, TargetKey
  <1>8. SlotInv'
    BY DEF Serve, IInv, TypeOK, SlotInv, Dialing, shared, wires, TargetKey
  <1>9. ServedInv'
    BY DEF Serve, IInv, TypeOK, ServedInv, TargetInv, Holding, Dialing, Waiting, Sent, Ended, Earlier,
           shared, wires
  <1> QED
    BY <1>1, <1>2, <1>3, <1>4, <1>5, <1>6, <1>7, <1>8, <1>9 DEF IInv

LEMMA FailStep ==
    ASSUME IInv, NEW t \in Task, Fail(t)
    PROVE IInv'
  <1>a. \A u \in Task : TargetKey(u) \in Key /\ (u # t => TargetKey(u)' = TargetKey(u))
    BY TargetKeyType DEF Fail, IInv, TypeOK, TargetKey
  <1>1. TypeOK'
    BY DEF Fail, End, Release, Evict, IInv, TypeOK, PC, Waiting, Ended, Proto, wires
  <1>2. HandoutMatches'
    BY DEF Fail, End, Release, Retries, Evict, IInv, TypeOK, HandoutMatches, Sent, wires,
           TargetKey
  <1>3. ConnInv'
    BY DEF Fail, End, Release, Retries, Evict, IInv, TypeOK, ConnInv, Sent, wires
  <1>4. KeyInv'
    BY DEF Fail, End, Release, Retries, Evict, IInv, TypeOK, KeyInv, Sent, wires
  <1>5. TargetInv'
    BY DEF Fail, End, Release, Retries, Evict, IInv, TypeOK, TargetInv, Sent, wires
  <1>6. OwnInv'
    BY <1>a, NoTaskAssumption
    DEF Fail, End, Release, IInv, TypeOK, OwnInv, Holding, Dialing, Waiting, Sent, Ended
  <1>7. HolderInv'
    <2>1. \A u \in Task : u # t => /\ pc'[u] = pc[u] /\ origin'[u] = origin[u]
                                  /\ target'[u] = target[u] /\ transport'[u] = transport[u]
      BY DEF Fail, End, Release, Retries, IInv, TypeOK
    <2>2. \A k \in Key : holder'[k] \in {holder[k], NoTask, t}
      BY <1>a DEF Fail, End, Release, Retries, IInv, TypeOK, shared
    <2>3. \A k \in Key : holder'[k] = t => MayOwn(t, k)'
      BY <1>a, NoTaskAssumption, KeyFacts
      DEF Fail, End, Release, Retries, IInv, TypeOK, HolderInv, MayOwn, TargetInv, TargetKey, Holding, Dialing,
          Waiting, Sent, shared
    <2> QED
      BY <2>1, <2>2, <2>3, OwnerStep
  <1>8. SlotInv'
    BY DEF Fail, End, Release, Retries, Evict, IInv, TypeOK, SlotInv, Dialing, Sent, wires, TargetKey
  <1>9. ServedInv'
    BY DEF Fail, End, Release, Retries, Evict, IInv, TypeOK, ServedInv, TargetInv, Holding, Dialing,
           Waiting, Sent, Ended, Earlier, wires
  <1> QED
    BY <1>1, <1>2, <1>3, <1>4, <1>5, <1>6, <1>7, <1>8, <1>9 DEF IInv

LEMMA FailoverLockStep ==
    ASSUME IInv, NEW t \in Task, FailoverLock(t)
    PROVE IInv'
  <1>a. \A u \in Task : TargetKey(u) \in Key /\ TargetKey(u)' = TargetKey(u)
    BY TargetKeyType DEF FailoverLock, IInv, TypeOK, TargetKey
  <1>b. holder[TargetKey(t)] = NoTask
    BY DEF FailoverLock, Free
  <1>1. TypeOK'
    BY DEF FailoverLock, IInv, TypeOK, PC, Holding, Dialing, Waiting, Sent, Ended, wires
  <1>2. HandoutMatches'
    BY DEF FailoverLock, IInv, TypeOK, HandoutMatches, wires, TargetKey
  <1>3. ConnInv'
    BY DEF FailoverLock, IInv, TypeOK, ConnInv, Sent, wires
  <1>4. KeyInv'
    BY DEF FailoverLock, IInv, TypeOK, KeyInv, wires
  <1>5. TargetInv'
    BY DEF FailoverLock, IInv, TypeOK, TargetInv, wires
  <1>6. OwnInv'
    BY <1>a, <1>b, NoTaskAssumption
    DEF FailoverLock, IInv, TypeOK, OwnInv, Holding, Dialing, Waiting
  <1>7. HolderInv'
    <2>1. \A u \in Task : u # t => /\ pc'[u] = pc[u] /\ origin'[u] = origin[u]
                                  /\ target'[u] = target[u] /\ transport'[u] = transport[u]
      BY DEF FailoverLock, IInv, TypeOK
    <2>2. \A k \in Key : holder'[k] \in {holder[k], NoTask, t}
      BY <1>a DEF FailoverLock, IInv, TypeOK, shared
    <2>3. \A k \in Key : holder'[k] = t => MayOwn(t, k)'
      BY <1>a, <1>b, NoTaskAssumption, KeyFacts
      DEF FailoverLock, IInv, TypeOK, HolderInv, MayOwn, TargetInv, TargetKey, Holding, Dialing,
          Waiting, Sent, shared
    <2> QED
      BY <2>1, <2>2, <2>3, OwnerStep
  <1>8. SlotInv'
    BY <1>a, <1>b, NoTaskAssumption
    DEF FailoverLock, IInv, TypeOK, SlotInv, Dialing, OwnInv, Holding, wires
  <1>9. ServedInv'
    BY DEF FailoverLock, IInv, TypeOK, ServedInv, TargetInv, Holding, Dialing, Waiting, Sent, Ended,
           Earlier, wires
  <1> QED
    BY <1>1, <1>2, <1>3, <1>4, <1>5, <1>6, <1>7, <1>8, <1>9 DEF IInv

LEMMA FailoverCheckStep ==
    ASSUME IInv, NEW t \in Task, FailoverCheck(t)
    PROVE IInv'
  <1>a. \A u \in Task : TargetKey(u) \in Key /\ TargetKey(u)' = TargetKey(u)
    BY TargetKeyType DEF FailoverCheck, IInv, TypeOK, TargetKey
  <1>b. slot[TargetKey(t)] \in Conn /\ phase[slot[TargetKey(t)]] \in {"open", "closed"}
    <2>1. slot[TargetKey(t)] \in Conn /\ key[slot[TargetKey(t)]] = TargetKey(t)
      BY <1>a DEF FailoverCheck, IInv, TypeOK, HandoutMatches, SlotInv, Dialing
    <2>2. TargetKey(t) # NoKey /\ TargetKey(t)[2] = "h2"
      BY <1>a, KeyFacts DEF FailoverCheck, IInv, TargetInv, TargetKey
    <2> QED
      BY <2>1, <2>2 DEF IInv, TypeOK, KeyInv
  <1>1. TypeOK'
    BY TargetKeyType, KeyFacts DEF FailoverCheck, Use, IInv, TypeOK, PC, Holding, Dialing,
           Waiting, Sent, Ended, shared, wires, TargetKey, Proto
  <1>2. HandoutMatches'
    BY <1>a DEF FailoverCheck, Use, IInv, TypeOK, HandoutMatches, shared, wires
  <1>3. ConnInv'
    <2>1. CASE Use(t, slot[TargetKey(t)])
      BY <1>b, <2>1, NoConnAssumption DEF Use, IInv, TypeOK, ConnInv, Sent
    <2>2. CASE pc' = [pc EXCEPT ![t] = "rfdial"] /\ UNCHANGED conn
      BY <2>2 DEF FailoverCheck, IInv, TypeOK, ConnInv, Sent
    <2> QED
      BY <2>1, <2>2 DEF FailoverCheck
  <1>4. KeyInv'
    BY DEF FailoverCheck, Use, IInv, TypeOK, KeyInv, shared, wires
  <1>5. TargetInv'
    BY DEF FailoverCheck, Use, IInv, TypeOK, TargetInv, shared, wires
  <1>6. OwnInv'
    BY <1>a, NoTaskAssumption
    DEF FailoverCheck, Use, IInv, TypeOK, OwnInv, Holding, Dialing, shared
  <1>7. HolderInv'
    <2>1. \A u \in Task : u # t => /\ pc'[u] = pc[u] /\ origin'[u] = origin[u]
                                  /\ target'[u] = target[u] /\ transport'[u] = transport[u]
      BY DEF FailoverCheck, Use, IInv, TypeOK
    <2>2. \A k \in Key : holder'[k] \in {holder[k], NoTask, t}
      BY <1>a DEF FailoverCheck, Use, IInv, TypeOK, shared
    <2>3. \A k \in Key : holder'[k] = t => MayOwn(t, k)'
      BY <1>a, NoTaskAssumption, KeyFacts
      DEF FailoverCheck, Use, IInv, TypeOK, HolderInv, MayOwn, TargetInv, TargetKey, Holding, Dialing,
          Waiting, Sent, shared
    <2> QED
      BY <2>1, <2>2, <2>3, OwnerStep
  <1>8. SlotInv'
    BY <1>a, <1>b, NoTaskAssumption
    DEF FailoverCheck, Use, IInv, TypeOK, SlotInv, Dialing, OwnInv, Holding, shared, wires
  <1>9. ServedInv'
    BY DEF FailoverCheck, Use, IInv, TypeOK, ServedInv, TargetInv, Holding, Dialing, Waiting,
           Sent, Ended, Earlier, shared, wires
  <1> QED
    BY <1>1, <1>2, <1>3, <1>4, <1>5, <1>6, <1>7, <1>8, <1>9 DEF IInv

LEMMA ReceiveStep ==
    ASSUME IInv, NEW t \in Task, Receive(t)
    PROVE IInv'
  <1>a. \A u \in Task : TargetKey(u) \in Key /\ TargetKey(u)' = TargetKey(u)
    BY TargetKeyType DEF Receive, IInv, TypeOK, TargetKey
  <1>1. TypeOK'
    BY DEF Receive, Release, IInv, TypeOK, PC, wires
  <1>2. HandoutMatches'
    BY <1>a DEF Receive, IInv, TypeOK, HandoutMatches, wires
  <1>3. ConnInv'
    BY DEF Receive, IInv, TypeOK, ConnInv, Sent, wires
  <1>4. KeyInv'
    BY DEF Receive, IInv, TypeOK, KeyInv, wires
  <1>5. TargetInv'
    BY DEF Receive, IInv, TypeOK, TargetInv, wires
  <1>6. OwnInv'
    BY <1>a, NoTaskAssumption DEF Receive, Release, IInv, TypeOK, OwnInv, Holding, Dialing
  <1>7. HolderInv'
    BY <1>a, NoTaskAssumption DEF Receive, Release, IInv, TypeOK, HolderInv, MayOwn, Holding,
           Dialing, Sent
  <1>8. SlotInv'
    BY <1>a DEF Receive, IInv, TypeOK, SlotInv, Dialing, wires
  <1>9. ServedInv'
    BY DEF Receive, IInv, TypeOK, ServedInv, Holding, Dialing, Waiting, Ended, Earlier, wires
  <1> QED
    BY <1>1, <1>2, <1>3, <1>4, <1>5, <1>6, <1>7, <1>8, <1>9 DEF IInv

LEMMA RespondStep ==
    ASSUME IInv, NEW t \in Task, Respond(t)
    PROVE IInv'
  <1>1. TypeOK'
    BY MaxHopsAssumption, AltSvcKeyAssumption
    DEF Respond, End, Release, HopsLeft, Advertised, IInv, TypeOK, PC, Ended, wires
  <1>2. HandoutMatches'
    BY DEF Respond, End, Release, HopsLeft, Advertised, IInv, TypeOK, HandoutMatches, ConnInv, Sent, wires,
           TargetKey
  <1>3. ConnInv'
    BY DEF Respond, End, Release, HopsLeft, Advertised, IInv, TypeOK, ConnInv, Sent, wires
  <1>4. KeyInv'
    BY DEF Respond, End, Release, HopsLeft, Advertised, IInv, TypeOK, KeyInv, wires
  <1>5. TargetInv'
    BY DEF Respond, End, Release, HopsLeft, Advertised, IInv, TypeOK, TargetInv, wires
  <1>6. OwnInv'
    <2>1. pc'[t] \notin Holding
      BY DEF Respond, End, IInv, TypeOK, Holding, Dialing
    <2>2. \A u \in Task : u # t => /\ pc'[u] = pc[u] /\ origin'[u] = origin[u]
                                  /\ target'[u] = target[u]
      BY DEF Respond, End, IInv, TypeOK
    <2>3. \A k \in Key, u \in Task : u # t /\ holder[k] = u => holder'[k] = u
      BY DEF Respond, End, Release, IInv, TypeOK
    <2>4. ASSUME NEW u \in Task, pc'[u] \in Holding
          PROVE  holder'[TargetKey(u)'] = u
      <3>1. u # t /\ pc[u] \in Holding /\ TargetKey(u)' = TargetKey(u)
        BY <2>1, <2>2, <2>4 DEF TargetKey
      <3>2. holder[TargetKey(u)] = u /\ TargetKey(u) \in Key
        BY <3>1, TargetKeyType DEF IInv, OwnInv
      <3> QED
        BY <2>3, <3>1, <3>2
    <2> QED
      BY <2>4 DEF OwnInv, Holding, Dialing
  <1>7. HolderInv'
    BY DEF Respond, End, Release, HopsLeft, Advertised, IInv, TypeOK, HolderInv, MayOwn, Sent, Holding, Dialing, wires,
           TargetKey
  <1>8. SlotInv'
    BY DEF Respond, End, Release, HopsLeft, Advertised, IInv, TypeOK, SlotInv, Dialing, wires, TargetKey
  <1>9. ServedInv'
    BY DEF Respond, End, Release, HopsLeft, Advertised, IInv, TypeOK, ServedInv, TargetInv,
           Holding, Dialing, Waiting, Sent, Ended, Earlier, wires
  <1> QED
    BY <1>1, <1>2, <1>3, <1>4, <1>5, <1>6, <1>7, <1>8, <1>9 DEF IInv

LEMMA CancelStep ==
    ASSUME IInv, NEW t \in Task, Cancel(t)
    PROVE IInv'
  <1>a. \A u \in Task : TargetKey(u) \in Key /\ TargetKey(u)' = TargetKey(u)
    BY TargetKeyType DEF Cancel, IInv, TypeOK, TargetKey
  <1>1. TypeOK'
    BY DEF Cancel, End, Release, IInv, TypeOK, PC, Holding, Dialing, Waiting, Sent, Ended, wires
  <1>2. HandoutMatches'
    BY DEF Cancel, End, Release, IInv, TypeOK, HandoutMatches, Waiting, Sent, wires, TargetKey
  <1>3. ConnInv'
    BY DEF Cancel, End, Release, IInv, TypeOK, ConnInv, Waiting, Sent, wires
  <1>4. KeyInv'
    BY DEF Cancel, End, Release, IInv, TypeOK, KeyInv, Waiting, Sent, wires
  <1>5. TargetInv'
    BY DEF Cancel, End, Release, IInv, TypeOK, TargetInv, Waiting, Sent, wires
  <1>6. OwnInv'
    BY <1>a, NoTaskAssumption
    DEF Cancel, End, Release, IInv, TypeOK, OwnInv, Holding, Dialing, Waiting, Sent, Ended
  <1>7. HolderInv'
    BY NoTaskAssumption, KeyFacts DEF Cancel, End, Release, IInv, TypeOK, HolderInv, MayOwn, OwnInv,
           Holding, Dialing, Waiting, Sent, Ended, wires, TargetKey, Proto
  <1>8. SlotInv'
    BY DEF Cancel, End, Release, IInv, TypeOK, SlotInv, Dialing, Waiting, Sent, wires, TargetKey
  <1>9. ServedInv'
    BY DEF Cancel, End, Release, IInv, TypeOK, ServedInv, TargetInv, Holding, Dialing, Waiting, Sent,
           Ended, Earlier, wires
  <1> QED
    BY <1>1, <1>2, <1>3, <1>4, <1>5, <1>6, <1>7, <1>8, <1>9 DEF IInv

-----------------------------------------------------------------------------
(* The inductive invariant *)

LEMMA InitIInv == Init => IInv
  BY MaxHopsAssumption, NoTaskAssumption, NoConnAssumption
  DEF Init, IInv, TypeOK, HandoutMatches, ConnInv, KeyInv, TargetInv, OwnInv, HolderInv, MayOwn, SlotInv, Dialing,
      ServedInv, Proto, PC, Holding, Waiting, Sent, Ended

(* The network changes nothing but the phase of a dialed connection. *)
LEMMA NetworkStep ==
    ASSUME IInv, NEW c \in Conn, Handshake(c) \/ Close(c)
    PROVE IInv'
  <1>1. TypeOK'
    BY DEF Handshake, Close, IInv, TypeOK, shared, calls
  <1>2. HandoutMatches'
    BY DEF Handshake, Close, IInv, HandoutMatches, TargetKey, shared, calls
  <1>3. ConnInv' /\ TargetInv' /\ OwnInv' /\ HolderInv' /\ ServedInv'
    BY DEF Handshake, Close, IInv, ConnInv, TargetInv, OwnInv, HolderInv, MayOwn, Holding, Dialing, Sent, ServedInv, Earlier, TargetKey,
           shared, calls
  <1>4. KeyInv'
    BY DEF Handshake, Close, IInv, TypeOK, KeyInv
  <1>5. SlotInv'
    <2>1. \A d \in Conn : phase[d] = "closed" => phase'[d] = "closed"
      BY DEF Handshake, Close, IInv, TypeOK
    <2>2. \A u \in Task : slot[TargetKey(u)] \in Conn \cup {NoConn}
      BY TargetKeyType DEF IInv, TypeOK
    <2> QED
      BY <2>1, <2>2 DEF Handshake, Close, IInv, SlotInv, Dialing, TargetKey, shared, calls
  <1> QED
    BY <1>1, <1>2, <1>3, <1>4, <1>5 DEF IInv

LEMMA StutterStep == IInv /\ UNCHANGED vars => IInv'
  BY DEF IInv, TypeOK, HandoutMatches, ConnInv, KeyInv, TargetInv, OwnInv, HolderInv, MayOwn, Holding, Sent, SlotInv, Dialing, ServedInv,
         Earlier, TargetKey, vars, shared, wires, calls

LEMMA NextIInv == IInv /\ [Next]_vars => IInv'
  <1> SUFFICES ASSUME IInv, [Next]_vars PROVE IInv'
    OBVIOUS
  <1>1. ASSUME NEW t \in Task, Begin(t) \/ Route(t) \/ Peek(t) \/ Check(t) \/ Clear(t) \/ Acquire(t)
        PROVE  IInv'
    BY <1>1, BeginStep, RouteStep, PeekStep, CheckStep, ClearStep, AcquireStep
  <1>2. ASSUME NEW t \in Task, (\E c \in Conn : DialOk(t, c)) \/ DialFail(t) \/ FallbackLock(t)
        PROVE  IInv'
    BY <1>2, DialOkStep, DialFailStep, FallbackLockStep
  <1>3. ASSUME NEW t \in Task,
               \/ Serve(t) \/ Fail(t) \/ FailoverLock(t) \/ FailoverCheck(t)
               \/ Receive(t) \/ Respond(t) \/ Cancel(t)
        PROVE  IInv'
    BY <1>3, ServeStep, FailStep, FailoverLockStep, FailoverCheckStep, ReceiveStep,
       RespondStep, CancelStep
  <1>4. CASE \E c \in Conn : Handshake(c) \/ Close(c)
    BY <1>4, NetworkStep
  <1>5. CASE UNCHANGED vars
    BY <1>5, StutterStep
  <1> QED
    BY <1>1, <1>2, <1>3, <1>4, <1>5 DEF Next, Quiesce

(* The inductive invariant holds in every reachable state (pool.rs:177-507). *)
THEOREM Invariance == Spec => []IInv
  BY InitIInv, NextIInv, PTL DEF Spec

-----------------------------------------------------------------------------
(* What it implies *)

(* Type correctness: every variable stays in its domain, for every number of
   calls and every redirect limit. *)
THEOREM TypeCorrect == Spec => []TypeOK
  <1>1. IInv => TypeOK
    BY DEF IInv
  <1> QED
    BY <1>1, Invariance, PTL

(* The mutex per pool key serializes dials (pool.rs:257-258): two calls that
   dial the same key would both own its mutex. *)
THEOREM SingleFlightHolds == Spec => []SingleFlight
  <1>1. IInv => SingleFlight
    BY DEF IInv, OwnInv, SingleFlight, Holding, Dialing
  <1> QED
    BY <1>1, Invariance, PTL

(* Pool keys isolate origins and transports (pool.rs:216-220). *)
THEOREM HandoutMatchesHolds == Spec => []HandoutMatches
  <1>1. IInv => HandoutMatches
    BY DEF IInv
  <1> QED
    BY <1>1, Invariance, PTL

(* A call owns a mutex only while it dials or checks, has fallen back, or awaits the
   response to the request of its failover, and never after its end; so calls that own
   one mutex and wait for another form no cycle (pool.rs:299-337, 396-456). *)
THEOREM LockDisciplineHolds == Spec => []LockDiscipline
  <1>1. IInv => LockDiscipline
    BY DEF IInv, TypeOK, HolderInv, LockDiscipline
  <1> QED
    BY <1>1, Invariance, PTL

(* A request reaches a server at most twice, and once if it was routed to
   HTTP/2 (pool.rs:379-384, 456-457). *)
THEOREM ResendBoundHolds == Spec => []ResendBound
  <1>1. IInv => ResendBound
    BY DEF IInv, TypeOK, ServedInv, Earlier, ResendBound, PC, Holding, Dialing, Waiting, Sent, Ended
  <1> QED
    BY <1>1, Invariance, PTL

(* Only dead connections are replaced (CHANGELOG.md:45): the one step that puts
   a connection into a slot is a dial, under the slot's mutex and after a check. *)
THEOREM OverwriteOnlyDeadHolds == Spec => OverwriteOnlyDead
  <1> DEFINE Overwrite ==
        \A k \in Key : slot[k] # NoConn /\ slot'[k] \notin {slot[k], NoConn} => phase[slot[k]] = "closed"
  <1>1. IInv /\ [Next]_vars => Overwrite
    <2> SUFFICES ASSUME IInv, [Next]_vars, NEW k \in Key,
                        slot[k] # NoConn, slot'[k] \notin {slot[k], NoConn}
                 PROVE  phase[slot[k]] = "closed"
      OBVIOUS
    <2>1. ASSUME NEW t \in Task, NEW c \in Conn, DialOk(t, c)
          PROVE  phase[slot[k]] = "closed"
      BY <2>1 DEF DialOk, IInv, TypeOK, SlotInv, Dialing
    <2>2. ASSUME NEW t \in Task, Clear(t)
          PROVE  FALSE
      BY <2>2 DEF Clear, IInv, TypeOK
    <2>3. CASE UNCHANGED slot
      BY <2>3
    <2> QED
      BY <2>1, <2>2, <2>3
      DEF Next, Begin, Route, Peek, Check, Acquire, DialFail, FallbackLock, Serve, Fail, FailoverLock,
          FailoverCheck, Receive, Respond, Cancel, Handshake, Close, Quiesce, vars, shared
  <1> QED
    BY <1>1, Invariance, PTL DEF Spec, OverwriteOnlyDead

-----------------------------------------------------------------------------
(* What Establishes rests on *)

(* A call that others may wait for and that waits for no mutex: it dials or checks, or
   it awaits the response to the request of its failover. *)
Busy(t) ==
    \/ pc[t] \in Holding
    \/ pc[t] \in Sent /\ transport[t] = "h3" /\ target[t] = "h2"

(* Nobody waits in a circle, nor for itself (pool.rs:257-283, 299-337, 396-456): the
   owner of a mutex that a call waits for waits for none, or it has fallen back after
   a failed dial and waits for an HTTP/2 mutex that is free or whose owner waits for
   none.  However many calls there are, a chain of waiting has two links at most, and
   ends with a dial, a check or a response. *)
WaitEnds ==
    \A t \in Task : pc[t] \in Waiting /\ ~Free(TargetKey(t)) =>
        LET u == holder[TargetKey(t)]
            v == holder[TargetKey(u)]
        IN  /\ u # t
            /\ \/ Busy(u)
               \/ /\ pc[u] = "fbwait" /\ target[t] = "h3" /\ target[u] = "h2"
                  /\ Free(TargetKey(u)) \/ (v \notin {t, u} /\ Busy(v))

(* WaitEnds: with any number of calls, no call waits for itself or in a circle. *)
THEOREM NoCircle == Spec => []WaitEnds
  <1>1. ASSUME IInv, NEW t \in Task, pc[t] \in Waiting, NEW k \in Key, NEW u \in Task,
               k = TargetKey(t), holder[k] = u
        PROVE  /\ u # t
               /\ \/ Busy(u)
                  \/ pc[u] = "fbwait" /\ target[t] = "h3" /\ target[u] = "h2"
    <2>1. \/ Busy(u)
          \/ pc[u] = "fbwait" /\ k[2] = "h3" /\ target[u] = "h2"
      BY <1>1 DEF IInv, HolderInv, MayOwn, Holding, Dialing, Busy
    <2>2. k[2] = target[t]
      BY <1>1 DEF TargetKey
    <2> QED
      BY <1>1, <2>1, <2>2 DEF Holding, Dialing, Waiting, Sent, Busy
  <1>2. ASSUME IInv, NEW t \in Task, pc[t] \in Waiting, ~Free(TargetKey(t))
        PROVE  LET u == holder[TargetKey(t)]
                   v == holder[TargetKey(u)]
               IN  /\ u # t
                   /\ \/ Busy(u)
                      \/ /\ pc[u] = "fbwait" /\ target[t] = "h3" /\ target[u] = "h2"
                         /\ Free(TargetKey(u)) \/ (v \notin {t, u} /\ Busy(v))
    <2> DEFINE u == holder[TargetKey(t)]
               v == holder[TargetKey(u)]
    <2>1. TargetKey(t) \in Key /\ u \in Task
      BY <1>2, TargetKeyType DEF IInv, TypeOK, Free
    <2>2. /\ u # t
          /\ \/ Busy(u)
             \/ pc[u] = "fbwait" /\ target[t] = "h3" /\ target[u] = "h2"
      BY <1>1, <1>2, <2>1
    <2>3. ASSUME pc[u] = "fbwait", target[u] = "h2", ~Free(TargetKey(u))
          PROVE  v \notin {t, u} /\ Busy(v)
      <3> HIDE DEF u
      <3>1. TargetKey(u) \in Key /\ v \in Task /\ pc[u] \in Waiting
        BY <1>2, <2>1, <2>3, TargetKeyType DEF IInv, TypeOK, Free, Waiting
      <3> HIDE DEF v
      <3>2. v # u /\ Busy(v)
        BY <1>1, <1>2, <2>1, <2>3, <3>1 DEF v
      <3> QED
        BY <1>2, <3>2 DEF Holding, Dialing, Waiting, Sent, Busy
    <2> QED
      BY <2>2, <2>3
  <1>3. IInv => WaitEnds
    BY <1>2 DEF WaitEnds
  <1> QED
    BY <1>3, Invariance, PTL

-----------------------------------------------------------------------------
(* Where the faults are that the pool has *)

(* Whoever sends on a connection that is dead by then took it unchecked: an HTTP/2 one
   after a failed UDP dial (pool.rs:335), or an HTTP/3 one (pool.rs:289-293).  No other
   path hands out a dead one, whatever it replaced or found. *)
UncheckedOnly ==
    \A t \in Task :
        pc[t] # "inflight" /\ pc'[t] = "inflight" /\ phase[conn'[t]] = "closed"
            => pc[t] = "fbwait" \/ (pc[t] = "peek" /\ target[t] = "h3")

(* UncheckedOnly: a dead connection is handed out at these two places only. *)
THEOREM DeadHandoutUnchecked == Spec => [][UncheckedOnly]_vars
  <1>1. ASSUME IInv, Next, NEW t \in Task, pc[t] # "inflight", pc'[t] = "inflight",
               phase[conn'[t]] = "closed"
        PROVE  pc[t] = "fbwait" \/ (pc[t] = "peek" /\ target[t] = "h3")
    <2>1. ASSUME NEW u \in Task, u # t,
                 \/ Begin(u) \/ Route(u) \/ Peek(u) \/ Check(u) \/ Clear(u) \/ Acquire(u)
                 \/ DialFail(u) \/ FallbackLock(u) \/ Serve(u) \/ Fail(u) \/ FailoverLock(u)
                 \/ FailoverCheck(u) \/ Receive(u) \/ Respond(u) \/ Cancel(u)
                 \/ \E c \in Conn : DialOk(u, c)
          PROVE  FALSE
      <3>1. pc'[t] = pc[t]
        BY <1>1, <2>1
        DEF Begin, Route, Peek, Check, Clear, Acquire, DialFail, FallbackLock, Serve, Fail,
            FailoverLock, FailoverCheck, Receive, Respond, Cancel, DialOk, Use, End, IInv, TypeOK
      <3> QED
        BY <1>1, <3>1
    <2>2. CASE Peek(t)
      BY <1>1, <2>2 DEF Peek, IInv, TypeOK
    <2>3. CASE Check(t)
      BY <1>1, <2>3 DEF Check, IInv, TypeOK
    <2>4. ASSUME NEW c \in Conn, DialOk(t, c)
          PROVE  FALSE
      BY <1>1, <2>4 DEF DialOk, Use, IInv, TypeOK
    <2>5. CASE FailoverCheck(t)
      BY <1>1, <2>5 DEF FailoverCheck, Use, IInv, TypeOK
    <2>6. CASE FallbackLock(t)
      BY <2>6 DEF FallbackLock
    <2>7. CASE \/ Begin(t) \/ Route(t) \/ Clear(t) \/ Acquire(t) \/ DialFail(t) \/ Serve(t)
               \/ Fail(t) \/ FailoverLock(t) \/ Receive(t) \/ Respond(t) \/ Cancel(t)
      BY <1>1, <2>7 DEF Begin, Route, Clear, Acquire, DialFail, Serve, Fail, FailoverLock,
                       Receive, Respond, Cancel, End, IInv, TypeOK
    <2>8. CASE (\E c \in Conn : Handshake(c) \/ Close(c)) \/ Quiesce
      BY <1>1, <2>8 DEF Handshake, Close, Quiesce, vars, calls
    <2> QED
      BY <1>1, <2>1, <2>2, <2>3, <2>4, <2>5, <2>6, <2>7, <2>8 DEF Next
  <1>2. IInv /\ [Next]_vars => [UncheckedOnly]_vars
    BY <1>1 DEF UncheckedOnly
  <1> QED
    BY <1>2, Invariance, PTL DEF Spec

-----------------------------------------------------------------------------
(* While TCP works *)

(* A connection that was dialed is in its slot for good, an HTTP/2 one open; so a
   check never fails, nothing is ever cleared, and a dial finds its slot empty. *)
Pooled    == \A c \in Conn : key[c] # NoKey => slot[key[c]] = c
TcpUp     == \A c \in Conn : key[c] # NoKey /\ key[c][2] = "h2" => phase[c] = "open"
EmptyDial == \A t \in Task : pc[t] \in Dialing => slot[TargetKey(t)] = NoConn
Unfailed  == \A t \in Task : pc[t] \notin {"clear", "err"}

CalmInv == Pooled /\ TcpUp /\ EmptyDial /\ Unfailed

LEMMA InitCalm == Init => CalmInv
  BY DEF Init, CalmInv, Pooled, TcpUp, EmptyDial, Unfailed, Dialing

(* What is found in a slot, or handed to a call, of HTTP/2 is open. *)
LEMMA FoundOpen ==
    ASSUME IInv, CalmInv, NEW t \in Task, target[t] = "h2", NEW c \in Conn,
           key[c] = TargetKey(t)
    PROVE phase[c] = "open"
  <1>1. key[c] # NoKey /\ key[c][2] = "h2"
    BY KeyFacts, TargetKeyType DEF IInv, TargetKey
  <1> QED
    BY <1>1 DEF CalmInv, TcpUp

(* The steps that change neither a slot nor a connection. *)
LEMMA QuietCalm ==
    ASSUME IInv, CalmInv, slot' = slot, key' = key, phase' = phase,
           NEW t \in Task,
           \A u \in Task : u # t => pc'[u] = pc[u] /\ TargetKey(u)' = TargetKey(u),
           pc'[t] \notin {"clear", "err"},
           pc'[t] \in Dialing => slot[TargetKey(t)'] = NoConn
    PROVE CalmInv'
  BY DEF CalmInv, Pooled, TcpUp, EmptyDial, Unfailed

LEMMA SearchCalm ==
    ASSUME IInv, CalmInv, NEW t \in Task,
           Begin(t) \/ Route(t) \/ Peek(t) \/ Check(t) \/ Acquire(t)
    PROVE CalmInv'
  <1>1. /\ slot' = slot /\ key' = key /\ phase' = phase
        /\ \A u \in Task : u # t => pc'[u] = pc[u] /\ TargetKey(u)' = TargetKey(u)
    BY DEF Begin, Route, Peek, Check, Acquire, IInv, TypeOK, shared, wires, TargetKey
  <1>2. Check(t) => phase[conn[t]] = "open"
    <2> SUFFICES ASSUME Check(t) PROVE phase[conn[t]] = "open"
      OBVIOUS
    <2>1. target[t] = "h2" /\ conn[t] \in Conn /\ key[conn[t]] = TargetKey(t)
      BY DEF Check, IInv, TypeOK, ConnInv, TargetInv, HandoutMatches
    <2> QED
      BY <2>1, FoundOpen
  <1>3. /\ pc'[t] \notin {"clear", "err"}
        /\ pc'[t] \in Dialing => slot[TargetKey(t)] = NoConn /\ TargetKey(t)' = TargetKey(t)
    BY <1>2 DEF Begin, Route, Peek, Check, Acquire, Dialing, IInv, TypeOK, TargetKey
  <1> QED
    BY <1>1, <1>3, QuietCalm

LEMMA DialOkCalm ==
    ASSUME IInv, CalmInv, NEW t \in Task, NEW c \in Conn, DialOk(t, c)
    PROVE CalmInv'
  <1> DEFINE k == TargetKey(t)
  <1>1. /\ k \in Key /\ k # NoKey /\ k[2] = target[t] /\ target[t] \in Proto
        /\ k = <<origin[t], target[t]>>
    BY KeyFacts, TargetKeyType DEF IInv, TypeOK, TargetKey
  <1>2. /\ key' = [key EXCEPT ![c] = k] /\ slot' = [slot EXCEPT ![k] = c]
        /\ phase'[c] = "open" \/ target[t] # "h2"
        /\ \A d \in Conn : d # c => phase'[d] = phase[d]
        /\ key[c] = NoKey /\ slot[k] = NoConn
        /\ pc' = [pc EXCEPT ![t] = "inflight"]
        /\ \A u \in Task : TargetKey(u)' = TargetKey(u)
    BY <1>1 DEF DialOk, Use, IInv, TypeOK, KeyInv, CalmInv, EmptyDial, TargetKey
  <1>3. key \in [Conn -> Key \cup {NoKey}] /\ slot \in [Key -> Conn \cup {NoConn}]
        /\ pc \in [Task -> PC] /\ \A u \in Task : TargetKey(u) \in Key
    BY TargetKeyType DEF IInv, TypeOK
  <1>4. Pooled'
    <2> SUFFICES ASSUME NEW d \in Conn, key'[d] # NoKey
                 PROVE  slot'[key'[d]] = d
      BY DEF Pooled
    <2>1. CASE d = c
      BY <1>1, <1>2, <1>3, <2>1
    <2>2. CASE d # c
      <3>1. key'[d] = key[d] /\ key[d] \in Key /\ slot[key[d]] = d
        BY <1>2, <1>3, <2>2 DEF CalmInv, Pooled
      <3>2. key[d] # k
        BY <1>2, <3>1, NoConnAssumption
      <3> QED
        BY <1>2, <1>3, <3>1, <3>2
    <2> QED
      BY <2>1, <2>2
  <1>5. TcpUp'
    <2> SUFFICES ASSUME NEW d \in Conn, key'[d] # NoKey, key'[d][2] = "h2"
                 PROVE  phase'[d] = "open"
      BY DEF TcpUp
    <2>1. CASE d = c
      BY <1>1, <1>2, <1>3, <2>1
    <2>2. CASE d # c
      BY <1>2, <1>3, <2>2 DEF CalmInv, TcpUp
    <2> QED
      BY <2>1, <2>2
  <1>6. EmptyDial'
    <2> SUFFICES ASSUME NEW u \in Task, pc'[u] \in Dialing
                 PROVE  slot'[TargetKey(u)'] = NoConn
      BY DEF EmptyDial
    <2>1. u # t /\ pc[u] \in Dialing /\ pc[t] \in Dialing
      BY <1>2, <1>3 DEF DialOk, Dialing
    <2>2. TargetKey(u) # k
      BY <2>1 DEF IInv, OwnInv, Holding, Dialing
    <2> QED
      BY <1>2, <1>3, <2>1, <2>2 DEF CalmInv, EmptyDial
  <1>7. Unfailed'
    BY <1>2, <1>3 DEF CalmInv, Unfailed
  <1> QED
    BY <1>4, <1>5, <1>6, <1>7 DEF CalmInv

LEMMA RestCalm ==
    ASSUME IInv, CalmInv, H2Faults = FALSE, NEW t \in Task,
           \/ DialFail(t) \/ FallbackLock(t) \/ Serve(t) \/ Fail(t)
           \/ FailoverLock(t) \/ FailoverCheck(t) \/ Receive(t) \/ Respond(t) \/ Cancel(t)
    PROVE CalmInv'
  <1>1. /\ slot' = slot /\ key' = key /\ phase' = phase
        /\ \A u \in Task : u # t => pc'[u] = pc[u] /\ TargetKey(u)' = TargetKey(u)
    BY DEF DialFail, FallbackLock, Serve, Fail, FailoverLock, FailoverCheck, Receive, Respond, Cancel,
           End, Use, IInv, TypeOK, shared, wires, TargetKey
  <1>2. FailoverCheck(t) => phase[slot[TargetKey(t)]] = "open"
    <2> SUFFICES ASSUME FailoverCheck(t) PROVE phase[slot[TargetKey(t)]] = "open"
      OBVIOUS
    <2>1. target[t] = "h2" /\ slot[TargetKey(t)] # NoConn
      BY DEF FailoverCheck, IInv, TargetInv, SlotInv, Dialing
    <2>2. TargetKey(t) \in Key
      BY TargetKeyType DEF IInv
    <2>3. slot[TargetKey(t)] \in Conn /\ key[slot[TargetKey(t)]] = TargetKey(t)
      BY <2>1, <2>2 DEF IInv, TypeOK, HandoutMatches
    <2> QED
      BY <2>1, <2>3, FoundOpen
  <1>3. Fail(t) => pc'[t] = "rfwait"
    BY DEF Fail, Retries, IInv, TypeOK, Proto
  <1>4. DialFail(t) => pc'[t] = "fbwait"
    BY DEF DialFail, IInv, TypeOK
  <1>5. /\ pc'[t] \notin {"clear", "err"}
        /\ pc'[t] \in Dialing => slot[TargetKey(t)] = NoConn /\ TargetKey(t)' = TargetKey(t)
    BY <1>2, <1>3, <1>4
       DEF FallbackLock, Serve, FailoverLock, FailoverCheck, Receive, Respond, Cancel, End, Use,
           Dialing, IInv, TypeOK, TargetKey
  <1> QED
    BY <1>1, <1>5, QuietCalm

LEMMA NextCalm ==
    ASSUME H2Faults = FALSE
    PROVE IInv /\ CalmInv /\ [Next]_vars => CalmInv'
  <1> SUFFICES ASSUME IInv, CalmInv, [Next]_vars PROVE CalmInv'
    OBVIOUS
  <1>1. ASSUME NEW t \in Task, Begin(t) \/ Route(t) \/ Peek(t) \/ Check(t) \/ Acquire(t)
        PROVE  CalmInv'
    BY <1>1, SearchCalm
  <1>2. ASSUME NEW t \in Task, Clear(t)
        PROVE  CalmInv'
    BY <1>2 DEF Clear, CalmInv, Unfailed
  <1>3. ASSUME NEW t \in Task, NEW c \in Conn, DialOk(t, c)
        PROVE  CalmInv'
    BY <1>3, DialOkCalm
  <1>4. ASSUME NEW t \in Task,
               \/ DialFail(t) \/ FallbackLock(t) \/ Serve(t) \/ Fail(t)
               \/ FailoverLock(t) \/ FailoverCheck(t) \/ Receive(t) \/ Respond(t) \/ Cancel(t)
        PROVE  CalmInv'
    BY <1>4, RestCalm
  <1>5. ASSUME NEW c \in Conn, Handshake(c) \/ Close(c)
        PROVE  CalmInv'
    <2>1. /\ UNCHANGED <<slot, key, pc, origin, target>>
          /\ \A d \in Conn : key[d] # NoKey /\ key[d][2] = "h2" /\ phase[d] = "open"
                => phase'[d] = "open"
      BY <1>5 DEF Handshake, Close, IInv, TypeOK, shared, calls
    <2> QED
      BY <2>1 DEF CalmInv, Pooled, TcpUp, EmptyDial, Unfailed, TargetKey
  <1>6. CASE UNCHANGED vars
    BY <1>6 DEF CalmInv, Pooled, TcpUp, EmptyDial, Unfailed, TargetKey, vars, shared, wires, calls
  <1> QED
    BY <1>1, <1>2, <1>3, <1>4, <1>5, <1>6 DEF Next, Quiesce

LEMMA CalmInvariance ==
    ASSUME H2Faults = FALSE
    PROVE Spec => []CalmInv
  BY InitCalm, NextCalm, Invariance, PTL DEF Spec

(* Graceful degradation (pool.rs:171-173): while TCP works, no failure of HTTP/3
   fails a call, of however many calls, origins and connections. *)
THEOREM GracefulDegradationHolds ==
    ASSUME H2Faults = FALSE
    PROVE Spec => []GracefulDegradation
  <1>1. CalmInv => GracefulDegradation
    BY DEF CalmInv, Unfailed, GracefulDegradation
  <1> QED
    BY <1>1, CalmInvariance, PTL

(* No connection storm (pool.rs:257-258): while TCP works, any number of calls dial
   an origin once over each transport. *)
THEOREM NoStormHolds ==
    ASSUME H2Faults = FALSE
    PROVE Spec => []NoStorm
  <1>1. CalmInv => NoStorm
    BY DEF CalmInv, Pooled, NoStorm
  <1> QED
    BY <1>1, CalmInvariance, PTL

=============================================================================
