--------------------------- MODULE ServiceProofs ---------------------------
(***************************************************************************)
(* Proofs about the subsystems that stand alone: authentication sessions,  *)
(* the configuration parser, the purge of idle connections, the packet     *)
(* dissector, the socket wrapper, the retried system calls and the         *)
(* benchmark programs, each for every value of its constants.              *)
(***************************************************************************)
EXTENDS AuthSession, ConfigParser, IdleConnections, PacketDissector,
        RAIISocket, SyscallRetry, Benchmark, FiniteSetTheorems, SequenceTheorems, TLAPS

-----------------------------------------------------------------------------
(* Authentication.  FirstTokenDecides is inductive with the types, except  *)
(* for its last part, which follows from the others because the token      *)
(* determines the nonce.                                                   *)

(* Truncating an age to seconds before it is compared with a timeout in    *)
(* seconds is the same as comparing the age itself.                        *)
LEMMA TruncatedAge ==
    ASSUME NEW age \in Int, NEW ticks \in Nat \ {0}, NEW timeout \in Nat
    PROVE  age \div ticks >= timeout <=> age >= timeout * ticks
<1> DEFINE q == age \div ticks
           r == age % ticks
<1>1. q \in Int /\ r \in 0 .. ticks - 1 /\ age = ticks * q + r
  BY SMT
<1> QED
  BY <1>1, SMT

(* Folding a secret in loses nothing of a byte.                            *)
LEMMA XorCancels ==
    ASSUME NEW a \in Byte, NEW b \in Byte, NEW s \in Byte
    PROVE  Xor(a, s) \in Byte /\ (Xor(a, s) = Xor(b, s) => a = b)
BY SMT DEF Byte, Xor

(* Two nonces never have the same token, whatever the secret is: what was  *)
(* an answer to one challenge is none to another.                          *)
LEMMA TokenIdentifiesNonce ==
    ASSUME NEW m \in Nonce, NEW n \in Nonce, compute_token(m) = compute_token(n)
    PROVE  m = n
<1> USE AuthSessionAssumption
<1> DEFINE I == 0 .. NonceLength - 1
<1>1. ASSUME NEW i \in I PROVE m[i] = n[i]
  <2> DEFINE s == secret[i % SecretSize]
             t == secret[(i + 3) % SecretSize]
  <2>1. s \in Byte /\ t \in Byte
    <3>1. i % SecretSize \in 0 .. SecretSize - 1 /\ (i + 3) % SecretSize \in 0 .. SecretSize - 1
      OBVIOUS
    <3> QED
      BY <3>1
  <2>2. m[i] \in Byte /\ n[i] \in Byte
    BY DEF Nonce
  <2> DEFINE x == Xor(Xor(m[i], s), t)
             y == Xor(Xor(n[i], s), t)
  <2>3. x \in Byte /\ y \in Byte /\ (x = y => m[i] = n[i])
    <3>1. Xor(m[i], s) \in Byte /\ Xor(n[i], s) \in Byte /\ (Xor(m[i], s) = Xor(n[i], s) => m[i] = n[i])
      BY <2>1, <2>2, XorCancels
    <3> QED
      BY <2>1, <3>1, XorCancels
  <2>4. Folded(m)[i] = x /\ Folded(n)[i] = y
    BY DEF Folded
  <2>5. /\ compute_token(m)[<<i, "high">>] = x \div 2 /\ compute_token(m)[<<i, "low">>] = x % 2
        /\ compute_token(n)[<<i, "high">>] = y \div 2 /\ compute_token(n)[<<i, "low">>] = y % 2
    <3> HIDE DEF x, y
    <3> QED
      BY <2>4 DEF compute_token, Hex
  <2>6. x \div 2 = y \div 2 /\ x % 2 = y % 2
    <3> HIDE DEF x, y
    <3> QED
      BY <2>5
  <2>7. x = y
    <3> HIDE DEF x, y
    <3> QED
      BY <2>3, <2>6 DEF Byte
  <2> QED
    BY <2>3, <2>7
<1> QED
  BY <1>1 DEF Nonce

AuthTypeOK ==
    /\ auth_state \in [Sessions -> {"NONE", "CHALLENGE_SENT", "AUTHENTICATED", "REJECTED", "TIMED_OUT"}]
    /\ nonce \in [Sessions -> Nonce]
    /\ created_at \in [Sessions -> Nat] /\ answer_at \in [Sessions -> Nat]
    /\ auth_clock \in Nat
    /\ answer = [f \in Sessions |-> answer[f]]

AuthInv == AuthTypeOK /\ \A f \in Sessions : auth_state[f] # "NONE" => Judged(f)

(* Every step of a session, of another session or of the clock leaves each *)
(* verdict what the first token makes it.                                  *)
LEMMA AuthStep == AuthInv /\ [AuthNext]_auth => AuthInv'
<1> SUFFICES ASSUME AuthInv, [AuthNext]_auth
             PROVE  AuthInv'
  OBVIOUS
<1> USE AuthSessionAssumption DEF AuthInv, AuthTypeOK
<1>1. ASSUME NEW f \in Sessions, NewSession(f) PROVE AuthInv'
  BY <1>1 DEF NewSession, Judged, InTime
<1>2. ASSUME NEW f \in Sessions, NEW token, submit_token(f, token) PROVE AuthInv'
  <2>1. is_timed_out(f) <=> ~ (auth_clock - created_at[f] < AuthTimeout * TicksPerSecond)
    <3> DEFINE age == auth_clock - created_at[f]
    <3>1. age \in Int /\ AuthTimeout * TicksPerSecond \in Int
      OBVIOUS
    <3>2. age \div TicksPerSecond >= AuthTimeout <=> age >= AuthTimeout * TicksPerSecond
      BY <3>1, TruncatedAge
    <3> QED
      BY <3>1, <3>2 DEF is_timed_out
  <2>2. AuthTypeOK'
    BY <1>2 DEF submit_token, Verdict
  <2>3. ASSUME NEW g \in Sessions, auth_state'[g] # "NONE" PROVE Judged(g)'
    <3>1. CASE g # f
      BY <1>2, <2>3, <3>1 DEF submit_token, Judged, InTime
    <3>2. CASE g = f /\ auth_state[f] # "CHALLENGE_SENT"
      BY <1>2, <2>3, <3>2 DEF submit_token, Verdict, Judged, InTime
    <3>3. CASE g = f /\ auth_state[f] = "CHALLENGE_SENT"
      <4>1. answer[f] = {}
        BY <3>3 DEF Judged
      <4>2. /\ answer'[f] = {token} /\ answer_at'[f] = auth_clock
            /\ nonce' = nonce /\ created_at' = created_at
            /\ auth_state'[f] = Verdict(f, token)
        BY <1>2, <4>1 DEF submit_token
      <4>3. InTime(f)' <=> ~ is_timed_out(f)
        BY <2>1, <4>2 DEF InTime
      <4> QED
        BY <3>3, <4>2, <4>3 DEF Verdict, Judged
    <3> QED
      BY <3>1, <3>2, <3>3
  <2> QED
    BY <2>2, <2>3
<1>3. CASE AuthTick
  BY <1>3 DEF AuthTick, Judged, InTime
<1>4. CASE UNCHANGED auth
  BY <1>4 DEF auth, Judged, InTime
<1> QED
  BY <1>1, <1>2, <1>3, <1>4 DEF AuthNext

(* For any sessions, nonce length, secret and timeout: every session is    *)
(* judged by the first token submitted to it, and no token authenticates   *)
(* two sessions with different nonces.                                     *)
THEOREM OneVerdict == AuthSpec => []FirstTokenDecides
<1>1. AuthInit => AuthInv
  BY AuthSessionAssumption DEF AuthInit, AuthInv, AuthTypeOK, Nonce, Byte
<1>2. AuthInv => FirstTokenDecides
  <2> SUFFICES ASSUME AuthInv, NEW f \in Sessions, NEW g \in Sessions,
                      auth_state[f] = "AUTHENTICATED", auth_state[g] = "AUTHENTICATED",
                      answer[f] = answer[g]
               PROVE  nonce[f] = nonce[g]
    BY DEF AuthInv, FirstTokenDecides
  <2>1. answer[f] = {compute_token(nonce[f])} /\ answer[g] = {compute_token(nonce[g])}
    BY DEF AuthInv, Judged
  <2>2. compute_token(nonce[f]) = compute_token(nonce[g])
    BY <2>1
  <2> QED
    BY <2>2, TokenIdentifiesNonce DEF AuthInv, AuthTypeOK
<1> QED
  BY <1>1, <1>2, AuthStep, PTL DEF AuthSpec

-----------------------------------------------------------------------------
(* Configuration: the store holds what the file of the last load gave, and *)
(* until the load applies it the settings are those from before.           *)

ConfigInv ==
    /\ kv_store = [k \in Settings |-> kv_store[k]]
    /\ given = [k \in Settings |-> given[k]]
    /\ \A k \in Settings : given[k] # Absent => kv_store[k] = given[k]
    /\ outcome = "loading" => config = before
    /\ ReloadTakesEffect

(* Opening, reading and applying a file keep the invariant.                *)
LEMMA ConfigStep == ConfigInv /\ [ConfigNext]_configuration => ConfigInv'
<1> SUFFICES ASSUME ConfigInv, [ConfigNext]_configuration
             PROVE  ConfigInv'
  OBVIOUS
<1> USE ConfigParserAssumption
<1>1. CASE Open \/ OpenFails
  BY <1>1 DEF Open, OpenFails, Begin, NoText, ConfigInv, ReloadTakesEffect, AsGiven
<1>2. CASE UNCHANGED configuration
  BY <1>2 DEF configuration, ConfigInv, ReloadTakesEffect, AsGiven
<1>3. ASSUME NEW k \in Mentioned, NEW text \in Text, ReadLine(k, text) PROVE ConfigInv'
  BY <1>3 DEF ReadLine, ConfigInv, ReloadTakesEffect, AsGiven
<1>4. CASE Apply
  <2>1. /\ kv_store' = kv_store /\ given' = given /\ before' = config
        /\ outcome' = IF \E k \in Settings : Throws(k) THEN "threw" ELSE "loaded"
        /\ \A k \in Settings : config'[k] =
              IF kv_store[k] # Absent /\ Reached(k) THEN Converted(k, kv_store[k]) ELSE config[k]
    BY <1>4 DEF Apply, apply_kv, ConfigInv
  <2>2. outcome' = "loaded" => \A k \in Settings : Reached(k)
    BY <2>1 DEF Reached
  <2>3. \A k \in Settings : Reached(k) /\ Numeric(k) => kv_store[k] # Malformed
    <3>1. \A k \in Settings : Place[k] \in Nat
      BY DEF Settings, Place
    <3> QED
      BY <3>1 DEF Reached, Throws
  <2>4. ReloadTakesEffect'
    BY <2>1, <2>2, <2>3 DEF ConfigInv, ReloadTakesEffect, AsGiven
  <2> QED
    BY <2>1, <2>4 DEF ConfigInv
<1> QED
  BY <1>1, <1>2, <1>3, <1>4 DEF ConfigNext, reload

(* For any keys, texts and widths: whatever loads, missing files and       *)
(* malformed numbers came before, a load that returned has put its file    *)
(* into effect, as ReloadTakesEffect says.                                 *)
THEOREM ReloadIsEffective == ConfigSpec => []ReloadTakesEffect
<1> USE ConfigParserAssumption
<1>1. ConfigInit => ConfigInv
  BY DEF ConfigInit, NoText, ConfigInv, ReloadTakesEffect, AsGiven
<1>2. ConfigInv => ReloadTakesEffect
  BY DEF ConfigInv
<1> QED
  BY <1>1, <1>2, ConfigStep, PTL DEF ConfigSpec

-----------------------------------------------------------------------------
(* Idle connections: the stamp is the clock less the silence, and what was *)
(* collected stays silent until it is touched or added again.              *)

IdleInv ==
    /\ managed \subseteq IdleFds /\ expired \subseteq IdleFds
    /\ last_activity \in [IdleFds -> Nat] /\ silence \in [IdleFds -> Nat] /\ idle_clock \in Nat
    /\ \A f \in managed : idle_clock - last_activity[f] = silence[f]
    /\ \A f \in expired \ revived : silence[f] >= IdleTimeout * ClockTicks

(* The age test in whole seconds is the silence test.                      *)
LEMMA ExpiredSilence ==
    ASSUME IdleInv, NEW f \in managed
    PROVE  get_idle_seconds(f) >= IdleTimeout <=> silence[f] >= IdleTimeout * ClockTicks
<1>1. silence[f] \in Int /\ idle_clock - last_activity[f] = silence[f]
  BY DEF IdleInv
<1> QED
  BY <1>1, IdleAssumption, TruncatedAge DEF get_idle_seconds

(* For any descriptors, clock and timeout, get_expired_connections names   *)
(* exactly the connections that were silent for the whole timeout, and the *)
(* purge takes no other unless it came to life after it was named.         *)
THEOREM PurgeIsExact == IdleSpec => []ExpiredAreSilent
<1> USE IdleAssumption
<1>1. IdleInit => IdleInv
  BY DEF IdleInit, IdleInv
<1>2. ASSUME IdleInv, [IdleNext]_idle PROVE IdleInv'
  <2>1. CASE Collect
    <3>1. \A f \in managed :
              get_idle_seconds(f) >= IdleTimeout => silence[f] >= IdleTimeout * ClockTicks
      BY <1>2, ExpiredSilence
    <3>2. expired' \subseteq managed /\ \A f \in expired' : silence[f] >= IdleTimeout * ClockTicks
      BY <2>1, <3>1 DEF Collect, get_expired_connections
    <3> QED
      BY <1>2, <2>1, <3>2 DEF Collect, IdleInv
  <2>2. CASE IdleTick
    <3>1. IdleTimeout * ClockTicks \in Int
      OBVIOUS
    <3>2. \A f \in IdleFds : silence[f] \in Nat /\ silence'[f] = silence[f] + 1
      BY <1>2, <2>2 DEF IdleTick, IdleInv
    <3>3. \A f \in expired' \ revived' : silence'[f] >= IdleTimeout * ClockTicks
      BY <1>2, <2>2, <3>1, <3>2 DEF IdleTick, IdleInv
    <3> QED
      BY <1>2, <2>2, <3>2, <3>3 DEF IdleTick, IdleInv
  <2>3. ASSUME NEW f \in IdleFds, add_connection(f) \/ touch(f) \/ remove_connection(f) \/ RemoveExpired(f)
        PROVE  IdleInv'
    BY <1>2, <2>3 DEF IdleInv, add_connection, touch, Stamp, remove_connection, RemoveExpired
  <2> QED
    BY <1>2, <2>1, <2>2, <2>3 DEF IdleNext, idle, IdleInv
<1>3. IdleInv => ExpiredAreSilent
  <2> SUFFICES ASSUME IdleInv
               PROVE  ExpiredAreSilent
    OBVIOUS
  <2>1. \A f \in managed :
            get_idle_seconds(f) >= IdleTimeout <=> silence[f] >= IdleTimeout * ClockTicks
    BY ExpiredSilence
  <2> QED
    BY <2>1 DEF ExpiredAreSilent, get_expired_connections, IdleInv
<1> QED
  BY <1>1, <1>2, <1>3, PTL DEF IdleSpec

-----------------------------------------------------------------------------
(* For frames of any size, every header that dissect_frame copies lies     *)
(* inside the frame, and a complete frame is dissected to its transport    *)
(* header.                                                                 *)
THEOREM DissectorStaysInside == DissectorSpec => []ReadsInsideFrame
<1>1. DissectorInit => ReadsInsideFrame
  BY DEF DissectorInit, ReadsInsideFrame
<1>2. ReadsInsideFrame /\ [DissectorNext]_dissector => ReadsInsideFrame'
  <2> SUFFICES ASSUME NEW f \in Frame, dissect_frame(f)
               PROVE  ReadsInsideFrame'
    BY DEF DissectorNext, dissector, ReadsInsideFrame
  <2>1. frames' = {f} /\ reads' = Headers(f)
    BY DEF dissect_frame
  <2>2. f.size \in Int /\ f.ihl \in 0 .. 15 /\ f.protocol \in {1, 6, 17}
    BY DEF Frame
  <2> DEFINE l4 == Read(4, 14 + f.ihl * 4, TransportHeader[f.protocol])
  <2>3. TransportHeader[6] = 20 /\ TransportHeader[17] = 8 /\ DOMAIN TransportHeader = {6, 17}
    BY DEF TransportHeader
  <2>4. \A r \in Headers(f) :
           \/ r = Read(2, 0, 14) /\ f.size >= 14
           \/ r = Read(3, 14, 20) /\ f.size >= 34
           \/ r = l4 /\ f.protocol \in {6, 17} /\ f.size >= 14 + f.ihl * 4 + TransportHeader[f.protocol]
    BY <2>2, <2>3 DEF Headers, TransportFits, EthernetHeader, IPv4Header
  <2>5. \A layer, at, length : /\ Read(layer, at, length).layer = layer
                               /\ Read(layer, at, length).at = at
                               /\ Read(layer, at, length).length = length
    BY DEF Read
  <2>6. \A r \in Headers(f) :
           \/ r.layer = 2 /\ r.at = 0 /\ r.length = 14 /\ f.size >= 14
           \/ r.layer = 3 /\ r.at = 14 /\ r.length = 20 /\ f.size >= 34
           \/ /\ r.layer = 4 /\ r.at = 14 + f.ihl * 4 /\ r.length \in {8, 20}
              /\ f.size >= r.at + r.length
    BY <2>2, <2>3, <2>4, <2>5
  <2>7. \A r \in Headers(f) : r.at + r.length <= f.size
    BY <2>2, <2>6
  <2>8. f.ihl * 4 >= 20 =>
          \A r, s \in Headers(f) : r.layer < s.layer => r.at + r.length <= s.at
    BY <2>2, <2>6
  <2>9. ASSUME f.protocol \in {6, 17}, f.ether_type = "ipv4", f.ihl * 4 >= 20,
               f.size >= 14 + f.ihl * 4 + TransportHeader[f.protocol]
        PROVE  \E r \in Headers(f) : r.layer = 4
    <3>1. l4 \in Headers(f)
      BY <2>2, <2>3, <2>9 DEF Headers, TransportFits, EthernetHeader, IPv4Header
    <3> QED
      BY <3>1, <2>5
  <2> QED
    BY <2>1, <2>7, <2>8, <2>9 DEF ReadsInsideFrame, EthernetHeader, IPv4Header
<1> QED
  BY <1>1, <1>2, PTL DEF DissectorSpec

-----------------------------------------------------------------------------
(* For any objects and descriptors, RAIISocket closes every descriptor it  *)
(* owns once and loses none. SoleOwner alone is not inductive: that        *)
(* close_fd takes nothing from the caller needs what the caller holds to   *)
(* be open and no object's, which is HeldOpen with SoleOwner.              *)

HeldOpen == held \subseteq opened

RaiiInv == RaiiTypeOK /\ HeldOpen /\ SoleOwner /\ NoDescriptorLost

(* Every operation of a RAIISocket and of its caller keeps the invariant.  *)
LEMMA RaiiStep == RaiiInv /\ [RaiiNext]_raii => RaiiInv'
<1> SUFFICES ASSUME RaiiInv, [RaiiNext]_raii
             PROVE  RaiiInv'
  OBVIOUS
<1>m. NoFd \notin Descriptors /\ NoObject \notin Descriptors /\ NoFd # NoObject
  BY DescriptorsAssumption DEF NoFd, NoObject
<1>n. \A f \in Descriptors \cup {NoFd, NoObject} : f >= 0 <=> f \in Descriptors
  BY DescriptorsAssumption DEF NoFd, NoObject
<1>t. /\ fd_ \in [Objects -> Descriptors \cup {NoFd, NoObject}]
      /\ opened \subseteq Descriptors
      /\ held \subseteq opened
      /\ \A o \in Objects : fd_[o] \in Descriptors => fd_[o] \in opened /\ fd_[o] \notin held
      /\ \A o, p \in Objects : fd_[o] \in Descriptors /\ o # p => fd_[p] # fd_[o]
      /\ \A f \in opened : f \in held \/ \E o \in Objects : fd_[o] = f
  BY <1>n DEF RaiiInv, RaiiTypeOK, HeldOpen, SoleOwner, NoDescriptorLost
<1>a. \A o \in Objects : AfterClose(o) = opened \ {fd_[o]}
  BY <1>m, <1>n, <1>t DEF AfterClose
<1> DEFINE Good ==
      /\ fd_' \in [Objects -> Descriptors \cup {NoFd, NoObject}]
      /\ opened' \subseteq Descriptors
      /\ held' \subseteq opened'
      /\ \A o \in Objects : fd_'[o] \in Descriptors => fd_'[o] \in opened' /\ fd_'[o] \notin held'
      /\ \A o, p \in Objects : fd_'[o] \in Descriptors /\ o # p => fd_'[p] # fd_'[o]
      /\ \A f \in opened' : f \in held' \/ \E o \in Objects : fd_'[o] = f
<1>g. ASSUME Good PROVE RaiiInv'
  BY <1>g, <1>n DEF RaiiInv, RaiiTypeOK, HeldOpen, SoleOwner, NoDescriptorLost
<1>1. CASE UNCHANGED raii
  BY <1>1, <1>t, <1>g, <1>m DEF raii
<1>2. ASSUME NEW f \in Descriptors, OpenSocket(f) \/ CloseHeld(f) PROVE RaiiInv'
  <2>1. CASE OpenSocket(f)
    BY <2>1, <1>t, <1>g, <1>m DEF OpenSocket
  <2>2. CASE CloseHeld(f)
    BY <2>2, <1>t, <1>g, <1>m DEF CloseHeld
  <2> QED
    BY <1>2, <2>1, <2>2
<1>3. ASSUME NEW o \in Objects, Destroy(o) \/ release(o) PROVE RaiiInv'
  <2>1. CASE Destroy(o)
    <3>1. /\ fd_' = [fd_ EXCEPT ![o] = NoObject]
          /\ opened' = opened \ {fd_[o]}
          /\ held' = held
      BY <2>1, <1>a DEF Destroy
    <3>2. fd_'[o] = NoObject /\ \A p \in Objects \ {o} : fd_'[p] = fd_[p]
      BY <3>1, <1>t
    <3> QED
      BY <3>1, <3>2, <1>t, <1>g, <1>m
  <2>2. CASE release(o)
    <3>1. /\ fd_' = [fd_ EXCEPT ![o] = NoFd]
          /\ held' = held \cup ({fd_[o]} \ {NoFd})
          /\ opened' = opened
          /\ fd_[o] \in Descriptors \cup {NoFd}
      BY <2>2, <1>t DEF release, Alive
    <3>2. fd_'[o] = NoFd /\ \A p \in Objects \ {o} : fd_'[p] = fd_[p]
      BY <3>1, <1>t
    <3>3. CASE fd_[o] \in Descriptors
      BY <3>1, <3>2, <3>3, <1>t, <1>g, <1>m
    <3>4. CASE fd_[o] = NoFd
      BY <3>1, <3>2, <3>4, <1>t, <1>g, <1>m
    <3> QED
      BY <3>1, <3>3, <3>4
  <2> QED
    BY <1>3, <2>1, <2>2
<1>4. ASSUME NEW o \in Objects, NEW f \in Descriptors \cup {NoFd}, Construct(o, f) \/ reset(o, f)
      PROVE  RaiiInv'
  <2>1. CASE Construct(o, f)
    BY <2>1, <1>t, <1>g, <1>m DEF Construct, Alive
  <2>2. CASE reset(o, f)
    <3>1. /\ f \in held \cup {NoFd}
          /\ fd_' = [fd_ EXCEPT ![o] = f]
          /\ opened' = opened \ {fd_[o]}
          /\ held' = held \ {f}
      BY <2>2, <1>a DEF reset
    <3>2. fd_'[o] = f /\ \A p \in Objects \ {o} : fd_'[p] = fd_[p]
      BY <3>1, <1>t
    <3> QED
      BY <3>1, <3>2, <1>t, <1>g, <1>m
  <2> QED
    BY <1>4, <2>1, <2>2
<1>5. ASSUME NEW o \in Objects, NEW other \in Objects, MoveConstruct(o, other) \/ MoveAssign(o, other)
      PROVE  RaiiInv'
  <2>1. CASE MoveConstruct(o, other)
    BY <2>1, <1>t, <1>g, <1>m DEF MoveConstruct, Alive
  <2>2. CASE MoveAssign(o, other)
    <3>1. CASE o = other
      BY <2>2, <3>1, <1>t, <1>g, <1>m DEF MoveAssign
    <3>2. CASE o # other
      <4>1. /\ fd_' = [fd_ EXCEPT ![o] = fd_[other], ![other] = NoFd]
            /\ opened' = opened \ {fd_[o]}
            /\ held' = held
        BY <2>2, <3>2, <1>a DEF MoveAssign
      <4>2. /\ fd_'[o] = fd_[other] /\ fd_'[other] = NoFd
            /\ \A p \in Objects \ {o, other} : fd_'[p] = fd_[p]
        BY <4>1, <3>2, <1>t
      <4> QED
        BY <4>1, <4>2, <3>2, <1>t, <1>g, <1>m
    <3> QED
      BY <3>1, <3>2
  <2> QED
    BY <1>5, <2>1, <2>2
<1> QED
  BY <1>1, <1>2, <1>3, <1>4, <1>5 DEF RaiiNext

(* The invariant holds throughout every use of the class.                  *)
THEOREM RaiiInvariant == RaiiSpec => []RaiiInv
<1>1. RaiiInit => RaiiInv
  BY DEF NoFd, NoObject, RaiiInit, RaiiInv, RaiiTypeOK, HeldOpen, SoleOwner, NoDescriptorLost
<1> QED
  BY <1>1, RaiiStep, PTL DEF RaiiSpec

(* The descriptor of an object is open and nobody else's, so that the      *)
(* close in the destructor, in reset and in the move assignment hits       *)
(* nothing but it, and no sequence of operations leaves an open descriptor *)
(* without an owner.                                                       *)
THEOREM ClosedOnceNeverLost == RaiiSpec => []OneOwner
<1>1. RaiiInv => OneOwner
  BY DEF RaiiInv, OneOwner
<1> QED
  BY <1>1, RaiiInvariant, PTL

-----------------------------------------------------------------------------
(* For any message, pipe and number of signals, the retried calls deliver  *)
(* each byte once and the end of the stream last.  The invariant says byte *)
(* by byte what DeliveredOnce says of whole sequences, and adds what the   *)
(* results of the two calls imply about the positions they stopped at.     *)

RetryTypeOK ==
    /\ pipe \in Seq(Nat) /\ received \in Seq(Nat)
    /\ total_sent \in 0 .. MsgLen
    /\ send_ret \in Int /\ recv_ret \in Int

(* Nobody has thrown bytes away.                                           *)
Intact == reader = "open" /\ writer # "reset"

(* The bytes of s are those that follow position k of the message.         *)
Follows(s, k) == \A i \in 1 .. Len(s) : s[i] = k + i

InOrder ==
    /\ Follows(received, 0) /\ Follows(pipe, Len(received))
    /\ Len(received) + Len(pipe) <= total_sent
    /\ Intact => Len(received) + Len(pipe) = total_sent

Results ==
    /\ send_ret >= 0 => total_sent = MsgLen
    /\ writer # "open" => send_ret # Running
    /\ recv_ret = 0 => writer = "closed" /\ Len(received) = total_sent

RetryInv == RetryTypeOK /\ InOrder /\ Results

(* Two stretches of the message, one after the other, are one.             *)
LEMMA Joined ==
    ASSUME NEW s \in Seq(Nat), NEW t \in Seq(Nat), NEW k \in Nat,
           Follows(s, k), Follows(t, k + Len(s))
    PROVE  s \o t \in Seq(Nat) /\ Len(s \o t) = Len(s) + Len(t) /\ Follows(s \o t, k)
<1> DEFINE u == s \o t
<1>1. /\ u \in Seq(Nat) /\ Len(u) = Len(s) + Len(t)
      /\ \A i \in 1 .. Len(s) + Len(t) : u[i] = IF i <= Len(s) THEN s[i] ELSE t[i - Len(s)]
  BY ConcatProperties
<1> HIDE DEF u
<1>2. Len(s) \in Nat /\ Len(t) \in Nat
  OBVIOUS
<1>3. ASSUME NEW i \in 1 .. Len(u) PROVE u[i] = k + i
  <2>1. CASE i <= Len(s)
    <3>1. i \in 1 .. Len(s) /\ u[i] = s[i]
      BY <1>1, <1>2, <2>1
    <3> QED
      BY <3>1 DEF Follows
  <2>2. CASE ~ (i <= Len(s))
    <3>1. i - Len(s) \in 1 .. Len(t) /\ u[i] = t[i - Len(s)]
      BY <1>1, <1>2, <2>2
    <3>2. t[i - Len(s)] = k + Len(s) + (i - Len(s))
      BY <3>1 DEF Follows
    <3> QED
      BY <1>2, <3>1, <3>2
  <2> QED
    BY <2>1, <2>2
<1>4. Follows(u, k)
  BY <1>3 DEF Follows
<1> QED
  BY <1>1, <1>4 DEF u

(* A stretch of the message can be cut in two.                             *)
LEMMA Cut ==
    ASSUME NEW s \in Seq(Nat), NEW k \in Nat, NEW n \in 1 .. Len(s), Follows(s, k)
    PROVE  /\ SubSeq(s, 1, n) \in Seq(Nat) /\ Len(SubSeq(s, 1, n)) = n
           /\ Follows(SubSeq(s, 1, n), k)
           /\ SubSeq(s, n + 1, Len(s)) \in Seq(Nat) /\ Len(SubSeq(s, n + 1, Len(s))) = Len(s) - n
           /\ Follows(SubSeq(s, n + 1, Len(s)), k + n)
<1> DEFINE u == SubSeq(s, 1, n)
           v == SubSeq(s, n + 1, Len(s))
<1>1. Len(s) \in Nat /\ \A i \in 1 .. Len(s) : s[i] \in Nat /\ s[i] = k + i
  BY DEF Follows
<1>2. u \in Seq(Nat) /\ Len(u) = n /\ \A i \in 1 .. n : u[i] = s[i]
  BY <1>1
<1>3. v \in Seq(Nat) /\ Len(v) = Len(s) - n /\ \A i \in 1 .. Len(s) - n : v[i] = s[n + i]
  BY <1>1
<1> HIDE DEF u, v
<1>4. Follows(u, k)
  <2>1. \A i \in 1 .. n : i \in 1 .. Len(s)
    BY <1>1
  <2>2. \A i \in 1 .. n : u[i] = k + i
    BY <1>1, <1>2, <2>1
  <2> QED
    BY <1>2, <2>2 DEF Follows
<1>5. Follows(v, k + n)
  <2>1. \A i \in 1 .. Len(s) - n : n + i \in 1 .. Len(s) /\ k + (n + i) = (k + n) + i
    BY <1>1
  <2>2. \A i \in 1 .. Len(s) - n : v[i] = (k + n) + i
    BY <1>1, <1>3, <2>1
  <2> QED
    BY <1>3, <2>2 DEF Follows
<1> QED
  BY <1>2, <1>3, <1>4, <1>5 DEF u, v

(* send_with_retry continues where the last send stopped.                  *)
LEMMA SendKeeps ==
    ASSUME RetryInv, NEW n \in 1 .. MsgLen, SendSome(n)
    PROVE  RetryInv'
<1> USE SyscallRetryAssumption
<1> DEFINE more == [i \in 1 .. n |-> total_sent + i]
<1>1. /\ pipe' = pipe \o more /\ total_sent' = total_sent + n /\ total_sent + n <= MsgLen
      /\ send_ret = Running /\ reader = "open"
      /\ UNCHANGED <<send_ret, received, recv_ret, reader, writer>>
  BY DEF SendSome
<1>2. /\ pipe \in Seq(Nat) /\ received \in Seq(Nat) /\ total_sent \in Nat
      /\ Len(pipe) \in Nat /\ Len(received) \in Nat
  BY DEF RetryInv, RetryTypeOK
<1>3. more \in Seq(Nat) /\ Len(more) = n /\ Follows(more, total_sent)
  BY <1>2 DEF Follows
<1> HIDE DEF more
<1>4. writer = "open" /\ Len(received) + Len(pipe) = total_sent
  BY <1>1 DEF RetryInv, Results, InOrder, Intact
<1>5. pipe' \in Seq(Nat) /\ Len(pipe') = Len(pipe) + n /\ Follows(pipe', Len(received))
  BY <1>1, <1>2, <1>3, <1>4, Joined DEF RetryInv, InOrder
<1>6. InOrder'
  <2>1. received' = received /\ Follows(received, 0)
    BY <1>1 DEF RetryInv, InOrder
  <2>2. Follows(received', 0) /\ Follows(pipe', Len(received'))
    BY <1>5, <2>1
  <2>3. Len(received') + Len(pipe') = total_sent' /\ total_sent' \in Nat
    <3>1. total_sent' = total_sent + n /\ Len(pipe') = Len(pipe) + n /\ Len(received') = Len(received)
      BY <1>1, <1>5, <2>1
    <3>2. \A a, b \in Nat : a + (b + n) = (a + b) + n
      OBVIOUS
    <3>3. Len(received) + (Len(pipe) + n) = total_sent + n
      BY <1>2, <1>4, <3>2
    <3>4. total_sent + n \in Nat
      BY <1>2
    <3> QED
      BY <3>1, <3>3, <3>4
  <2> QED
    BY <2>2, <2>3 DEF InOrder
<1> QED
  BY <1>1, <1>2, <1>4, <1>5, <1>6 DEF RetryInv, RetryTypeOK, Results, Running

(* recv_with_retry takes bytes from the front.                             *)
LEMMA RecvKeeps ==
    ASSUME RetryInv, NEW n \in 1 .. MsgLen, RecvSome(n)
    PROVE  RetryInv'
<1> USE SyscallRetryAssumption
<1> DEFINE taken == SubSeq(pipe, 1, n)
           left == SubSeq(pipe, n + 1, Len(pipe))
<1>1. /\ received' = received \o taken /\ pipe' = left /\ n <= Len(pipe)
      /\ recv_ret' = n /\ reader = "open" /\ writer # "reset"
      /\ UNCHANGED <<total_sent, send_ret, reader, writer>>
  BY DEF RecvSome
<1>2. /\ pipe \in Seq(Nat) /\ received \in Seq(Nat) /\ total_sent \in Nat
      /\ Len(pipe) \in Nat /\ Len(received) \in Nat
  BY DEF RetryInv, RetryTypeOK
<1>3. /\ taken \in Seq(Nat) /\ Len(taken) = n /\ Follows(taken, Len(received))
      /\ left \in Seq(Nat) /\ Len(left) = Len(pipe) - n /\ Follows(left, Len(received) + n)
  BY <1>1, <1>2, Cut DEF RetryInv, InOrder
<1> HIDE DEF taken, left
<1>4. Len(received) + Len(pipe) = total_sent
  BY <1>1 DEF RetryInv, InOrder, Intact
<1>5. received' \in Seq(Nat) /\ Len(received') = Len(received) + n /\ Follows(received', 0)
  <2>1. Follows(received, 0) /\ Follows(taken, 0 + Len(received))
    BY <1>2, <1>3 DEF RetryInv, InOrder
  <2> QED
    BY <1>1, <1>2, <1>3, <2>1, Joined
<1>6. InOrder'
  <2>1. Follows(received', 0) /\ Follows(pipe', Len(received'))
    BY <1>1, <1>3, <1>5
  <2>2. Len(received') + Len(pipe') = total_sent' /\ total_sent' \in Nat
    <3>1. total_sent' = total_sent /\ Len(pipe') = Len(pipe) - n /\ Len(received') = Len(received) + n
      BY <1>1, <1>3, <1>5
    <3>2. \A a, b \in Nat : (a + n) + (b - n) = a + b
      OBVIOUS
    <3>3. (Len(received) + n) + (Len(pipe) - n) = total_sent
      BY <1>2, <1>4, <3>2
    <3> QED
      BY <1>2, <3>1, <3>3
  <2> QED
    BY <2>1, <2>2 DEF InOrder
<1> QED
  BY <1>1, <1>2, <1>3, <1>5, <1>6 DEF RetryInv, RetryTypeOK, Results

(* The other steps move no byte.                                           *)
LEMMA OthersKeep ==
    ASSUME RetryInv,
           SendCall \/ SendDone \/ SendFails \/ Interrupted \/ RecvCall \/ RecvNothing
           \/ CloseReader \/ CloseWriter \/ UNCHANGED retry
    PROVE  RetryInv'
<1> USE SyscallRetryAssumption DEF RetryInv, RetryTypeOK, Results, Running, Idle
<1>e. <<>> \in Seq(Nat) /\ Len(<<>>) = 0 /\ \A k : Follows(<<>>, k)
  BY DEF Follows
<1>l. Len(pipe) \in Nat /\ Len(received) \in Nat
  OBVIOUS
<1>s. ASSUME UNCHANGED <<pipe, received, total_sent, reader, writer>> PROVE InOrder'
  BY <1>s DEF InOrder, Intact
<1>1. CASE SendCall
  BY <1>1, <1>s DEF SendCall
<1>2. CASE SendDone
  BY <1>2, <1>s DEF SendDone
<1>3. CASE SendFails
  BY <1>3, <1>s DEF SendFails
<1>4. CASE Interrupted \/ UNCHANGED retry
  BY <1>4, <1>s DEF Interrupted, retry
<1>5. CASE RecvCall
  BY <1>5, <1>s DEF RecvCall
<1>6. CASE RecvNothing
  <2>1. pipe = <<>> /\ Len(pipe) = 0 /\ reader = "open"
    BY <1>6, <1>e DEF RecvNothing
  <2> QED
    BY <1>6, <1>s, <1>l, <2>1 DEF RecvNothing, InOrder, Intact
<1>7. CASE CloseReader
  BY <1>7, <1>e, <1>l DEF CloseReader, InOrder, Intact
<1>8. CASE CloseWriter
  <2>1. CASE writer' = "closed" /\ pipe' = pipe
    BY <1>8, <2>1 DEF CloseWriter, InOrder, Intact
  <2>2. CASE writer' = "reset" /\ pipe' = <<>>
    BY <1>8, <1>e, <1>l, <2>2 DEF CloseWriter, InOrder, Intact
  <2> QED
    BY <1>8, <2>1, <2>2 DEF CloseWriter
<1> QED
  BY <1>1, <1>2, <1>3, <1>4, <1>5, <1>6, <1>7, <1>8

(* For any length of message and of pipe and any number of signals: no     *)
(* byte is repeated, skipped or reordered by a retry, and who is told of   *)
(* the end of the stream has all of a message that was reported as sent.   *)
THEOREM RetriesDeliver == RetrySpec => []DeliveredOnce
<1>1. RetryInit => RetryInv
  BY SyscallRetryAssumption DEF RetryInit, RetryInv, RetryTypeOK, InOrder, Intact, Results, Follows, Idle, Running
<1>2. RetryInv /\ [RetryNext]_retry => RetryInv'
  BY SendKeeps, RecvKeeps, OthersKeep DEF RetryNext, SendStep, RecvStep
<1>3. RetryInv => DeliveredOnce
  <2> SUFFICES ASSUME RetryInv PROVE EachByteOnce /\ EofMeansAll
    BY DEF DeliveredOnce
  <2>1. /\ pipe \in Seq(Nat) /\ received \in Seq(Nat) /\ total_sent \in Nat
        /\ Len(pipe) \in Nat /\ Len(received) \in Nat
    BY SyscallRetryAssumption DEF RetryInv, RetryTypeOK
  <2>2. received = [i \in 1 .. Len(received) |-> i]
    BY <2>1 DEF RetryInv, InOrder, Follows
  <2>3. ASSUME Intact PROVE received \o pipe = [i \in 1 .. total_sent |-> i]
    <3> DEFINE all == received \o pipe
    <3>1. Follows(received, 0) /\ Follows(pipe, 0 + Len(received)) /\ Len(received) + Len(pipe) = total_sent
      BY <2>1, <2>3 DEF RetryInv, InOrder
    <3>2. all \in Seq(Nat) /\ Len(all) = total_sent /\ Follows(all, 0)
      BY <2>1, <3>1, Joined
    <3> HIDE DEF all
    <3>3. all = [i \in 1 .. total_sent |-> i]
      BY <2>1, <3>2 DEF Follows
    <3> QED
      BY <3>3 DEF all
  <2>4. EachByteOnce
    BY <2>1, <2>2, <2>3 DEF EachByteOnce, Intact, RetryInv, InOrder
  <2>5. EofMeansAll
    BY <2>1, <2>2 DEF EofMeansAll, RetryInv, Results
  <2> QED
    BY <2>4, <2>5
<1> QED
  BY <1>1, <1>2, <1>3, PTL DEF RetrySpec

-----------------------------------------------------------------------------
(* For any number of clients, operations and workers, the report of a      *)
(* benchmark is final.  The inductive invariant ties the two counters to   *)
(* the places of the tasks: samples to those that have recorded, with the  *)
(* holder of the mutex part of the way, and completed_tasks to those that  *)
(* are done.                                                               *)

N == NUM_OPERATIONS_PER_CLIENT

Recorded == {c \in BenchClients : task[c] \in {"counting", "done"}}

Done == {c \in BenchClients : task[c] = "done"}

BenchTypeOK ==
    /\ kind \in {"threads", "pool", "reactor"}
    /\ task \in [BenchClients -> {"queued", "sampling", "recording", "counting", "done"}]
    /\ unrecorded \in [BenchClients -> 0 .. N]
    /\ tracker_mutex \in SUBSET BenchClients
    /\ samples \in Nat /\ completed_tasks \in Nat
    /\ main \in {"waits", "reports", "returned"}

(* The holder of the mutex is the one task that records.                   *)
MutexHeld ==
    /\ \A c \in BenchClients : c \in tracker_mutex <=> task[c] = "recording"
    /\ \A c, d \in tracker_mutex : c = d

SamplesCounted ==
    kind # "reactor" =>
        /\ tracker_mutex = {} => samples = N * Cardinality(Recorded)
        /\ \A c \in tracker_mutex : samples + unrecorded[c] = N * Cardinality(Recorded) + N

TasksCounted ==
    /\ kind = "pool" => completed_tasks = N * Cardinality(Done)
    /\ kind = "reactor" => \A c \in BenchClients : task[c] = "done"

BenchInv == BenchTypeOK /\ MutexHeld /\ SamplesCounted /\ TasksCounted /\ ReportIsFinal

(* One more set element is one more in the count.                          *)
LEMMA CountOneMore ==
    ASSUME NEW S \in SUBSET BenchClients, NEW c \in BenchClients, c \notin S
    PROVE  /\ Cardinality(S) \in Nat /\ Cardinality(S \cup {c}) = Cardinality(S) + 1
           /\ N * Cardinality(S \cup {c}) = N * Cardinality(S) + N
<1>1. IsFiniteSet(S)
  BY BenchmarkAssumption, FS_Subset
<1>2. Cardinality(S) \in Nat /\ Cardinality(S \cup {c}) = Cardinality(S) + 1
  BY <1>1, FS_AddElement, FS_CardinalityType
<1> QED
  BY <1>2, BenchmarkAssumption, SMT DEF N

(* A counter as large as all operations means that all tasks are in the    *)
(* set that it counts.                                                     *)
LEMMA CountedAll ==
    ASSUME NEW S \in SUBSET BenchClients, N * Cardinality(S) >= total_ops
    PROVE  S = BenchClients
<1>1. IsFiniteSet(S) /\ Cardinality(S) <= Cardinality(BenchClients)
      /\ (Cardinality(S) = Cardinality(BenchClients) => S = BenchClients)
  BY BenchmarkAssumption, FS_Subset
<1>2. Cardinality(S) \in Nat /\ Cardinality(BenchClients) \in Nat
  BY <1>1, BenchmarkAssumption, FS_CardinalityType
<1>3. Cardinality(S) >= Cardinality(BenchClients)
  BY <1>2, BenchmarkAssumption, SMT DEF N, total_ops
<1> QED
  BY <1>1, <1>2, <1>3

(* The three percentiles of n samples are among them.                      *)
LEMMA PercentilesInRange ==
    ASSUME NEW n \in Nat
    PROVE  \A i \in compute_results(n) : 0 <= i /\ i < n
BY SMT DEF compute_results

(* A task that is not done cannot see the main thread report.              *)
LEMMA TaskRunsWhileMainWaits ==
    ASSUME BenchInv, NEW c \in BenchClients, task[c] # "done"
    PROVE  main = "waits" /\ kind # "reactor"
BY DEF BenchInv, ReportIsFinal, TasksCounted

(* Steps of a task.                                                        *)
LEMMA TaskKeeps ==
    ASSUME BenchInv, NEW c \in BenchClients, TaskStep(c)
    PROVE  BenchInv'
<1> USE BenchmarkAssumption DEF N
<1>0. /\ BenchTypeOK /\ MutexHeld /\ SamplesCounted /\ TasksCounted
      /\ Recorded \in SUBSET BenchClients /\ Done \in SUBSET BenchClients
  BY DEF BenchInv, Recorded, Done
<1>w. task[c] # "done"
  BY DEF TaskStep, Start, Lock, record_us, Unlock, Count, TaskGoes
<1>m. main = "waits" /\ kind # "reactor"
  BY <1>w, TaskRunsWhileMainWaits
<1>f. main' = main /\ kind' = kind
  BY DEF TaskStep, Start, Lock, record_us, Unlock, Count
<1>r. ReportIsFinal'
  BY <1>m, <1>f DEF ReportIsFinal
<1>1. CASE Start(c)
  <2>1. task' = [task EXCEPT ![c] = "sampling"] /\ task[c] = "queued"
    BY <1>1 DEF Start, TaskGoes
  <2>2. Recorded' = Recorded /\ Done' = Done
    BY <1>0, <2>1 DEF Recorded, Done, BenchTypeOK
  <2>3. /\ UNCHANGED <<unrecorded, tracker_mutex, samples, completed_tasks>>
        /\ BenchTypeOK' /\ MutexHeld'
    BY <1>0, <1>1, <1>f, <2>1 DEF Start, BenchTypeOK, MutexHeld
  <2> QED
    BY <1>0, <1>m, <1>f, <1>r, <2>2, <2>3 DEF BenchInv, SamplesCounted, TasksCounted
<1>2. CASE Lock(c)
  <2>1. task' = [task EXCEPT ![c] = "recording"] /\ task[c] = "sampling"
    BY <1>2 DEF Lock, TaskGoes
  <2>2. Recorded' = Recorded /\ Done' = Done
    BY <1>0, <2>1 DEF Recorded, Done, BenchTypeOK
  <2>3. /\ tracker_mutex = {} /\ tracker_mutex' = {c} /\ unrecorded' = [unrecorded EXCEPT ![c] = N]
        /\ UNCHANGED <<samples, completed_tasks>>
    BY <1>2 DEF Lock
  <2>4. BenchTypeOK' /\ MutexHeld'
    BY <1>0, <1>f, <2>1, <2>3 DEF BenchTypeOK, MutexHeld
  <2> QED
    BY <1>0, <1>m, <1>f, <1>r, <2>2, <2>3, <2>4 DEF BenchInv, BenchTypeOK, SamplesCounted, TasksCounted
<1>3. CASE record_us(c)
  <2>1. /\ task' = task /\ task[c] = "recording" /\ unrecorded[c] > 0
        /\ unrecorded' = [unrecorded EXCEPT ![c] = @ - 1] /\ samples' = samples + 1
        /\ UNCHANGED <<tracker_mutex, completed_tasks>>
    BY <1>3 DEF record_us
  <2>2. Recorded' = Recorded /\ Done' = Done
    BY <2>1 DEF Recorded, Done
  <2>3. BenchTypeOK' /\ MutexHeld'
    BY <1>0, <1>f, <2>1 DEF BenchTypeOK, MutexHeld
  <2>4. tracker_mutex = {c} /\ unrecorded'[c] = unrecorded[c] - 1 /\ unrecorded[c] \in Int
    BY <1>0, <2>1 DEF BenchTypeOK, MutexHeld
  <2>5. Cardinality(Recorded) \in Nat
    BY <1>0, FS_Subset, FS_CardinalityType
  <2>6. SamplesCounted'
    BY <1>0, <1>m, <1>f, <2>1, <2>2, <2>4, <2>5 DEF SamplesCounted, BenchTypeOK
  <2> QED
    BY <1>0, <1>m, <1>f, <1>r, <2>1, <2>2, <2>3, <2>6 DEF BenchInv, TasksCounted
<1>4. CASE Unlock(c)
  <2> DEFINE to == IF kind = "pool" THEN "counting" ELSE "done"
  <2>1. /\ task' = [task EXCEPT ![c] = to] /\ task[c] = "recording" /\ unrecorded[c] = 0
        /\ tracker_mutex' = {} /\ UNCHANGED <<unrecorded, samples, completed_tasks>>
    BY <1>4 DEF Unlock, TaskGoes
  <2>2. Recorded' = Recorded \cup {c} /\ c \notin Recorded
    BY <1>0, <2>1 DEF Recorded, BenchTypeOK
  <2>3. tracker_mutex = {c} /\ BenchTypeOK' /\ MutexHeld'
    BY <1>0, <1>f, <2>1 DEF BenchTypeOK, MutexHeld
  <2>4. samples = N * Cardinality(Recorded) + N
    BY <1>0, <1>m, <2>1, <2>3 DEF SamplesCounted, BenchTypeOK
  <2>5. N * Cardinality(Recorded \cup {c}) = N * Cardinality(Recorded) + N
    BY <1>0, <2>2, CountOneMore
  <2>6. SamplesCounted'
    BY <2>1, <2>2, <2>4, <2>5 DEF SamplesCounted
  <2>7. TasksCounted'
    <3>1. kind = "pool" => Done' = Done
      BY <1>0, <2>1 DEF Done, BenchTypeOK
    <3> QED
      BY <1>0, <1>m, <1>f, <2>1, <3>1 DEF TasksCounted
  <2> QED
    BY <1>r, <2>3, <2>6, <2>7 DEF BenchInv
<1>5. CASE Count(c)
  <2>1. /\ task' = [task EXCEPT ![c] = "done"] /\ task[c] = "counting"
        /\ completed_tasks' = completed_tasks + N /\ UNCHANGED <<unrecorded, tracker_mutex, samples>>
    BY <1>5 DEF Count, TaskGoes
  <2>2. Recorded' = Recorded /\ Done' = Done \cup {c} /\ c \notin Done
    BY <1>0, <2>1 DEF Recorded, Done, BenchTypeOK
  <2>3. BenchTypeOK' /\ MutexHeld'
    BY <1>0, <1>f, <2>1 DEF BenchTypeOK, MutexHeld
  <2>4. N * Cardinality(Done \cup {c}) = N * Cardinality(Done) + N
    BY <1>0, <2>2, CountOneMore
  <2>5. SamplesCounted'
    BY <1>0, <1>f, <2>1, <2>2 DEF SamplesCounted
  <2>6. TasksCounted'
    BY <1>0, <1>m, <1>f, <2>1, <2>2, <2>4 DEF TasksCounted
  <2> QED
    BY <1>r, <2>3, <2>5, <2>6 DEF BenchInv
<1> QED
  BY <1>1, <1>2, <1>3, <1>4, <1>5 DEF TaskStep

(* Steps of the main thread.                                               *)
LEMMA MainKeeps ==
    ASSUME BenchInv, MainStep
    PROVE  BenchInv'
<1> USE BenchmarkAssumption DEF N
<1>0. /\ BenchTypeOK /\ MutexHeld /\ SamplesCounted /\ TasksCounted
      /\ Recorded \in SUBSET BenchClients /\ Done \in SUBSET BenchClients
  BY DEF BenchInv, Recorded, Done
<1>1. CASE LoopOperation
  <2>1. /\ kind = "reactor" /\ samples < total_ops /\ samples' = samples + 1
        /\ UNCHANGED <<kind, task, unrecorded, tracker_mutex, completed_tasks, main, indices>>
    BY <1>1 DEF LoopOperation
  <2>2. main = "waits"
    BY <1>0, <2>1 DEF BenchInv, ReportIsFinal, BenchTypeOK, total_ops
  <2>3. BenchTypeOK'
    BY <1>0, <2>1 DEF BenchTypeOK
  <2>4. MutexHeld'
    BY <1>0, <2>1 DEF MutexHeld
  <2>5. SamplesCounted' /\ TasksCounted'
    BY <1>0, <2>1 DEF SamplesCounted, TasksCounted
  <2> QED
    BY <2>1, <2>2, <2>3, <2>4, <2>5 DEF BenchInv, ReportIsFinal
<1>2. CASE Report
  <2>1. /\ main' = "reports" /\ indices' = compute_results(samples) /\ WaitIsOver
        /\ UNCHANGED <<kind, task, unrecorded, tracker_mutex, samples, completed_tasks>>
    BY <1>2 DEF Report
  <2>2. \A c \in BenchClients : task[c] = "done"
    <3>1. CASE kind = "pool"
      <4>1. N * Cardinality(Done) >= total_ops
        BY <1>0, <2>1, <3>1 DEF WaitIsOver, TasksCounted
      <4>2. Done = BenchClients
        BY <1>0, <4>1, CountedAll
      <4> QED
        BY <4>2 DEF Done
    <3>2. CASE kind # "pool"
      BY <1>0, <2>1, <3>2 DEF WaitIsOver, TasksCounted, BenchTypeOK
    <3> QED
      BY <3>1, <3>2
  <2>3. samples = total_ops
    <3>1. CASE kind = "reactor"
      BY <2>1, <3>1 DEF WaitIsOver
    <3>2. CASE kind # "reactor"
      <4>1. Recorded = BenchClients /\ tracker_mutex = {}
        BY <1>0, <2>2 DEF Recorded, MutexHeld, BenchTypeOK
      <4>2. Cardinality(BenchClients) \in Nat
        BY FS_CardinalityType
      <4> QED
        BY <1>0, <3>2, <4>1, <4>2 DEF SamplesCounted, total_ops
    <3> QED
      BY <3>1, <3>2
  <2>4. \A i \in compute_results(samples) : 0 <= i /\ i < samples
    BY <1>0, PercentilesInRange DEF BenchTypeOK
  <2>5. ReportIsFinal'
    BY <2>1, <2>2, <2>3, <2>4 DEF ReportIsFinal, total_ops
  <2>6. Recorded' = Recorded /\ Done' = Done
    BY <2>1 DEF Recorded, Done
  <2> QED
    BY <1>0, <2>1, <2>5, <2>6 DEF BenchInv, BenchTypeOK, MutexHeld, SamplesCounted, TasksCounted
<1>3. CASE Return
  BY <1>0, <1>3 DEF Return, BenchInv, BenchTypeOK, MutexHeld, SamplesCounted, TasksCounted,
                    ReportIsFinal, Recorded, Done
<1> QED
  BY <1>1, <1>2, <1>3 DEF MainStep

(* The report of a benchmark covers all samples, and nothing it was made   *)
(* from is used by a task afterwards, for any numbers of clients,          *)
(* operations and workers.                                                 *)
THEOREM ReportsAreFinal == BenchSpec => []ReportIsFinal
<1>1. BenchInit => BenchInv
  <2> SUFFICES ASSUME BenchInit PROVE BenchInv
    OBVIOUS
  <2>1. BenchTypeOK /\ MutexHeld /\ ReportIsFinal
    BY BenchmarkAssumption DEF BenchInit, BenchTypeOK, MutexHeld, ReportIsFinal, N
  <2>2. kind # "reactor" => Recorded = {} /\ Done = {}
    BY DEF BenchInit, Recorded, Done
  <2>3. Cardinality({}) = 0
    BY FS_EmptySet
  <2>4. SamplesCounted /\ TasksCounted
    BY <2>2, <2>3, BenchmarkAssumption DEF BenchInit, SamplesCounted, TasksCounted, N
  <2> QED
    BY <2>1, <2>4 DEF BenchInv
<1>2. BenchInv /\ [BenchNext]_benchmark => BenchInv'
  <2>1. BenchInv /\ UNCHANGED benchmark => BenchInv'
    BY DEF benchmark, BenchInv, BenchTypeOK, MutexHeld, SamplesCounted, TasksCounted,
           ReportIsFinal, Recorded, Done
  <2> QED
    BY <2>1, TaskKeeps, MainKeeps DEF BenchNext
<1>3. BenchInv => ReportIsFinal
  BY DEF BenchInv
<1> QED
  BY <1>1, <1>2, <1>3, PTL DEF BenchSpec
=============================================================================
