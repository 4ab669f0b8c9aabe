----------------------------- MODULE RAIISocket -----------------------------
(***************************************************************************)
(* RAIISocket.hpp: objects that own a file descriptor, and a caller that   *)
(* constructs, moves, resets, releases and destroys them in any order. The *)
(* caller only hands an object a descriptor that it holds itself, as the   *)
(* callers in phase18_resilience_audit.cpp do.                             *)
(***************************************************************************)
EXTENDS Integers, FiniteSets

CONSTANTS
    Objects,    \* places where a RAIISocket can be constructed
    Descriptors \* descriptor numbers the kernel can give out

ASSUME DescriptorsAssumption == Descriptors \subseteq Nat

NoFd == -1
NoObject == -2 \* no object is alive at that place

VARIABLES
    fd_,    \* fd_[o]: the member of object o
    opened, \* descriptors that are open in the kernel
    held    \* open descriptors the caller itself has to close

raii == <<fd_, opened, held>>

RaiiInit ==
    /\ fd_ = [o \in Objects |-> NoObject]
    /\ opened = {}
    /\ held = {}

Alive(o) == fd_[o] # NoObject

(* What close_fd of object o leaves open.                                  *)
AfterClose(o) == IF fd_[o] >= 0 THEN opened \ {fd_[o]} ELSE opened

(* socket(), accept() and the like: a number that is not in use.           *)
OpenSocket(f) ==
    /\ f \notin opened
    /\ opened' = opened \cup {f}
    /\ held' = held \cup {f}
    /\ UNCHANGED fd_

CloseHeld(f) ==
    /\ f \in held
    /\ opened' = opened \ {f}
    /\ held' = held \ {f}
    /\ UNCHANGED fd_

Construct(o, f) ==
    /\ ~ Alive(o)
    /\ f \in held \cup {NoFd}
    /\ fd_' = [fd_ EXCEPT ![o] = f]
    /\ held' = held \ {f}
    /\ UNCHANGED opened

(* The destructor, which also runs when an exception leaves the scope.     *)
Destroy(o) ==
    /\ Alive(o)
    /\ opened' = AfterClose(o)
    /\ fd_' = [fd_ EXCEPT ![o] = NoObject]
    /\ UNCHANGED held

MoveConstruct(o, other) ==
    /\ ~ Alive(o) /\ Alive(other)
    /\ fd_' = [fd_ EXCEPT ![o] = fd_[other], ![other] = NoFd]
    /\ UNCHANGED <<opened, held>>

(* Faulty variant: the moved-from object keeps the descriptor.             *)
MoveAssignShares(o, other) ==
    /\ Alive(o) /\ Alive(other)
    /\ opened' = IF o = other THEN opened ELSE AfterClose(o)
    /\ fd_' = [fd_ EXCEPT ![o] = fd_[other]]
    /\ UNCHANGED held

MoveAssign(o, other) ==
    /\ Alive(o) /\ Alive(other)
    /\ IF o = other
       THEN UNCHANGED <<fd_, opened>>
       ELSE /\ opened' = AfterClose(o)
            /\ fd_' = [fd_ EXCEPT ![o] = fd_[other], ![other] = NoFd]
    /\ UNCHANGED held

release(o) ==
    /\ Alive(o)
    /\ held' = held \cup ({fd_[o]} \ {NoFd})
    /\ fd_' = [fd_ EXCEPT ![o] = NoFd]
    /\ UNCHANGED opened

reset(o, new_fd) ==
    /\ Alive(o)
    /\ new_fd \in held \cup {NoFd}
    /\ opened' = AfterClose(o)
    /\ fd_' = [fd_ EXCEPT ![o] = new_fd]
    /\ held' = held \ {new_fd}

RaiiNext ==
    \/ \E f \in Descriptors : OpenSocket(f) \/ CloseHeld(f)
    \/ \E o \in Objects : Destroy(o) \/ release(o)
    \/ \E o \in Objects, f \in Descriptors \cup {NoFd} : Construct(o, f) \/ reset(o, f)
    \/ \E o \in Objects, other \in Objects : MoveConstruct(o, other) \/ MoveAssign(o, other)

RaiiSpec == RaiiInit /\ [][RaiiNext]_raii

-----------------------------------------------------------------------------
RaiiTypeOK ==
    /\ fd_ \in [Objects -> Descriptors \cup {NoFd, NoObject}]
    /\ opened \subseteq Descriptors
    /\ held \subseteq Descriptors

(* What "Move-Only semantics to prevent double-closing" asks for: the      *)
(* descriptor of an object is open and nobody else's, so that its close is *)
(* the only one and never hits a number that was given out again.          *)
SoleOwner ==
    \A o \in Objects : fd_[o] >= 0 =>
        /\ fd_[o] \in opened \ held
        /\ \A other \in Objects \ {o} : fd_[other] # fd_[o]

(* "Preventing descriptor leaks": what is open can still be closed, by the *)
(* object that owns it or by the caller that holds it.                     *)
NoDescriptorLost == \A f \in opened : f \in held \/ \E o \in Objects : fd_[o] = f

(* Both at once, after any sequence of operations: every open descriptor   *)
(* has exactly one owner, and owners own open descriptors only.            *)
OneOwner == SoleOwner /\ NoDescriptorLost
=============================================================================
