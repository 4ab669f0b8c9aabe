---------------------------- MODULE AuthSession ----------------------------
(***************************************************************************)
(* Challenge-response sessions (include/auth/AuthSession.hpp) as the       *)
(* session map of phase13_auth_system.cpp keeps them: a nonce per session, *)
(* one verdict on the first token that is submitted, a timeout that is     *)
(* looked at only then.                                                    *)
(*                                                                         *)
(* A byte has two bits here and two digits of one bit each when it is      *)
(* printed; the code has eight bits and two hexadecimal digits.            *)
(***************************************************************************)
EXTENDS Integers

CONSTANTS
    Sessions,       \* descriptors that sessions are made for
    NonceLength,    \* bytes of a nonce
    SecretSize,     \* secret.size()
    secret,         \* the shared secret
    TicksPerSecond, \* resolution of steady_clock
    AuthTimeout,    \* seconds
    MaxAuthClock    \* bound on the clock

Byte == 0 .. 3

Nonce == [0 .. NonceLength - 1 -> Byte]

ASSUME AuthSessionAssumption ==
    /\ NonceLength \in Nat \ {0} /\ SecretSize \in Nat \ {0}
    /\ secret \in [0 .. SecretSize - 1 -> Byte]
    /\ TicksPerSecond \in Nat \ {0} /\ AuthTimeout \in Nat /\ MaxAuthClock \in Nat

VARIABLES
    auth_state, \* state_ of each session ("NONE": no session)
    nonce,      \* nonce_
    created_at,
    auth_clock,
    answer,     \* history: the first token submitted to each session, a set of at most one
    answer_at   \* history: and when

auth == <<auth_state, nonce, created_at, auth_clock, answer, answer_at>>

-----------------------------------------------------------------------------
(* compute_token: two passes of xor with the secret, then two digits for   *)
(* each byte.                                                              *)
Xor(a, b) == 2 * ((a \div 2 + b \div 2) % 2) + ((a + b) % 2)

Hex(bytes) ==
    [d \in (0 .. NonceLength - 1) \X {"high", "low"} |->
        IF d[2] = "high" THEN bytes[d[1]] \div 2 ELSE bytes[d[1]] % 2]

Folded(n) ==
    [i \in 0 .. NonceLength - 1 |->
        Xor(Xor(n[i], secret[i % SecretSize]), secret[(i + 3) % SecretSize])]

compute_token(n) == Hex(Folded(n))

(* What clients send: strings of digits as long as a token, among them the *)
(* token of the session, those of other sessions or of another secret, and *)
(* "deadbeefcafebabe", which has that length too.                          *)
Token == {Hex(bytes) : bytes \in Nonce}

(* duration_cast truncates the age of the session to seconds.              *)
is_timed_out(f) == (auth_clock - created_at[f]) \div TicksPerSecond >= AuthTimeout

AuthInit ==
    /\ auth_state = [f \in Sessions |-> "NONE"]
    /\ nonce = [f \in Sessions |-> [i \in 0 .. NonceLength - 1 |-> 0]]
    /\ created_at = [f \in Sessions |-> 0]
    /\ auth_clock = 0
    /\ answer = [f \in Sessions |-> {}]
    /\ answer_at = [f \in Sessions |-> 0]

(* A new session replaces the one its descriptor had.  generate_nonce may  *)
(* return anything.                                                        *)
NewSession(f) ==
    /\ \E n \in Nonce : nonce' = [nonce EXCEPT ![f] = n]
    /\ auth_state' = [auth_state EXCEPT ![f] = "CHALLENGE_SENT"]
    /\ created_at' = [created_at EXCEPT ![f] = auth_clock]
    /\ answer' = [answer EXCEPT ![f] = {}]
    /\ answer_at' = [answer_at EXCEPT ![f] = 0]
    /\ UNCHANGED auth_clock

(* Faulty variant: a session that was refused may try again.               *)
VerdictAgain(f, token) ==
    IF auth_state[f] = "AUTHENTICATED" THEN auth_state[f]
    ELSE IF is_timed_out(f) THEN "TIMED_OUT"
    ELSE IF token = compute_token(nonce[f]) THEN "AUTHENTICATED"
    ELSE "REJECTED"

Verdict(f, token) ==
    IF auth_state[f] # "CHALLENGE_SENT" THEN auth_state[f]
    ELSE IF is_timed_out(f) THEN "TIMED_OUT"
    ELSE IF token = compute_token(nonce[f]) THEN "AUTHENTICATED"
    ELSE "REJECTED"

submit_token(f, token) ==
    /\ auth_state[f] # "NONE"
    /\ auth_state' = [auth_state EXCEPT ![f] = Verdict(f, token)]
    /\ IF answer[f] = {}
       THEN /\ answer' = [answer EXCEPT ![f] = {token}]
            /\ answer_at' = [answer_at EXCEPT ![f] = auth_clock]
       ELSE UNCHANGED <<answer, answer_at>>
    /\ UNCHANGED <<nonce, created_at, auth_clock>>

AuthTick ==
    /\ auth_clock < MaxAuthClock
    /\ auth_clock' = auth_clock + 1
    /\ UNCHANGED <<auth_state, nonce, created_at, answer, answer_at>>

AuthNext ==
    \/ \E f \in Sessions : NewSession(f)
    \/ \E f \in Sessions, token \in Token : submit_token(f, token)
    \/ AuthTick

AuthSpec == AuthInit /\ [][AuthNext]_auth

-----------------------------------------------------------------------------
(* Each session is judged once, on its first token, however many follow:   *)
(* it is authenticated just when that was the token of its own nonce and   *)
(* came before the timeout, and it has no verdict as long as nothing was   *)
(* submitted, even after the timeout.  "nonce is unique per session ->     *)
(* replay-proof" (AuthSession.hpp:16): sessions with different nonces are  *)
(* not authenticated by the same token.                                    *)
InTime(f) == answer_at[f] - created_at[f] < AuthTimeout * TicksPerSecond

Judged(f) ==
    /\ auth_state[f] = "CHALLENGE_SENT" <=> answer[f] = {}
    /\ auth_state[f] = "AUTHENTICATED" <=> answer[f] = {compute_token(nonce[f])} /\ InTime(f)
    /\ auth_state[f] = "TIMED_OUT" <=> answer[f] # {} /\ ~ InTime(f)

FirstTokenDecides ==
    /\ \A f \in Sessions : auth_state[f] # "NONE" => Judged(f)
    /\ \A f, g \in Sessions :
          /\ auth_state[f] = "AUTHENTICATED" /\ auth_state[g] = "AUTHENTICATED"
          /\ nonce[f] # nonce[g]
          => answer[f] # answer[g]
=============================================================================
