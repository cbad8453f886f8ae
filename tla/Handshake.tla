------------------------------ MODULE Handshake ------------------------------
(***************************************************************************)
(* pspssh_open of src/core/pspssh.c: the one loop that retries             *)
(* wolfSSH_connect until the far side has said enough, with the callbacks  *)
(* wolfSSH makes on the way (hostkey_check, user_auth, io_recv over        *)
(* net_recv) and the budget that ends it.                                  *)
(*                                                                         *)
(* wolfSSH is external.  A call of wolfSSH_connect may find nothing to     *)
(* read, fail, present the host key once keys are exchanged, ask for the   *)
(* password once the host key was accepted, and succeed after that.        *)
(***************************************************************************)
EXTENDS Integers

CONSTANTS
    Timeout,    \* config->handshake_timeout_ms
    Default,    \* the built-in 30000
    Slept,      \* what on_wait may report, in milliseconds
    RecvMs,     \* how long net_recv may wait for a byte: 50
    ClockCap    \* bound: elapsed is counted up to here

ASSUME HandshakeAssumption ==
    /\ Timeout \in Int /\ Default \in Nat \ {0}
    /\ Slept \subseteq Int
    /\ RecvMs \in Nat
    /\ ClockCap \in Nat

Budget == IF Timeout > 0 THEN Timeout ELSE Default

VARIABLES
    policy,     \* whether config->on_hostkey was supplied
    pc,         \* where pspssh_open is; idle when it is not running
    phase,      \* how far wolfSSH is: hello, keyed, trusted, authed
    answer,     \* what the last wolfSSH_connect came to
    waited,     \* the milliseconds on_wait has said it spent
    elapsed,    \* those that have passed waiting in net_recv and on_wait
    refused,    \* s->hostkey_refused
    error,      \* s->error, by its kind
    held,       \* what has been allocated and not freed: s, ctx, ssh
    secret      \* whether the password was given to wolfSSH

vars == <<policy, pc, phase, answer, waited, elapsed, refused, error, held, secret>>

Setups == {"context", "algorithms", "session", "user", "pty"}
Errors == {"", "timeout", "wolfssh", "no policy", "no fingerprint", "refused"}
              \union Setups

TypeOK ==
    /\ policy \in BOOLEAN
    /\ pc \in {"idle", "setup", "connect", "hostkey", "wait", "over",
               "opened", "failed"}
    /\ phase \in {"hello", "keyed", "trusted", "authed"}
    /\ answer \in {"none", "want", "error", "success"}
    /\ waited \in Nat
    /\ elapsed \in 0..ClockCap
    /\ refused \in BOOLEAN
    /\ error \in Errors
    /\ held \subseteq {"s", "ctx", "ssh"}
    /\ secret \in BOOLEAN

Init ==
    /\ policy \in BOOLEAN
    /\ pc = "idle"
    /\ phase = "hello"
    /\ answer = "none"
    /\ waited = 0
    /\ elapsed = 0
    /\ refused = FALSE
    /\ error = ""
    /\ held = {}
    /\ secret = FALSE

\* The clock after ms more, as far as it is counted.
Later(ms) == IF elapsed + ms <= ClockCap THEN elapsed + ms ELSE ClockCap

-----------------------------------------------------------------------------
\* calloc; without memory for it NULL is returned with nothing to close.
Begin ==
    /\ pc = "idle"
    /\ \/ pc' = "setup" /\ held' = {"s"}
       \/ pc' = "failed" /\ UNCHANGED held
    /\ UNCHANGED <<policy, phase, answer, waited, elapsed, refused, error, secret>>

\* The context, the pinned algorithms, the session, the user name, the pty.
Setup ==
    /\ pc = "setup"
    /\ pc' = "connect"
    /\ held' = {"s", "ctx", "ssh"}
    /\ UNCHANGED <<policy, phase, answer, waited, elapsed, refused, error, secret>>

SetupFails(step) ==
    /\ pc = "setup"
    /\ pc' = "over"
    /\ error' = step
    /\ held' = {"s"} \union (IF step = "context" THEN {} ELSE {"ctx"})
                     \union (IF step \in {"user", "pty"} THEN {"ssh"} ELSE {})
    /\ UNCHANGED <<policy, phase, answer, waited, elapsed, refused, secret>>

-----------------------------------------------------------------------------
(* wolfSSH_connect *)

\* net_recv found nothing within its 50 ms, or the socket would not take more.
WouldBlock ==
    /\ pc = "connect"
    /\ answer' = "want"
    /\ \E ms \in {0, RecvMs} : elapsed' = Later(ms)
    /\ pc' = "wait"
    /\ UNCHANGED <<policy, phase, waited, refused, error, held, secret>>

\* Keys are exchanged: hostkey_check is called.
Keyed ==
    /\ pc = "connect" /\ phase = "hello"
    /\ phase' = "keyed"
    /\ pc' = "hostkey"
    /\ UNCHANGED <<policy, answer, waited, elapsed, refused, error, held, secret>>

\* user_auth hands over the password.
Authenticate ==
    /\ pc = "connect" /\ phase = "trusted"
    /\ phase' = "authed"
    /\ secret' = TRUE
    /\ UNCHANGED <<policy, pc, answer, waited, elapsed, refused, error, held>>

\* The far side closed, offers no modern algorithm, denied the password, ...
ConnectFails ==
    /\ pc = "connect"
    /\ answer' = "error"
    /\ pc' = "over"
    /\ UNCHANGED <<policy, phase, waited, elapsed, refused, error, held, secret>>

\* A shell with a pty; then pspssh_resize, whose failure is not fatal.
Connected ==
    /\ pc = "connect" /\ phase = "authed"
    /\ answer' = "success"
    /\ pc' = "opened"
    /\ UNCHANGED <<policy, phase, waited, elapsed, refused, error, held, secret>>

-----------------------------------------------------------------------------
(* hostkey_check *)

\* Mutant: WS_SUCCESS when nobody supplied a policy.
AcceptAnyway ==
    /\ pc = "hostkey"
    /\ phase' = "trusted"
    /\ pc' = "connect"
    /\ UNCHANGED <<policy, answer, waited, elapsed, refused, error, held, secret>>

\* on_hostkey said 1.
Accept ==
    /\ pc = "hostkey"
    /\ policy
    /\ phase' = "trusted"
    /\ pc' = "connect"
    /\ UNCHANGED <<policy, answer, waited, elapsed, refused, error, held, secret>>

\* Nobody to ask, nothing to show, or on_hostkey said 0: wolfSSH_connect fails.
Refuse(why) ==
    /\ pc = "hostkey"
    /\ (why = "no policy") <=> ~policy
    /\ refused' = TRUE
    /\ error' = why
    /\ answer' = "error"
    /\ pc' = "over"
    /\ UNCHANGED <<policy, phase, waited, elapsed, held, secret>>

-----------------------------------------------------------------------------
\* Mutants: a callback that reports nothing costs nothing; or gives time back.
Cost0(slept) == IF slept > 0 THEN slept ELSE 0
CostAsReported(slept) == slept

\* "A callback that reports nothing still costs a turn."
Cost(slept) == IF slept > 0 THEN slept ELSE 1

\* on_wait, which really sleeps for what it reports, or for no time at all.
Wait ==
    /\ pc = "wait"
    /\ \E slept \in Slept :
          /\ waited' = waited + Cost(slept)
          /\ elapsed' = Later(IF slept > 0 THEN slept ELSE 0)
    /\ pc' = IF waited' < Budget THEN "connect" ELSE "over"
    /\ UNCHANGED <<policy, phase, answer, refused, error, held, secret>>

\* Mutants: the specific reason overwritten by wolfSSH's own words; every
\* failure that is not a refusal called a timeout.
ReasonGeneric ==
    IF answer = "none" THEN error ELSE IF waited >= Budget THEN "timeout" ELSE "wolfssh"

ReasonTimeout ==
    IF answer = "none" \/ refused THEN error ELSE "timeout"

\* What err says: the budget is spent, or wolfSSH's own words unless the host
\* key was refused, or what the set-up said.
Reason ==
    IF answer = "none" THEN error
    ELSE IF waited >= Budget THEN "timeout"
    ELSE IF refused THEN error
    ELSE "wolfssh"

\* Mutant: pspssh_close left out.
FailWithoutClose ==
    /\ pc = "over"
    /\ error' = Reason
    /\ pc' = "failed"
    /\ UNCHANGED <<policy, phase, answer, waited, elapsed, refused, held, secret>>

\* The label failed, and pspssh_close.
Fail ==
    /\ pc = "over"
    /\ error' = Reason
    /\ held' = {}
    /\ pc' = "failed"
    /\ UNCHANGED <<policy, phase, answer, waited, elapsed, refused, secret>>

Next ==
    \/ Begin \/ Setup \/ \E step \in Setups : SetupFails(step)
    \/ WouldBlock \/ Keyed \/ Authenticate \/ ConnectFails \/ Connected
    \/ Accept
    \/ \E why \in {"no policy", "no fingerprint", "refused"} : Refuse(why)
    \/ Wait \/ Fail

\* The thread runs, net_recv and on_wait return, and the user answers.
Spec == Init /\ [][Next]_vars /\ WF_vars(Next)

-----------------------------------------------------------------------------
(* Properties *)

\* The password is given to wolfSSH only when a policy accepted the host key
\* ("before anything secret is sent", pspssh.h; hostkey_check).
SecretOnlyAfterYes ==
    secret => phase = "authed" /\ policy /\ ~refused

\* A refused host key ends the attempt and is reported as what it is, whatever
\* wolfSSH makes of it and however much of the budget is left.
RefusalReported ==
    refused => /\ pc \in {"over", "failed"}
               /\ error \in {"no policy", "no fingerprint", "refused"}

\* "did not finish within ... ms" is said only of a handshake that was still
\* waiting for the far side, and for as long as on_wait reported.
TimeoutIsTimeout ==
    error = "timeout" => answer = "want" /\ waited >= Budget

\* Nothing stays allocated when NULL is returned, and a session that is
\* returned has all of its parts and no error.
NothingLeaks ==
    /\ pc \in {"idle", "failed"} => held = {}
    /\ pc = "opened" => held = {"s", "ctx", "ssh"} /\ error = ""

\* "A handshake that is never going to finish should say so": pspssh_open
\* returns, however silent the far side and whatever on_wait reports.
OpenReturns == <>(pc \in {"opened", "failed"})

\* "The handshake did not finish within N ms" comes when N milliseconds have
\* passed, and at most one turn of the loop later.
TimeoutOnTime ==
    error = "timeout" => elapsed <= Budget + RecvMs

=============================================================================
