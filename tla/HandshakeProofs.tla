--------------------------- MODULE HandshakeProofs ---------------------------
(***************************************************************************)
(* The safety properties of Handshake, for every budget, every answer of   *)
(* on_wait and every order in which wolfSSH may make its callbacks.  That  *)
(* pspssh_open returns is a liveness property and is left to TLC.          *)
(***************************************************************************)
EXTENDS Handshake, TLAPS

Refusals == {"no policy", "no fingerprint", "refused"}

\* Up to the end of the attempt nothing has gone wrong yet, and the end comes
\* with an answer that was not a success and a reason that is not yet a timeout.
GoesOn ==
    /\ pc \in {"idle", "setup", "connect", "hostkey", "wait", "opened"}
           => error = "" /\ ~refused
    /\ pc \in {"idle", "setup"} => answer = "none"
    /\ pc = "wait" => answer = "want"
    /\ pc = "over" => error # "timeout" /\ answer # "success"

\* There is budget left whenever wolfSSH_connect is about to be called, and
\* the loop ends in want of more only when there is none.
InBudget ==
    /\ pc \in {"idle", "setup", "connect", "hostkey", "wait"} => waited < Budget
    /\ pc = "over" => (answer = "want" <=> waited >= Budget)

\* What makes trust: it comes after a yes, which only a policy can give.
Trust ==
    /\ pc = "hostkey" => phase = "keyed"
    /\ phase \in {"trusted", "authed"} => policy /\ ~refused
    /\ secret => phase = "authed"

\* A refusal comes out of wolfSSH_connect as an error.
Refusal ==
    refused => /\ pc \in {"over", "failed"}
               /\ error \in Refusals
               /\ answer = "error"

\* What is allocated, by place.
Holdings ==
    /\ pc \in {"idle", "failed"} => held = {}
    /\ pc \in {"connect", "hostkey", "wait", "opened"} => held = {"s", "ctx", "ssh"}

IInv == /\ TypeOK /\ GoesOn /\ InBudget
        /\ Trust /\ Refusal /\ TimeoutIsTimeout /\ Holdings

-----------------------------------------------------------------------------
\* The budget is a positive number of milliseconds, whatever the caller asks.
LEMMA BudgetPositive == Budget \in Nat /\ Budget > 0
BY HandshakeAssumption DEF Budget

\* A turn of the loop always costs something, whatever on_wait reports.
LEMMA CostPositive ==
    ASSUME NEW slept \in Slept
    PROVE  Cost(slept) \in Nat /\ Cost(slept) > 0
BY HandshakeAssumption DEF Cost

\* What on_wait reports, added up, and the time it takes are natural numbers.
LEMMA WaitTyped ==
    ASSUME waited \in Nat, NEW slept \in Slept
    PROVE  /\ waited + Cost(slept) \in Nat
           /\ (IF slept > 0 THEN slept ELSE 0) \in Nat
<1>1. slept \in Int
    BY HandshakeAssumption
<1>2. Cost(slept) \in Nat
    BY CostPositive
<1> QED BY <1>1, <1>2

\* The clock stays within its bound.
LEMMA LaterTyped ==
    ASSUME elapsed \in 0..ClockCap, NEW ms \in Nat
    PROVE  Later(ms) \in 0..ClockCap
BY HandshakeAssumption DEF Later

-----------------------------------------------------------------------------
\* The invariant holds before pspssh_open is called.
LEMMA InitInv == Init => IInv
<1> SUFFICES ASSUME Init PROVE IInv
    OBVIOUS
<1>1. 0 < Budget /\ 0 \in 0..ClockCap
    BY BudgetPositive, HandshakeAssumption
<1>2. TypeOK
    BY <1>1 DEF Init, TypeOK, Errors
<1>3. GoesOn /\ InBudget /\ TimeoutIsTimeout
    BY <1>1, BudgetPositive DEF Init, GoesOn, InBudget, TimeoutIsTimeout
<1>4. Trust /\ Refusal /\ Holdings
    BY DEF Init, Trust, Refusal, Holdings
<1> QED BY <1>2, <1>3, <1>4 DEF IInv

\* And every step keeps it.
LEMMA StepInv == IInv /\ [Next]_vars => IInv'
<1>s. SUFFICES ASSUME IInv, [Next]_vars PROVE IInv'
    OBVIOUS
<1>0. /\ Budget \in Nat /\ Budget > 0 /\ Budget' = Budget
      /\ waited \in Nat
    BY <1>s, BudgetPositive DEF Budget, IInv, TypeOK
<1>1. CASE Begin
    BY <1>s, <1>0, <1>1 DEF Begin, IInv, TypeOK, GoesOn, InBudget, Trust,
           Refusal, TimeoutIsTimeout, Holdings
<1>2. CASE Setup
    BY <1>s, <1>0, <1>2 DEF Setup, IInv, TypeOK, GoesOn, InBudget, Trust,
           Refusal, TimeoutIsTimeout, Holdings
<1>3. ASSUME NEW step \in Setups, SetupFails(step) PROVE IInv'
  <2>1. error' = step /\ step \in Errors \ {"timeout"}
      BY <1>3 DEF SetupFails, Errors, Setups
  <2>2. TypeOK'
      BY <1>s, <1>3, <2>1 DEF SetupFails, IInv, TypeOK
  <2>3. GoesOn' /\ TimeoutIsTimeout'
      BY <1>s, <1>3, <2>1 DEF SetupFails, IInv, GoesOn, TimeoutIsTimeout
  <2>4. InBudget'
    <3>1. pc = "setup" /\ pc' = "over" /\ answer' = answer /\ waited' = waited
        BY <1>3 DEF SetupFails
    <3>2. answer = "none" /\ waited < Budget
        BY <1>s, <3>1 DEF IInv, InBudget, GoesOn
    <3> QED BY <1>0, <3>1, <3>2 DEF InBudget
  <2>5. Trust' /\ Refusal' /\ Holdings'
      BY <1>s, <1>3 DEF SetupFails, IInv, GoesOn, Trust, Refusal, Holdings
  <2> QED BY <2>2, <2>3, <2>4, <2>5 DEF IInv
<1>4. CASE WouldBlock
  <2>1. PICK ms \in {0, RecvMs} : elapsed' = Later(ms)
      BY <1>4 DEF WouldBlock
  <2>2. elapsed' \in 0..ClockCap
      BY <1>s, <2>1, LaterTyped, HandshakeAssumption DEF IInv, TypeOK
  <2> QED BY <1>s, <1>0, <1>4, <2>2
          DEF WouldBlock, IInv, TypeOK, GoesOn, InBudget, Trust,
           Refusal, TimeoutIsTimeout, Holdings
<1>5. CASE Keyed
    BY <1>s, <1>0, <1>5 DEF Keyed, IInv, TypeOK, GoesOn, InBudget, Trust,
           Refusal, TimeoutIsTimeout, Holdings
<1>6. CASE Authenticate
    BY <1>s, <1>0, <1>6 DEF Authenticate, IInv, TypeOK, GoesOn, InBudget, Trust,
           Refusal, TimeoutIsTimeout, Holdings
<1>7. CASE ConnectFails
  <2>1. TypeOK' /\ GoesOn' /\ TimeoutIsTimeout'
      BY <1>s, <1>7 DEF ConnectFails, IInv, TypeOK, GoesOn, TimeoutIsTimeout
  <2>2. InBudget'
      BY <1>s, <1>0, <1>7 DEF ConnectFails, IInv, InBudget
  <2>3. Trust' /\ Refusal' /\ Holdings'
      BY <1>s, <1>7 DEF ConnectFails, IInv, GoesOn, Trust, Refusal, Holdings
  <2> QED BY <2>1, <2>2, <2>3 DEF IInv
<1>8. CASE Connected
    BY <1>s, <1>0, <1>8 DEF Connected, IInv, TypeOK, GoesOn, InBudget, Trust,
           Refusal, TimeoutIsTimeout, Holdings
<1>9. CASE Accept
    BY <1>s, <1>0, <1>9 DEF Accept, IInv, TypeOK, GoesOn, InBudget, Trust,
           Refusal, TimeoutIsTimeout, Holdings
<1>10. ASSUME NEW why \in Refusals, Refuse(why) PROVE IInv'
  <2>1. TypeOK' /\ GoesOn' /\ TimeoutIsTimeout'
      BY <1>s, <1>10
         DEF Refuse, IInv, TypeOK, GoesOn, TimeoutIsTimeout, Refusals, Errors
  <2>2. InBudget'
    <3>1. /\ pc = "hostkey" /\ pc' = "over"
          /\ answer' = "error" /\ waited' = waited
        BY <1>10 DEF Refuse
    <3>2. waited < Budget
        BY <1>s, <3>1 DEF IInv, InBudget
    <3> QED BY <1>0, <3>1, <3>2 DEF InBudget
  <2>3. Trust' /\ Refusal' /\ Holdings'
      BY <1>s, <1>10 DEF Refuse, IInv, GoesOn, Trust, Refusal, Holdings
  <2> QED BY <2>1, <2>2, <2>3 DEF IInv
<1>11. CASE Wait
  <2>1. PICK slept \in Slept :
            /\ waited' = waited + Cost(slept)
            /\ elapsed' = Later(IF slept > 0 THEN slept ELSE 0)
      BY <1>11 DEF Wait
  <2>2. waited' \in Nat
      BY <1>0, <2>1, WaitTyped
  <2>3. elapsed' \in 0..ClockCap
      BY <1>s, <1>0, <2>1, WaitTyped, LaterTyped DEF IInv, TypeOK
  <2>4. /\ error' = "" /\ ~refused' /\ answer' = "want"
      BY <1>s, <1>11 DEF Wait, IInv, GoesOn
  <2>5. TypeOK'
      BY <1>s, <1>11, <2>2, <2>3, <2>4 DEF Wait, IInv, TypeOK
  <2>6. GoesOn' /\ TimeoutIsTimeout' /\ Refusal'
      BY <1>11, <2>4 DEF Wait, GoesOn, TimeoutIsTimeout, Refusal
  <2>7. InBudget'
    <3>1. answer' = "want"
        BY <2>4
    <3>2. pc' = IF waited' < Budget THEN "connect" ELSE "over"
        BY <1>11 DEF Wait
    <3> QED BY <1>0, <2>2, <3>1, <3>2 DEF InBudget
  <2>8. Trust' /\ Holdings'
      BY <1>s, <1>11, <2>4 DEF Wait, IInv, Trust, Holdings
  <2> QED BY <2>5, <2>6, <2>7, <2>8 DEF IInv
<1>12. CASE Fail
  <2>1. TypeOK'
      BY <1>s, <1>12 DEF Fail, Reason, IInv, TypeOK, Errors
  <2>2. GoesOn' /\ InBudget' /\ Trust' /\ Holdings'
      BY <1>s, <1>12 DEF Fail, IInv, GoesOn, InBudget, Trust, Holdings
  <2>3. TimeoutIsTimeout'
      BY <1>s, <1>0, <1>12 DEF Fail, Reason, IInv, GoesOn, InBudget, TimeoutIsTimeout
  <2>4. Refusal'
    <3> SUFFICES ASSUME refused' PROVE pc' = "failed" /\ error' \in Refusals /\ answer' = "error"
        BY <1>12 DEF Fail, Refusal
    <3>1. refused /\ answer = "error" /\ error \in Refusals
        BY <1>s, <1>12 DEF Fail, IInv, Refusal
    <3>2. ~(waited >= Budget)
        BY <1>s, <1>12, <3>1 DEF Fail, IInv, InBudget
    <3>3. error' = error
        BY <1>12, <3>1, <3>2 DEF Fail, Reason
    <3> QED BY <1>12, <3>1, <3>3 DEF Fail
  <2> QED BY <2>1, <2>2, <2>3, <2>4 DEF IInv
<1>13. CASE UNCHANGED vars
  <2>1. TypeOK'
      BY <1>s, <1>13 DEF vars, IInv, TypeOK
  <2>4. GoesOn'
      BY <1>s, <1>13 DEF vars, IInv, GoesOn
  <2>2. InBudget' /\ TimeoutIsTimeout'
      BY <1>s, <1>0, <1>13 DEF vars, IInv, InBudget, TimeoutIsTimeout
  <2>3. Trust' /\ Refusal' /\ Holdings'
      BY <1>s, <1>13 DEF vars, IInv, Trust, Refusal, Holdings
  <2> QED BY <2>1, <2>2, <2>3, <2>4 DEF IInv
<1> QED
    BY <1>s, <1>1, <1>2, <1>3, <1>4, <1>5, <1>6, <1>7, <1>8, <1>9, <1>10, <1>11,
       <1>12, <1>13 DEF Next, Refusals

\* So it holds throughout.
THEOREM Invariance == Spec => []IInv
<1>1. Init => IInv BY InitInv
<1>2. IInv /\ [Next]_vars => IInv' BY StepInv
<1> QED BY <1>1, <1>2, PTL DEF Spec

-----------------------------------------------------------------------------
\* Every variable keeps its type; in particular waited, the budget's measure,
\* never runs backwards below zero, whatever on_wait reports.
THEOREM HandshakeTyped == Spec => []TypeOK
<1>1. IInv => TypeOK BY DEF IInv
<1> QED BY <1>1, Invariance, PTL

\* The password reaches wolfSSH only after a policy accepted the host key.
THEOREM SecretGuarded == Spec => []SecretOnlyAfterYes
<1>1. IInv => SecretOnlyAfterYes BY DEF IInv, Trust, SecretOnlyAfterYes
<1> QED BY <1>1, Invariance, PTL

\* A refused host key is reported as a refused host key.
THEOREM RefusalKept == Spec => []RefusalReported
<1>1. IInv => RefusalReported BY DEF IInv, Refusal, RefusalReported, Refusals
<1> QED BY <1>1, Invariance, PTL

\* "Did not finish in time" is said only when the budget was spent waiting.
THEOREM TimeoutTrue == Spec => []TimeoutIsTimeout
<1>1. IInv => TimeoutIsTimeout BY DEF IInv
<1> QED BY <1>1, Invariance, PTL

\* Nothing is left allocated when pspssh_open returns NULL.
THEOREM NothingLeaked == Spec => []NothingLeaks
<1>1. IInv => NothingLeaks BY DEF IInv, Holdings, NothingLeaks, GoesOn
<1> QED BY <1>1, Invariance, PTL
=============================================================================
