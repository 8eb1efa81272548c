-------------------------- MODULE AppsClientProofs --------------------------
(***************************************************************************)
(* Proofs about AppsClient, for any number of callers and hosts, any        *)
(* thresholds, periods, retries and strategies.                             *)
(*                                                                          *)
(* OpenOnlyAtThreshold is not inductive: a failure that is reported with an *)
(* old clock may start the count of a host again.  BreakersAgree says why   *)
(* this never happens to a host that is shut out: while its count stands at *)
(* the threshold, the time to forget its failures and the time to let it    *)
(* in again differ by a constant, and when the count is below the host is   *)
(* let in already.                                                          *)
(***************************************************************************)
EXTENDS AppsClient, TLAPS

USE DEF balancer, settings, session

-----------------------------------------------------------------------------
(* The inductive invariant                                                  *)

\* The times and the count of each host (CircuitBreakLoadBalancer.failure).
BreakersAgree ==
    \A h \in Hosts :
        /\ cb_failures[h] <= threshold
        /\ threshold = 0 => cb_open_ttl[h] = 0
        /\ cb_open_ttl[h] > 0 =>
              IF cb_failures[h] = threshold
              THEN cb_reset_ttl[h] = cb_open_ttl[h] + (ResetSeconds - OpenSeconds)
              ELSE cb_open_ttl[h] < clock

\* No call has a clock that is ahead, and one that sleeps may try again.
CallsAgree ==
    \A c \in Callers :
        /\ call[c].now <= clock
        /\ call[c].pc = "backoff" => call[c].retry < Retries

\* The token and the time to replace it are set together.
TokenAgrees == token_expire > 0 => token = token_expire + (Lifetime - Renew)

Inv == TypeOK /\ clock > 0 /\ BreakersAgree /\ CallsAgree /\ TokenAgrees /\ FirstTokenIsFresh

LEMMA InitInv == Init => Inv
BY ClientAssumption
   DEF Init, Inv, TypeOK, BreakersAgree, CallsAgree, TokenAgrees, FirstTokenIsFresh,
       NoCall, Hosts

-----------------------------------------------------------------------------
(* The operations of the load balancer                                      *)

\* A turn of the round robin is a host.
LEMMA RingType ==
    ASSUME TypeOK, NEW k \in Nat
    PROVE  Ring(k) \in Hosts
BY ClientAssumption DEF TypeOK, Ring, Hosts

\* A success leaves a host well.
LEMMA SuccessKeeps ==
    ASSUME Inv, NEW h \in Hosts, Success(h), UNCHANGED <<threshold, clock>>
    PROVE  /\ cb_failures' \in [Hosts -> Nat] /\ cb_reset_ttl' \in [Hosts -> Nat]
           /\ cb_open_ttl' \in [Hosts -> Nat]
           /\ BreakersAgree'
BY ClientAssumption DEF Inv, TypeOK, BreakersAgree, Success

\* A failure, reported with a clock that is at most the present one.
LEMMA FailureKeeps ==
    ASSUME Inv, NEW h \in Hosts, NEW now \in Nat, now <= clock, Failure(h, now),
           UNCHANGED <<threshold, clock>>
    PROVE  /\ cb_failures' \in [Hosts -> Nat] /\ cb_reset_ttl' \in [Hosts -> Nat]
           /\ cb_open_ttl' \in [Hosts -> Nat]
           /\ BreakersAgree'
<1> USE ClientAssumption DEF Inv, TypeOK
<1>0. threshold \in Nat
    OBVIOUS
<1>1. CASE threshold = 0
    BY <1>1 DEF Failure, BreakersAgree
<1>2. CASE threshold # 0
    <2> DEFINE failures == IF now < cb_reset_ttl[h] THEN cb_failures[h] ELSE 0
               counted == Lesser(threshold, failures + 1)
    <2>1. /\ cb_failures' = [cb_failures EXCEPT ![h] = counted]
          /\ cb_reset_ttl' = [cb_reset_ttl EXCEPT ![h] = now + ResetSeconds]
          /\ cb_open_ttl' = IF counted >= threshold
                            THEN [cb_open_ttl EXCEPT ![h] = now + OpenSeconds]
                            ELSE cb_open_ttl
        BY <1>2 DEF Failure
    <2>2. failures \in Nat /\ counted \in Nat /\ counted <= threshold
        BY <1>0 DEF Lesser
    <2>3. /\ cb_failures' \in [Hosts -> Nat] /\ cb_reset_ttl' \in [Hosts -> Nat]
          /\ cb_open_ttl' \in [Hosts -> Nat]
        BY <2>1, <2>2
    <2>4. ASSUME NEW g \in Hosts, g # h
          PROVE  /\ cb_failures'[g] = cb_failures[g] /\ cb_open_ttl'[g] = cb_open_ttl[g]
                 /\ cb_reset_ttl'[g] = cb_reset_ttl[g]
        BY <2>1, <2>4
    <2>5. cb_failures'[h] = counted /\ cb_reset_ttl'[h] = now + ResetSeconds
        BY <2>1
    <2>6. CASE counted >= threshold
        <3>1. cb_open_ttl'[h] = now + OpenSeconds /\ counted = threshold
            BY <1>0, <2>1, <2>2, <2>6
        <3> QED
            BY <1>0, <1>2, <2>3, <2>4, <2>5, <3>1 DEF BreakersAgree
    <2>7. CASE counted < threshold
        <3>1. cb_open_ttl' = cb_open_ttl
            BY <1>0, <2>1, <2>2, <2>7
        <3>2. cb_open_ttl[h] > 0 => cb_open_ttl[h] < clock
            <4>1. CASE now < cb_reset_ttl[h]
                <5>1. cb_failures[h] # threshold
                    BY <1>0, <2>7, <4>1 DEF Lesser
                <5> QED
                    BY <5>1 DEF BreakersAgree
            <4>2. CASE ~(now < cb_reset_ttl[h])
                BY <1>0, <4>2 DEF BreakersAgree
            <4> QED
                BY <4>1, <4>2
        <3> QED
            BY <1>0, <1>2, <2>2, <2>3, <2>4, <2>5, <2>7, <3>1, <3>2 DEF BreakersAgree
    <2> QED
        BY <1>0, <2>2, <2>6, <2>7
<1> QED
    BY <1>0, <1>1, <1>2

-----------------------------------------------------------------------------
(* Every step keeps the invariant                                           *)

\* What does not touch the breakers and lets no time go back keeps them.
LEMMA BreakersKept ==
    ASSUME Inv, UNCHANGED <<threshold, cb_failures, cb_reset_ttl, cb_open_ttl>>,
           clock' \in Nat, clock <= clock'
    PROVE  BreakersAgree'
BY ClientAssumption DEF Inv, TypeOK, BreakersAgree

\* The token a call is given, when it begins.
LEMMA AuthorizeKeeps ==
    ASSUME Inv, Authorize, UNCHANGED strategy
    PROVE  /\ token' \in Nat /\ token_expire' \in Nat /\ TokenAgrees'
           /\ strategy = "public_key" => token' >= clock + (Lifetime - Renew)
<1> USE ClientAssumption DEF Inv, TypeOK
<1>1. CASE strategy = "public_key" /\ clock >= token_expire
    BY <1>1 DEF Authorize, EnsureToken, TokenAgrees
<1>2. CASE strategy = "public_key" /\ ~(clock >= token_expire)
    BY <1>2 DEF Authorize, EnsureToken, TokenAgrees
<1>3. CASE strategy # "public_key"
    BY <1>3 DEF Authorize, TokenAgrees
<1> QED
    BY <1>1, <1>2, <1>3

\* A turn of the retry loop leaves a call that has not begun or a request, the
\* first with a fresh token.
LEMMA AttemptKeeps ==
    ASSUME Inv, NEW c \in Callers, NEW now \in Nat, now <= clock,
           NEW retry \in 0..Retries, NEW tok \in Nat,
           strategy = "public_key" /\ retry = 0 => tok >= now + (Lifetime - Renew),
           Attempt(c, now, retry, tok), UNCHANGED <<settings, clock>>
    PROVE  /\ host_index' \in Hosts
           /\ call' \in [Callers -> [pc : {"idle", "request", "backoff"}, now : Nat,
                                     retry : 0..Retries, host : Hosts, token : Nat]]
           /\ CallsAgree' /\ FirstTokenIsFresh'
           /\ UNCHANGED <<cb_failures, cb_reset_ttl, cb_open_ttl>>
<1> DEFINE Request(k) == [pc |-> "request", now |-> now, retry |-> retry,
                          host |-> Ring(k), token |-> tok]
<1>0. 0 \in Hosts /\ 0 \in 0..Retries
    BY ClientAssumption DEF Hosts
<1>1. host_index' \in Hosts
    <2>1. CASE Available(now) = {}
        BY <2>1 DEF Attempt
    <2>2. CASE Available(now) # {}
        <3>1. PICK k \in Hosts : Advance(k)
            BY <2>2 DEF Attempt
        <3>2. k + 1 \in Nat
            BY ClientAssumption DEF Hosts
        <3>3. Ring(k + 1) \in Hosts
            BY <3>2, RingType DEF Inv
        <3> QED
            BY <3>1, <3>3 DEF Advance
    <2> QED
        BY <2>1, <2>2
<1>2. End(c) \/ \E k \in Hosts : call' = [call EXCEPT ![c] = Request(k)]
    BY DEF Attempt
<1>3. CASE End(c)
    BY <1>0, <1>1, <1>3, ClientAssumption
       DEF Inv, TypeOK, End, NoCall, CallsAgree, FirstTokenIsFresh, Attempt
<1>4. CASE \E k \in Hosts : call' = [call EXCEPT ![c] = Request(k)]
    <2>1. PICK k \in Hosts : call' = [call EXCEPT ![c] = Request(k)]
        BY <1>4
    <2>2. Ring(k) \in Hosts
        BY RingType, ClientAssumption DEF Inv, Hosts
    <2>3. Request(k) \in [pc : {"idle", "request", "backoff"}, now : Nat,
                          retry : 0..Retries, host : Hosts, token : Nat]
        BY <2>2
    <2>4. call'[c] = Request(k) /\ \A d \in Callers \ {c} : call'[d] = call[d]
        BY <2>1 DEF Inv, TypeOK
    <2>5. CallsAgree' /\ FirstTokenIsFresh'
        BY <2>4 DEF Inv, CallsAgree, FirstTokenIsFresh
    <2> QED
        BY <1>1, <2>1, <2>3, <2>5 DEF Inv, TypeOK, Attempt
<1> QED
    BY <1>2, <1>3, <1>4

\* A call that ends is as one that has not begun.
LEMMA EndKeeps ==
    ASSUME Inv, NEW c \in Callers, End(c), UNCHANGED <<settings, clock>>
    PROVE  /\ call' \in [Callers -> [pc : {"idle", "request", "backoff"}, now : Nat,
                                     retry : 0..Retries, host : Hosts, token : Nat]]
           /\ CallsAgree' /\ FirstTokenIsFresh'
<1>0. 0 \in Hosts /\ 0 \in 0..Retries
    BY ClientAssumption DEF Hosts
<1> QED
    BY <1>0 DEF Inv, TypeOK, End, NoCall, CallsAgree, FirstTokenIsFresh

LEMMA LifeInv ==
    ASSUME Inv, Tick \/ Start \/ Stop \/ Stopped
    PROVE  Inv'
<1>1. CASE Tick
    <2>1. clock' \in Nat /\ clock <= clock' /\ clock' > 0
        BY <1>1 DEF Tick, Inv, TypeOK
    <2>2. TypeOK' /\ CallsAgree' /\ TokenAgrees' /\ FirstTokenIsFresh'
        BY <1>1, <2>1 DEF Tick, Inv, TypeOK, CallsAgree, TokenAgrees, FirstTokenIsFresh
    <2> QED
        BY <1>1, <2>1, <2>2, BreakersKept DEF Tick, Inv
<1>2. CASE Start
    <2>1. /\ token' \in Nat /\ token_expire' \in Nat /\ TokenAgrees'
        BY <1>2, AuthorizeKeeps DEF Start
    <2>2. TypeOK'
        BY <1>2, <2>1, ClientAssumption
           DEF Start, CreateSession, RegisterConnections, Inv, TypeOK, Hosts
    <2>3. BreakersAgree'
        BY <1>2, ClientAssumption DEF Start, RegisterConnections, Inv, TypeOK, BreakersAgree
    <2>4. CallsAgree' /\ FirstTokenIsFresh'
        BY <1>2 DEF Start, Inv, CallsAgree, FirstTokenIsFresh
    <2> QED
        BY <1>2, <2>1, <2>2, <2>3, <2>4 DEF Start, Inv
<1>3. CASE Stop
    <2>1. BreakersAgree'
        BY <1>3, BreakersKept DEF Stop, Inv, TypeOK
    <2> QED
        BY <1>3, <2>1 DEF Stop, Inv, TypeOK, CallsAgree, TokenAgrees, FirstTokenIsFresh
<1>4. CASE Stopped
    <2>1. BreakersAgree'
        BY <1>4, BreakersKept DEF Stopped, Inv, TypeOK
    <2> QED
        BY <1>4, <2>1 DEF Stopped, Inv, TypeOK, CallsAgree, TokenAgrees, FirstTokenIsFresh
<1> QED
    BY <1>1, <1>2, <1>3, <1>4

LEMMA CallInv ==
    ASSUME Inv, NEW c \in Callers, Call(c)
    PROVE  Inv'
<1>1. /\ token' \in Nat /\ token_expire' \in Nat /\ TokenAgrees'
      /\ strategy = "public_key" => token' >= clock + (Lifetime - Renew)
    BY AuthorizeKeeps DEF Call
<1>2. /\ host_index' \in Hosts
      /\ call' \in [Callers -> [pc : {"idle", "request", "backoff"}, now : Nat,
                                retry : 0..Retries, host : Hosts, token : Nat]]
      /\ CallsAgree' /\ FirstTokenIsFresh'
      /\ UNCHANGED <<cb_failures, cb_reset_ttl, cb_open_ttl>>
    <2>1. clock \in Nat /\ clock <= clock /\ 0 \in 0..Retries
        BY ClientAssumption DEF Inv, TypeOK
    <2> QED
        BY <1>1, <2>1, AttemptKeeps DEF Call
<1>3. BreakersAgree'
    BY <1>2, BreakersKept DEF Call, Inv, TypeOK
<1> QED
    BY <1>1, <1>2, <1>3 DEF Call, Inv, TypeOK

LEMMA AnswerInv ==
    ASSUME Inv, NEW c \in Callers, NEW status \in Statuses, NEW handled \in BOOLEAN,
           Answer(c, status, handled)
    PROVE  Inv'
<1> DEFINE h == call[c].host
           now == call[c].now
<1>1. h \in Hosts /\ now \in Nat /\ now <= clock
    BY DEF Inv, TypeOK, CallsAgree
<1>2. UNCHANGED <<settings, clock, session, host_index>>
    BY DEF Answer
<1>3. /\ cb_failures' \in [Hosts -> Nat] /\ cb_reset_ttl' \in [Hosts -> Nat]
      /\ cb_open_ttl' \in [Hosts -> Nat]
      /\ BreakersAgree'
    <2>1. CASE Success(h)
        BY <1>1, <1>2, <2>1, SuccessKeeps
    <2>2. CASE Failure(h, now)
        BY <1>1, <1>2, <2>2, FailureKeeps
    <2>3. CASE UNCHANGED <<cb_failures, cb_reset_ttl, cb_open_ttl>>
        BY <1>2, <2>3, BreakersKept DEF Inv, TypeOK
    <2> QED
        BY <2>1, <2>2, <2>3 DEF Answer, Outcome
<1>4. /\ call' \in [Callers -> [pc : {"idle", "request", "backoff"}, now : Nat,
                                retry : 0..Retries, host : Hosts, token : Nat]]
      /\ CallsAgree' /\ FirstTokenIsFresh'
    <2>1. CASE End(c)
        BY <1>2, <2>1, EndKeeps
    <2>2. CASE /\ call[c].retry # Retries
               /\ call' = [call EXCEPT ![c].pc = "backoff"]
        <3>0. call[c].retry \in 0..Retries
            BY DEF Inv, TypeOK
        <3>1. call[c].retry < Retries
            BY <2>2, <3>0, ClientAssumption
        <3> QED
            BY <1>2, <2>2, <3>1 DEF Inv, TypeOK, CallsAgree, FirstTokenIsFresh
    <2> QED
        BY <2>1, <2>2 DEF Answer, Outcome
<1> QED
    BY <1>2, <1>3, <1>4 DEF Inv, TypeOK, TokenAgrees

LEMMA RetryInv ==
    ASSUME Inv, NEW c \in Callers, Retry(c)
    PROVE  Inv'
<1>1. /\ call[c].now \in Nat /\ call[c].now <= clock /\ call[c].token \in Nat
      /\ call[c].retry + 1 \in 0..Retries /\ call[c].retry + 1 # 0
    BY ClientAssumption DEF Inv, TypeOK, CallsAgree, Retry
<1>2. /\ host_index' \in Hosts
      /\ call' \in [Callers -> [pc : {"idle", "request", "backoff"}, now : Nat,
                                retry : 0..Retries, host : Hosts, token : Nat]]
      /\ CallsAgree' /\ FirstTokenIsFresh'
      /\ UNCHANGED <<cb_failures, cb_reset_ttl, cb_open_ttl>>
    BY <1>1, AttemptKeeps DEF Retry
<1>3. BreakersAgree'
    BY <1>2, BreakersKept DEF Retry, Inv, TypeOK
<1> QED
    BY <1>2, <1>3 DEF Retry, Inv, TypeOK, TokenAgrees

LEMMA CancelInv ==
    ASSUME Inv, NEW c \in Callers, Cancel(c)
    PROVE  Inv'
<1>1. BreakersAgree'
    BY BreakersKept DEF Cancel, Inv, TypeOK
<1>2. /\ call' \in [Callers -> [pc : {"idle", "request", "backoff"}, now : Nat,
                                retry : 0..Retries, host : Hosts, token : Nat]]
      /\ CallsAgree' /\ FirstTokenIsFresh'
    BY EndKeeps DEF Cancel
<1> QED
    BY <1>1, <1>2 DEF Cancel, Inv, TypeOK, TokenAgrees

LEMMA NextInv == Inv /\ [Next]_vars => Inv'
<1> SUFFICES ASSUME Inv, [Next]_vars
             PROVE  Inv'
    OBVIOUS
<1>1. CASE Tick \/ Start \/ Stop \/ Stopped
    BY <1>1, LifeInv
<1>2. ASSUME NEW c \in Callers, Call(c)
      PROVE  Inv'
    BY <1>2, CallInv
<1>3. ASSUME NEW c \in Callers, Responds(c)
      PROVE  Inv'
    BY <1>3, AnswerInv DEF Responds
<1>4. ASSUME NEW c \in Callers, Retry(c)
      PROVE  Inv'
    BY <1>4, RetryInv
<1>5. ASSUME NEW c \in Callers, Cancel(c)
      PROVE  Inv'
    BY <1>5, CancelInv
<1>6. CASE UNCHANGED vars
    BY <1>6 DEF vars, Inv, TypeOK, BreakersAgree, CallsAgree, TokenAgrees, FirstTokenIsFresh
<1> QED
    BY <1>1, <1>2, <1>3, <1>4, <1>5, <1>6 DEF Next

LEMMA AlwaysInv == Spec => []Inv
BY InitInv, NextInv, PTL DEF Spec

-----------------------------------------------------------------------------
(* The results                                                              *)

\* The variables have their types: hosts are hosts of the connection, and no
\* call retries more often than it may (AppsClient.call, next_host).
THEOREM TypeCorrect == Spec => []TypeOK
<1>1. Inv => TypeOK
    BY DEF Inv
<1> QED
    BY <1>1, AlwaysInv, PTL

\* A host is shut out only with as many failures as the threshold, whatever
\* the order in which calls with old clocks report (failure, success).
THEOREM OpenAtThreshold == Spec => []OpenOnlyAtThreshold
<1>1. Inv => OpenOnlyAtThreshold
    BY ClientAssumption DEF Inv, TypeOK, BreakersAgree, OpenOnlyAtThreshold
<1> QED
    BY <1>1, AlwaysInv, PTL

\* A first request carries a token that stays valid for a while
\* (_ensure_token, _auth_headers).
THEOREM TokenFresh == Spec => []FirstTokenIsFresh
<1>1. Inv => FirstTokenIsFresh
    BY DEF Inv
<1> QED
    BY <1>1, AlwaysInv, PTL
=============================================================================
