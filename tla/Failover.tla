------------------------------ MODULE Failover ------------------------------
(***************************************************************************)
(* The chat routes: executeWithFailover walks the chain of provider        *)
(* references of a route, and an in-memory circuit breaker shared by every *)
(* request parks a reference that keeps failing                            *)
(* (src/lib/routes/failover.ts and circuit-breaker.ts).                    *)
(*                                                                         *)
(* Instants are ages: an age grows with Tick and stops one past Window,    *)
(* after which recordFailure drops it.  A provider's answer is an outcome  *)
(* TLC chooses; `unavailable' stands for a reference without a credential  *)
(* and for the cli provider.  No caller of dispatchRoute passes an abort   *)
(* signal, so an attempt ends by its answer, its error or its timer.       *)
(***************************************************************************)
EXTENDS Integers, Sequences

CONSTANTS
  Ref,          \* provider references
  Chain,        \* the route's default reference and its fallbacks, in order
  Unavailable,  \* references that cannot be called at all
  Retries,      \* route.retries
  OnError,      \* route.onError: the errors that fail over
  Request,      \* requests in flight at one time
  Threshold,    \* FAILURE_THRESHOLD
  Window,       \* FAILURE_WINDOW_MS, in ticks
  Park          \* PARK_DURATION_MS, in ticks

\* What classifyError makes of an error; any other error is the caller's.
Triggers == {"timeout", "5xx", "rate_limit", "network"}

ASSUME ChainAssumption ==
  Chain \in Seq(Ref) /\ Len(Chain) > 0 /\ Unavailable \subseteq Ref
ASSUME RouteAssumption == Retries \in Nat /\ OnError \subseteq Triggers
ASSUME BreakerAssumption ==
  Threshold \in Nat \ {0} /\ Window \in Nat \ {0} /\ Park \in Nat \ {0}

VARIABLES
  slot,    \* the breaker's state of each reference
  req,     \* the progress of each request
  strikes  \* history: ages of the last failures since a success, oldest first

vars == <<slot, req, strikes>>

-----------------------------------------------------------------------------
(* The circuit breaker.                                                    *)

\* openUntil is undefined; any other value of `left' is what is left of it.
NotParked == -1

\* A reference the map does not hold.
NoSlot == [failures |-> <<>>, left |-> NotParked]

Ages == 0 .. (Window + 1)

Older(age) == IF age > Window THEN age ELSE age + 1

\* A list keeps its youngest Threshold entries; the code compares its length
\* with Threshold and reads nothing else of it.
Youngest(list) ==
  IF Len(list) > Threshold
  THEN SubSeq(list, Len(list) - Threshold + 1, Len(list))
  ELSE list

InWindow(age) == age <= Window

\* The filter of recordFailure.  A list grows at its end and ages as one, so
\* what the filter drops is a beginning of it.
Filtered(list) ==
  LET first == CHOOSE k \in 1 .. (Len(list) + 1) :
                 \A i \in DOMAIN list : InWindow(list[i]) <=> i >= k
  IN  SubSeq(list, first, Len(list))

\* Mutant: failures from before the window count.
KeepsOldFailures(s) ==
  LET kept == Youngest(Append(s.failures, 0))
  IN  [failures |-> kept,
       left |-> IF Len(kept) >= Threshold THEN Park ELSE s.left]

recordFailure(s) ==
  LET kept == Youngest(Append(Filtered(s.failures), 0))
  IN  [failures |-> kept,
       left |-> IF Len(kept) >= Threshold THEN Park ELSE s.left]

recordSuccess(s) == NoSlot

isOpen(s) == s.left > 0

\* Mutant: every look at a reference forgets it.
ForgetsParked(s) == NoSlot

\* isOpen forgets a reference whose parking is over.
afterIsOpen(s) == IF s.left = 0 THEN NoSlot ELSE s

-----------------------------------------------------------------------------
(* A request.  `at' is its place in the chain.  The attempts it reports to  *)
(* its caller are read by no code and left out.                            *)

Idle == [pc |-> "idle", at |-> 1, attempt |-> 0]

Init ==
  /\ slot = [p \in Ref |-> NoSlot]
  /\ req = [r \in Request |-> Idle]
  /\ strikes = [p \in Ref |-> <<>>]

Here(r) == Chain[req[r].at]

\* The request turns to the next reference.
Leave(r) ==
  req' = [req EXCEPT ![r] = [pc |-> "choosing", at |-> @.at + 1, attempt |-> 0]]

\* The caller gets its answer or its error, and the request is over.
End(r, pc) == req' = [req EXCEPT ![r] = [Idle EXCEPT !.pc = pc]]

\* A channel hands a message to the route.
Submit(r) ==
  /\ req[r].pc \in {"idle", "answered", "fatal", "exhausted"}
  /\ req' = [req EXCEPT ![r] = [Idle EXCEPT !.pc = "choosing"]]
  /\ UNCHANGED <<slot, strikes>>

\* Mutant: passing over a parked reference parks it anew.
SkipProlongs(r) ==
  /\ req[r].pc = "choosing" /\ req[r].at <= Len(Chain)
  /\ isOpen(slot[Here(r)])
  /\ Leave(r)
  /\ slot' = [slot EXCEPT ![Here(r)].left = Park]
  /\ UNCHANGED strikes

\* The loop reaches a parked reference and passes over it.
SkipParked(r) ==
  /\ req[r].pc = "choosing" /\ req[r].at <= Len(Chain)
  /\ isOpen(slot[Here(r)])
  /\ Leave(r)
  /\ UNCHANGED <<slot, strikes>>

\* The loop reaches a reference that cannot be called; the breaker is not told.
SkipUnavailable(r) ==
  /\ req[r].pc = "choosing" /\ req[r].at <= Len(Chain)
  /\ ~isOpen(slot[Here(r)]) /\ Here(r) \in Unavailable
  /\ slot' = [slot EXCEPT ![Here(r)] = afterIsOpen(@)]
  /\ Leave(r)
  /\ UNCHANGED strikes

\* Mutant: the loop runs past the end of the chain.
CallsPastTheEnd(r) ==
  /\ req[r].pc = "choosing"
  /\ req[r].at > Len(Chain) \/ (~isOpen(slot[Here(r)]) /\ Here(r) \notin Unavailable)
  /\ req' = [req EXCEPT ![r] = [pc |-> "calling", at |-> @.at, attempt |-> 1]]
  /\ UNCHANGED <<slot, strikes>>

\* The loop reaches a reference and makes its first attempt.
Call(r) ==
  /\ req[r].pc = "choosing" /\ req[r].at <= Len(Chain)
  /\ ~isOpen(slot[Here(r)]) /\ Here(r) \notin Unavailable
  /\ slot' = [slot EXCEPT ![Here(r)] = afterIsOpen(@)]
  /\ req' = [req EXCEPT ![r] = [pc |-> "calling", at |-> @.at, attempt |-> 1]]
  /\ UNCHANGED strikes

\* The provider answers.
Answer(r) ==
  /\ req[r].pc = "calling"
  /\ slot' = [slot EXCEPT ![Here(r)] = recordSuccess(@)]
  /\ strikes' = [strikes EXCEPT ![Here(r)] = <<>>]
  /\ End(r, "answered")

\* The attempt fails with an error of OnError, and the reference is retried.
Retry(r) ==
  /\ req[r].pc = "calling" /\ req[r].attempt <= Retries
  /\ OnError # {}
  /\ req' = [req EXCEPT ![r].attempt = @ + 1]
  /\ UNCHANGED <<slot, strikes>>

\* Mutant: the walk starts again at the head of the chain.
StartsAgain(r) ==
  /\ req[r].pc = "calling" /\ req[r].attempt > Retries
  /\ OnError # {}
  /\ slot' = [slot EXCEPT ![Here(r)] = recordFailure(@)]
  /\ strikes' = [strikes EXCEPT ![Here(r)] = Youngest(Append(@, 0))]
  /\ req' = [req EXCEPT ![r] = [Idle EXCEPT !.pc = "choosing"]]

\* The last attempt fails: the breaker is told and the next reference is tried.
FailOver(r) ==
  /\ req[r].pc = "calling" /\ req[r].attempt > Retries
  /\ OnError # {}
  /\ slot' = [slot EXCEPT ![Here(r)] = recordFailure(@)]
  /\ strikes' = [strikes EXCEPT ![Here(r)] = Youngest(Append(@, 0))]
  /\ Leave(r)

\* An error the route does not fail over for goes straight to the caller.
FailFatal(r) ==
  /\ req[r].pc = "calling"
  /\ End(r, "fatal")
  /\ UNCHANGED <<slot, strikes>>

\* The chain is at its end: AllProvidersFailedError.
Exhaust(r) ==
  /\ req[r].pc = "choosing" /\ req[r].at > Len(Chain)
  /\ End(r, "exhausted")
  /\ UNCHANGED <<slot, strikes>>

-----------------------------------------------------------------------------
(* The settings page, time, and a restart of the process.                  *)

\* GET /api/routes/list reads every parked reference through isOpen.
Snapshot ==
  /\ slot' = [p \in Ref |-> afterIsOpen(slot[p])]
  /\ UNCHANGED <<req, strikes>>

Tick ==
  /\ slot' = [p \in Ref |->
       [failures |-> [i \in DOMAIN slot[p].failures |-> Older(slot[p].failures[i])],
        left |-> IF slot[p].left > 0 THEN slot[p].left - 1 ELSE slot[p].left]]
  /\ strikes' = [p \in Ref |->
       [i \in DOMAIN strikes[p] |-> Older(strikes[p][i])]]
  /\ UNCHANGED req

\* The breaker lives in memory, and so do the requests.
Restart == slot' = [p \in Ref |-> NoSlot]
        /\ req' = [r \in Request |-> Idle]
        /\ strikes' = [p \in Ref |-> <<>>]

Choose(r) == SkipParked(r) \/ SkipUnavailable(r) \/ Call(r) \/ Exhaust(r)

Outcome(r) == Answer(r) \/ Retry(r) \/ FailOver(r) \/ FailFatal(r)

Next ==
  \/ \E r \in Request : Submit(r) \/ Choose(r) \/ Outcome(r)
  \/ Snapshot \/ Tick \/ Restart

Spec == Init /\ [][Next]_vars

\* The loop goes on, the timer of callWithTimeout ends every attempt, and time
\* passes.
FairSpec ==
  /\ Spec
  /\ \A r \in Request : WF_vars(Choose(r)) /\ WF_vars(Outcome(r))
  /\ WF_vars(Tick)
-----------------------------------------------------------------------------
(* Properties.                                                             *)

Slots == [failures : Seq(Ages), left : {NotParked} \cup 0 .. Park]

Requests ==
  [pc : {"idle", "choosing", "calling", "answered", "fatal", "exhausted"},
   at : 1 .. (Len(Chain) + 1), attempt : 0 .. (Retries + 1)]

\* The breaker and the loop stay within their types; a request that is calling
\* has a reference of the chain to call.
TypeOK ==
  /\ slot \in [Ref -> Slots]
  /\ req \in [Request -> Requests]
  /\ \A r \in Request : req[r].pc = "calling" => req[r].at <= Len(Chain)
  /\ strikes \in [Ref -> Seq(Ages)]

\* The last Threshold outcomes of the reference were failures, all of them
\* within one window that ends now.
Struck(list) ==
  /\ Len(list) = Threshold
  /\ \A i \in DOMAIN list : InWindow(list[i])

\* A provider is parked, or its parking is prolonged, only when the last
\* Threshold outcomes of its calls were failures inside one window, whichever
\* requests made them and however their answers interleaved: failures from
\* before a success or from before the window never count.
ParkIsEarned ==
  [][\A p \in Ref : slot'[p].left > slot[p].left /\ isOpen(slot'[p])
                      => Struck(strikes'[p])]_vars

\* Nothing but the answer of a request that was already calling it, or a
\* restart, brings a parked provider back early: other requests, the settings
\* page and late failures leave its time alone.
ParkIsKept ==
  [][\A p \in Ref :
       isOpen(slot[p]) /\ slot'[p].left < slot[p].left - 1
       => \/ \E r \in Request :
               /\ req[r].pc = "calling" /\ Here(r) = p
               /\ req'[r].pc = "answered"
          \/ \A r \in Request : req'[r] = Idle]_vars

\* Every message handed to a route is answered or refused: whatever is parked,
\* retried or unavailable, the walk along the chain ends.
RequestSettles ==
  \A r \in Request :
    req[r].pc \in {"choosing", "calling"} ~> req[r].pc \notin {"choosing", "calling"}

\* Late failures of requests in flight may prolong a parking, but never for
\* ever: every parked provider gets another chance.
ParkEnds == \A p \in Ref : isOpen(slot[p]) ~> ~isOpen(slot[p])
=============================================================================
