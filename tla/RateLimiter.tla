------------------------------ MODULE RateLimiter ------------------------------
(***************************************************************************)
(* core/security/rate-limiter.ts as operators: a sliding-window limiter    *)
(* over a bounded Map.  A limiter's value is the Map: `order' lists its    *)
(* keys as the Map does, by first insertion, and `hits' gives the recorded *)
(* instants of each key, empty for a key the Map does not hold.            *)
(***************************************************************************)
EXTENDS Naturals, Sequences, FiniteSets

CONSTANT MaxTrackedKeys

ASSUME TrackedKeysAssumption == MaxTrackedKeys \in Nat \ {0}

(* Limiters over a set of keys. *)
Limiters(Keys) == [order : Seq(Keys), hits : [Keys -> Seq(Nat)]]

Fresh(Keys) == [order |-> <<>>, hits |-> [k \in Keys |-> <<>>]]

Holds(limiter, key) == \E i \in DOMAIN limiter.order : limiter.order[i] = key

Expired(times, window, now) == {i \in DOMAIN times : times[i] + window <= now}

(* Mutant of Live: a hit counts for one instant too few. *)
LiveShort(times, policy, now) ==
  SubSeq(times, Cardinality(Expired(times, policy.window, now + 1)) + 1, Len(times))

(* The hits of the window that ends now.  They are recorded in the order of
   time, so what the filter leaves out are the first ones. *)
Live(times, policy, now) ==
  SubSeq(times, Cardinality(Expired(times, policy.window, now)) + 1, Len(times))

Allowed(limiter, policy, key, now) ==
  Len(Live(limiter.hits[key], policy, now)) < policy.max

Recorded(limiter, policy, key, now) ==
  [ order |-> IF Holds(limiter, key) THEN limiter.order ELSE Append(limiter.order, key),
    hits  |-> [limiter.hits EXCEPT ![key] = Append(Live(@, policy, now), now)] ]

(* The first key inserted goes, whatever its age or traffic. *)
Evicted(limiter) ==
  [ order |-> Tail(limiter.order),
    hits  |-> [limiter.hits EXCEPT ![Head(limiter.order)] = <<>>] ]

(* check(key): the limiter it leaves behind.  A refusal records nothing. *)
Checked(limiter, policy, key, now) ==
  IF Allowed(limiter, policy, key, now)
    THEN LET recorded == Recorded(limiter, policy, key, now)
         IN  IF Len(recorded.order) > MaxTrackedKeys THEN Evicted(recorded) ELSE recorded
    ELSE [limiter EXCEPT !.hits[key] = Live(@, policy, now)]
================================================================================
