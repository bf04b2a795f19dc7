-------------------------- MODULE OutboxLifecycle --------------------------
(***************************************************************************)
(* What PostgreSQLOutbox promises (README, "Durable projection outbox"),   *)
(* without SQL: every port call takes effect at one instant, sees the      *)
(* current state of every intent, and either happens or does not.          *)
(***************************************************************************)
EXTENDS Integers, FiniteSets

CONSTANTS
    Owners, NoOwner, Events, NoEvent, Identities,
    IdentityOf(_),     \* the source identity of an intent
    Prior(_, _),       \* same identity, earlier version
    InOrder,           \* the source commits the versions of an identity in order
    Threshold          \* releases of an intent before it is quarantined

VARIABLES
    published,  \* intents the source has committed
    state, attempt, owner,
    lapsed,     \* leased intents whose lease has expired
    ckpt        \* revision and last event of each partition

vars == <<published, state, attempt, owner, lapsed, ckpt>>

Init ==
    /\ published = {}
    /\ state = [e \in Events |-> "PENDING"]
    /\ attempt = [e \in Events |-> 0]
    /\ owner = [e \in Events |-> NoOwner]
    /\ lapsed = {}
    /\ ckpt = [i \in Identities |-> [revision |-> 0, event |-> NoEvent]]

Publish(e) ==
    /\ e \notin published
    /\ InOrder => \A f \in published : ~Prior(e, f)
    /\ published' = published \cup {e}
    /\ UNCHANGED <<state, attempt, owner, lapsed, ckpt>>

\* An intent may be claimed when it was never claimed, was released for a retry
\* or its lease has lapsed, and no earlier version is incomplete.
Claimable(e) ==
    /\ e \in published
    /\ state[e] \in {"PENDING", "RETRYABLE"} \/ e \in lapsed
    /\ InOrder => \A p \in published : Prior(p, e) => state[p] = "COMPLETED"

\* A batch goes to one owner.  Part of it may already have lapsed when the
\* claim returns.
Claim(o, S, late) ==
    /\ \A e \in S : Claimable(e)
    /\ late \subseteq S
    /\ state' = [e \in Events |-> IF e \in S THEN "LEASED" ELSE state[e]]
    /\ attempt' = [e \in Events |-> IF e \in S THEN attempt[e] + 1 ELSE attempt[e]]
    /\ owner' = [e \in Events |-> IF e \in S THEN o ELSE owner[e]]
    /\ lapsed' = (lapsed \ S) \cup late
    /\ UNCHANGED <<published, ckpt>>

\* The end of a lease, by its owner, before anyone else has claimed the intent.
End(o, e, s) ==
    /\ state[e] = "LEASED"
    /\ owner[e] = o
    /\ state' = [state EXCEPT ![e] = s]
    /\ owner' = [owner EXCEPT ![e] = NoOwner]
    /\ lapsed' = lapsed \ {e}
    /\ UNCHANGED <<published, attempt>>

\* Completion and the checkpoint advance are one event.
Complete(o, e) ==
    /\ End(o, e, "COMPLETED")
    /\ ckpt' = [ckpt EXCEPT ![IdentityOf(e)] =
                  [revision |-> @.revision + 1, event |-> e]]

\* Below the poison threshold a release may ask for a retry.
Release(o, e, s) ==
    /\ s = "QUARANTINED" \/ (s = "RETRYABLE" /\ attempt[e] < Threshold)
    /\ End(o, e, s)
    /\ UNCHANGED ckpt

Lapse(S) ==
    /\ \A e \in S : state[e] = "LEASED"
    /\ lapsed' = lapsed \cup S
    /\ UNCHANGED <<published, state, attempt, owner, ckpt>>

Next ==
    \/ \E e \in Events : Publish(e)
    \/ \E o \in Owners, S \in SUBSET Events : \E late \in SUBSET S : Claim(o, S, late)
    \/ \E o \in Owners, e \in Events :
          Complete(o, e) \/ Release(o, e, "RETRYABLE") \/ Release(o, e, "QUARANTINED")
    \/ \E S \in SUBSET Events : Lapse(S)

Spec == Init /\ [][Next]_vars
=============================================================================
