-------------------------- MODULE GatewayProperties --------------------------
(***************************************************************************)
(* What the gateway lock, the rest and the session handling of Gateway are *)
(* for.                                                                    *)
(***************************************************************************)
EXTENDS Gateway

Holds(t) == pc[t] \in {"run", "close"}

\* A poll cycle and a write plan are each one piece: while a task is in the
\* middle of its reads, its plan steps or the close of a failed session, no
\* other task has anything on the wire
\* (async_write_points_locked, _GATEWAY_LOCKS).
OneConversation ==
    \A t, u \in Task : Holds(t) /\ (Holds(u) \/ wire[u] # "none") => t = u

\* The lock is held by exactly the task that is in its hold, so no path out
\* of a poll, a retry or a transaction leaves it taken.
LockNotLeaked ==
    /\ holder # None => Holds(holder)
    /\ \A t \in Task : Holds(t) => holder = t

\* Nothing is on the wire to a gateway that rests, whichever entry asks
\* (GATEWAY_REST_MIN_SECONDS, _raise_if_gateway_rests).
QuietWhileResting == rest => \A t \in Task : wire[t] = "none"

\* A hold of a loaded entry that failed because a request went unanswered never hands its
\* session, on which the answer may still arrive, to the next hold
\* (async_write_transaction: "Do not let the next request consume it").
\* An unload in the middle has closed the client already.
FailedSessionDropped ==
    [][\A t \in Task :
         pc[t] = "close" /\ pc'[t] # "close" /\ err[t] = "unanswered"
         /\ ~shut[EntryOf[t]]
         => link' # "suspect"]_vars

\* The close of a poll, a retry or a write never takes the link from under
\* another task's request; only an unload, which takes no lock, does.
OnlyAnUnloadCutsOthers ==
    [][\A t \in Task :
         /\ wire[t] = "request" /\ wire'[t] = "request"
         /\ link # "down" /\ link' = "down"
         => \E e \in Entry : ~shut[e] /\ shut'[e]]_vars

\* When a hold of a loaded entry ends on an unanswered request to a gateway
\* with a collection round, the rest has begun before the lock is free: the
\* next task in the queue finds it, and so does the task's own retry
\* (_after_failed_cycle, async_write_transaction).
RestBeforeTheLockIsFree ==
    [][\A t \in Task :
         /\ holder = t /\ holder' # t
         /\ RestsAfter(EntryOf[t], err[t]) /\ ~shut[EntryOf[t]]
         => rest']_vars

\* The same system as seen from the gateway: one task talks to it at a time,
\* and none while it rests.
Talker == IF holder # None /\ pc[holder] = "run" THEN holder ELSE None
Conversation == INSTANCE ExclusiveGateway WITH talker <- Talker, quiet <- rest
OneTalkerAndRest == Conversation!Spec

\* Every refresh and every write that has begun comes to an end, however
\* many others queue for the gateway and however it fails.
EveryTaskEnds == \A t \in Task : pc[t] # "idle" ~> pc[t] = "idle"

-----------------------------------------------------------------------------
\* What const.py ("After such a request the gateway rests: no entry behind it
\* sends anything until the rest is over") and docs/apsystems.md say of an
\* unanswered request. The code says less: see the README.
QuietAfterUnanswered == owed => \A t \in Task : wire[t] = "none"

-----------------------------------------------------------------------------
(***************************************************************************)
(* The invariant the proofs of GatewayProofs are built on. Beyond the lock *)
(* it says what a task carries through its hold: requests only while it    *)
(* runs, an error only while it closes, and for a write the rest that its  *)
(* error asks for.                                                         *)
(***************************************************************************)
RequestsOfTheHold ==
    \A t \in Task : /\ wire[t] # "none" => pc[t] = "run" /\ req[t] # "none"
                    /\ req[t] # "none" => left[t] > 0
                    /\ err[t] # "none" => pc[t] = "close"

NobodyRunsInTheRest == rest => \A t \in Task : pc[t] # "run"

WriteRestsAtOnce ==
    \A t \in Write : pc[t] = "close" /\ RestsAfter(EntryOf[t], err[t]) => rest

IInv ==
    /\ TypeOK
    /\ LockNotLeaked
    /\ RequestsOfTheHold
    /\ NobodyRunsInTheRest
    /\ WriteRestsAtOnce

\* What the two properties about sessions need beyond it: a request is only
\* made with a client to close, and a hold that went unanswered still has
\* that client when it ends, or a link on which no answer is due.
RequestsHaveAClient ==
    \A t \in Task : wire[t] = "request" /\ ~shut[EntryOf[t]] => client[EntryOf[t]]

SuspectLinkCanBeClosed ==
    \A t \in Task :
        pc[t] = "close" /\ err[t] = "unanswered" /\ ~shut[EntryOf[t]]
        => client[EntryOf[t]] \/ link # "suspect"

SessionInv == RequestsHaveAClient /\ SuspectLinkCanBeClosed
=============================================================================
