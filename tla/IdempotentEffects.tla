--------------------------- MODULE IdempotentEffects ---------------------------
(***************************************************************************)
(* What a client may rely on when it sends requests with an idempotency    *)
(* key: a key is good for one effect.  A request is refused, or answered   *)
(* with an effect made for it now, or - under a key - with the effect that *)
(* was made for the same request before.  There is no index of keys here   *)
(* and no numbering: CommerceSandbox, which has both, implements this      *)
(* specification once for refunds and once for confirmations.              *)
(***************************************************************************)
CONSTANTS Keys,        \* idempotency keys
          NoKey,       \* the request carries none
          NotAKey,     \* what it carries is no key
          Requests,    \* what can be asked for
          Ids,         \* identifiers of effects
          Nothing      \* a refusal, or no exchange yet

VARIABLES effects,     \* the effects in force
          exchange     \* the last request, its key and the effect it was answered with

Effects == [id : Ids, request : Requests, key : Keys \cup {NoKey}]

Init == effects = {} /\ exchange = Nothing

Made(k) == {e \in effects : e.key = k}

Answered(q, k, e) == exchange' = [request |-> q, key |-> k, answer |-> e]

\* A new effect, under an identifier that no effect in force has.
Perform(q, k) ==
  /\ k # NoKey => Made(k) = {}
  /\ \E e \in effects' :
        /\ e \in Effects /\ e.request = q /\ e.key = k
        /\ \A d \in effects : d.id # e.id
        /\ effects' = effects \cup {e}
        /\ Answered(q, k, e)

\* The effect made for this very request.
Replay(q, k) ==
  /\ k # NoKey
  /\ \E e \in Made(k) : e.request = q /\ Answered(q, k, e)
  /\ UNCHANGED effects

\* A request that was performed under its key is never refused when it comes again.
Refuse(q, k) ==
  /\ k # NoKey => \A e \in Made(k) : e.request # q
  /\ Answered(q, k, Nothing)
  /\ UNCHANGED effects

\* The service is asked for something else.
Other == exchange' = Nothing /\ UNCHANGED effects

\* The store is put back to its initial state.
Reset == effects' = {} /\ exchange' = Nothing

Next ==
  \/ \E q \in Requests, k \in Keys \cup {NoKey} : Perform(q, k) \/ Replay(q, k)
  \/ \E q \in Requests, k \in Keys \cup {NoKey, NotAKey} : Refuse(q, k)
  \/ Other
  \/ Reset

Spec == Init /\ [][Next]_<<effects, exchange>>
===============================================================================
