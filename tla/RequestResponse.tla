-------------------------- MODULE RequestResponse --------------------------
(***************************************************************************)
(* What an HTTP connection promises the two programs at its ends: the     *)
(* handler of the server runs at most once for a request, in the order of *)
(* the requests; each callback of the client is called at most once, and  *)
(* with code ok only after the handler ran for its request.               *)
(***************************************************************************)
EXTENDS Naturals, Sequences

VARIABLES issued,   \* how many requests the client's program made
          handled,  \* the requests the server's handler was called with
          results   \* what the callbacks were called with: a function from
                    \* the requests that are over to TRUE (ok) or FALSE

vars == <<issued, handled, results>>

Init ==
    /\ issued = 0
    /\ handled = <<>>
    /\ results = <<>>

\* A request may be handled after the client gave up waiting for it.
Handle ==
    /\ \E q \in 1 .. issued :
         /\ \A i \in DOMAIN handled : handled[i] < q
         /\ handled' = Append(handled, q)
    /\ UNCHANGED <<issued, results>>

\* The client's program makes requests and is called back, perhaps several
\* times in one step: a callback may make the next request.
CallAndCallBack ==
    /\ issued' \in Nat /\ issued' >= issued
    /\ DOMAIN results \subseteq DOMAIN results'
    /\ DOMAIN results' \subseteq 1 .. issued'
    /\ \A q \in DOMAIN results : results'[q] = results[q]
    /\ \A q \in DOMAIN results' \ DOMAIN results :
         results'[q] => \E i \in DOMAIN handled : handled[i] = q
    /\ UNCHANGED handled

Next == Handle \/ CallAndCallBack

Spec == Init /\ [][Next]_vars
=============================================================================
