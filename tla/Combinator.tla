----------------------------- MODULE Combinator -----------------------------
(***************************************************************************)
(* What whenAny and whenAll promise to the coroutine that awaits them      *)
(* (intents/modules/when_any.intent.md and when_all.intent.md), without    *)
(* threads, frames, gates or cancellation: sub-tasks finish in some order, *)
(* and one result is delivered, once, unless the awaiting task is gone.    *)
(***************************************************************************)
EXTENDS Naturals, Sequences

CONSTANTS Ends     \* how a sub-task may end; one of them is "exc"

VARIABLES kind,       \* "any" or "all"
          size,       \* number of sub-tasks
          observed,   \* cancelling a sub-task may fail in an observer of its token
          finished,   \* records [kid, end] in the order of completion
          delivered,  \* the result, see Result
          abandoned   \* the awaiting task was destroyed

vars == <<kind, size, observed, finished, delivered, abandoned>>

Result(end, who, parts) == [end |-> end, who |-> who, parts |-> parts]
NoResult == Result("none", 0, <<>>)

EndOf(i) == LET k == CHOOSE k \in DOMAIN finished : finished[k].kid = i IN finished[k].end
Failed   == \E k \in DOMAIN finished : finished[k].end = "exc"

AnyResult(end, who) == IF end = "exc" THEN Result("exc", 0, <<>>) ELSE Result(end, who, <<>>)

\* whenAny hands over how the first sub-task ended, and which one it was, or its
\* exception; a failing observer of a loser turns success into failure.  whenAll hands over
\* all ends in the order of the arguments, or the failure.
Verdicts ==
  IF kind = "any"
  THEN {AnyResult(end, finished[1].kid) :
          end \in {finished[1].end} \cup (IF observed THEN {"exc"} ELSE {})}
  ELSE {IF Failed THEN Result("exc", 0, <<>>)
        ELSE Result("value", 0, [i \in 1..size |-> EndOf(i)])}

Init ==
  /\ kind \in {"any", "all"} /\ size \in Nat \ {0} /\ observed \in BOOLEAN
  /\ finished = <<>> /\ delivered = NoResult /\ abandoned = FALSE

Finish(i, end) ==
  /\ \A k \in DOMAIN finished : finished[k].kid # i
  /\ finished' = Append(finished, [kid |-> i, end |-> end])
  /\ UNCHANGED <<kind, size, observed, delivered, abandoned>>

Deliver ==
  /\ delivered = NoResult /\ ~abandoned
  /\ Len(finished) >= (IF kind = "any" THEN 1 ELSE size)
  /\ delivered' \in Verdicts
  /\ UNCHANGED <<kind, size, observed, finished, abandoned>>

Abandon ==
  /\ delivered = NoResult
  /\ abandoned' = TRUE
  /\ UNCHANGED <<kind, size, observed, finished, delivered>>

Next == (\E i \in 1..size, end \in Ends : Finish(i, end)) \/ Deliver \/ Abandon

Spec == Init /\ [][Next]_vars
=============================================================================
