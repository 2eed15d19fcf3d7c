--------------------------- MODULE ComputeService ---------------------------
(***************************************************************************)
(* What "ComputeNode is safe for concurrent use" promises: every call      *)
(* takes effect in one step between its invocation and its return, and     *)
(* what it returns is what the node held at that step.                     *)
(***************************************************************************)
EXTENDS Inference

CONSTANTS Goroutine, Calls

VARIABLES node, calls   \* the maps of the node; the call of each goroutine

Idle == [stage |-> "idle"]

Invoked(call) == [stage |-> "invoked", call |-> call]

Took(call, returns) == [stage |-> "took effect", call |-> call, returns |-> returns]

\* The node after a call, and the set of what it may return.
After(call) ==
    CASE call.op = "register" -> Registered(node, call.kind, call.factory)
      [] call.op = "capture"  -> Captured(node, call.input, call.scene)
      [] call.op = "deploy"   -> Deployed(node, call.upload)
      [] OTHER                -> node

Returned(call) ==
    CASE call.op = "deploy" -> [ok |-> Deployable(node, call.upload)]
      [] call.op = "infer"  -> RunInference(node, call.request)
      [] call.op = "list"   -> [models |-> DOMAIN node.models]
      [] OTHER              -> [ok |-> TRUE]

Invoke(g) ==
    /\ calls[g] = Idle
    /\ \E call \in Calls : calls' = [calls EXCEPT ![g] = Invoked(call)]
    /\ UNCHANGED node

TakeEffect(g) ==
    /\ calls[g].stage = "invoked"
    /\ node' = After(calls[g].call)
    /\ calls' = [calls EXCEPT ![g] = Took(@.call, Returned(@.call))]

Return(g) ==
    /\ calls[g].stage = "took effect"
    /\ calls' = [calls EXCEPT ![g] = Idle]
    /\ UNCHANGED node

Next == \E g \in Goroutine : Invoke(g) \/ TakeEffect(g) \/ Return(g)

CONSTANT Launch   \* the maps at first

Init == node = Launch /\ calls = [g \in Goroutine |-> Idle]

Spec == Init /\ [][Next]_<<node, calls>>
=============================================================================
