---------------------------- MODULE MCComputeNode ----------------------------
(***************************************************************************)
(* Goroutines that deploy, replace factories, capture scenes and infer on  *)
(* one model and one scene.                                                *)
(***************************************************************************)
EXTENDS ComputeNode

CONSTANTS m1, s1, r1, stats, mask, builtin, custom, low, high, bright, empty

MCLaunch == [factories |-> Put(EmptyMap, stats, builtin), models |-> EmptyMap,
             scenes |-> EmptyMap]

MCRefused == {<<custom, high>>}

Upload(kind, params) ==
    [type |-> "upload", model |-> m1, kind |-> kind, params |-> params]

MCCalls == {
    [op |-> "register", kind |-> stats, factory |-> custom],
    [op |-> "capture", input |-> s1, scene |-> bright],
    [op |-> "capture", input |-> s1, scene |-> empty],
    [op |-> "deploy", upload |-> Upload(stats, low)],
    [op |-> "deploy", upload |-> Upload(stats, high)],
    [op |-> "deploy", upload |-> Upload(mask, low)],
    [op |-> "infer", request |-> [type |-> "request", request |-> r1,
                                  model |-> m1, input |-> s1]],
    [op |-> "list"]}
=============================================================================
