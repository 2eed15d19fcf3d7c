----------------------------- MODULE ComputeNode -----------------------------
(***************************************************************************)
(* A compute node called by several goroutines at once.  Every method      *)
(* works on the three maps under the mutex; RunInference releases it       *)
(* before it runs the model on what it found.                              *)
(*                                                                         *)
(* Every access to a map is a step of its own, so nothing but the mutex    *)
(* keeps the calls apart.                                                  *)
(***************************************************************************)
EXTENDS Inference

CONSTANTS
    Goroutine,   \* the callers
    Calls,       \* what they may call: records with the field op
    Launch       \* the maps at first: the built-in factories, no model, no scene

ASSUME ComputeAssumption ==
    \A c \in Calls : c.op \in {"register", "capture", "deploy", "infer", "list"}

VARIABLES
    node,    \* the maps
    mu,      \* the mutex: {} or the goroutine that holds it
    pc,      \* where each goroutine is
    call,    \* its call
    local    \* its local variables

vars == <<node, mu, pc, call, local>>

Fresh == [model |-> {}, scene |-> {}, ok |-> TRUE, listed |-> {}]

Init ==
    /\ node = Launch
    /\ mu = {}
    /\ pc = [g \in Goroutine |-> "idle"]
    /\ call = [g \in Goroutine |-> [op |-> "none"]]
    /\ local = [g \in Goroutine |-> Fresh]

Goto(g, from, to) == pc[g] = from /\ pc' = [pc EXCEPT ![g] = to]

Assign(g, field, value) == local' = [local EXCEPT ![g][field] = value]

Invoke(g, c) ==
    /\ Goto(g, "idle", "lock")
    /\ call' = [call EXCEPT ![g] = c]
    /\ local' = [local EXCEPT ![g] = Fresh]
    /\ UNCHANGED <<node, mu>>

Lock(g) ==
    /\ Goto(g, "lock", call[g].op)
    /\ mu = {}
    /\ mu' = {g}
    /\ UNCHANGED <<node, call, local>>

\* The critical sections.
RegisterFactory(g) ==
    /\ Goto(g, "register", "unlock")
    /\ node' = Registered(node, call[g].kind, call[g].factory)
    /\ UNCHANGED <<mu, call, local>>

CaptureScene(g) ==
    /\ Goto(g, "capture", "unlock")
    /\ node' = Captured(node, call[g].input, call[g].scene)
    /\ UNCHANGED <<mu, call, local>>

\* Mutant: the error path does not unlock.
DeployFailsLocked(g) ==
    /\ Goto(g, "deploy", "return")
    /\ ~Deployable(node, call[g].upload)
    /\ Assign(g, "ok", FALSE)
    /\ UNCHANGED <<node, mu, call>>

DeployFails(g) ==
    /\ Goto(g, "deploy", "unlock")
    /\ ~Deployable(node, call[g].upload)
    /\ Assign(g, "ok", FALSE)
    /\ UNCHANGED <<node, mu, call>>

MakeModel(g) ==
    /\ Goto(g, "deploy", "store")
    /\ Deployable(node, call[g].upload)
    /\ Assign(g, "model", {Made(node, call[g].upload)})
    /\ UNCHANGED <<node, mu, call>>

StoreModel(g) ==
    /\ Goto(g, "store", "unlock")
    /\ \E m \in local[g].model :
         node' = [node EXCEPT !.models = Put(@, call[g].upload.model, m)]
    /\ UNCHANGED <<mu, call, local>>

\* Mutant: the two look-ups do not share a critical section.
FindModelAlone(g) ==
    /\ Goto(g, "infer", "find scene")
    /\ Assign(g, "model", Find(node.models, call[g].request.model))
    /\ mu' = {}
    /\ UNCHANGED <<node, call>>

FindModel(g) ==
    /\ Goto(g, "infer", "find scene")
    /\ Assign(g, "model", Find(node.models, call[g].request.model))
    /\ UNCHANGED <<node, mu, call>>

FindScene(g) ==
    /\ Goto(g, "find scene", "unlock")
    /\ Assign(g, "scene", Find(node.scenes, call[g].request.input))
    /\ UNCHANGED <<node, mu, call>>

DeployedModels(g) ==
    /\ Goto(g, "list", "unlock")
    /\ Assign(g, "listed", DOMAIN node.models)
    /\ UNCHANGED <<node, mu, call>>

Unlock(g) ==
    /\ Goto(g, "unlock", "return")
    /\ mu' = {}
    /\ UNCHANGED <<node, call, local>>

\* The return, of RunInference after it has run the model without the mutex.
Return(g) ==
    /\ Goto(g, "return", "idle")
    /\ UNCHANGED <<node, mu, call, local>>

Body(g) ==
    \/ RegisterFactory(g) \/ CaptureScene(g)
    \/ DeployFails(g) \/ MakeModel(g) \/ StoreModel(g)
    \/ FindModel(g) \/ FindScene(g) \/ DeployedModels(g)
    \/ Unlock(g) \/ Return(g)

Next == \E g \in Goroutine : (\E c \in Calls : Invoke(g, c)) \/ Lock(g) \/ Body(g)

Spec == Init /\ [][Next]_vars

\* A goroutine in a method keeps running, and a sync.Mutex is handed over to
\* whoever has waited long enough.
FairSpec ==
    /\ Spec
    /\ \A g \in Goroutine : WF_vars(Body(g)) /\ SF_vars(Lock(g))

-----------------------------------------------------------------------------
(***************************************************************************)
(* A call takes effect where it writes a map, or where it has read all it  *)
(* needs: when it has the mutex and is about to release it.                *)
(***************************************************************************)
Outcome(g) ==
    CASE call[g].op = "deploy" -> [ok |-> local[g].ok]
      [] call[g].op = "infer"  ->
           Answer(call[g].request, local[g].model, local[g].scene)
      [] call[g].op = "list"   -> [models |-> local[g].listed]
      [] OTHER                 -> [ok |-> TRUE]

Progress(g) ==
    CASE pc[g] = "idle" -> [stage |-> "idle"]
      [] pc[g] \in {"unlock", "return"} ->
           [stage |-> "took effect", call |-> call[g], returns |-> Outcome(g)]
      [] OTHER -> [stage |-> "invoked", call |-> call[g]]

Service == INSTANCE ComputeService WITH calls <- [g \in Goroutine |-> Progress(g)]

\* "ComputeNode is safe for concurrent use": calls that overlap are as good as
\* calls one after the other, and an inference never sees a model of before
\* another call and a scene of after it.
Linearizable == Service!Spec

\* No call waits for ever for the mutex, whatever the others do and however
\* their calls fail.
CallsReturn == \A g \in Goroutine : pc[g] = "lock" ~> pc[g] = "idle"
=============================================================================
