-------------------------- MODULE ComputeNode_proofs --------------------------
(***************************************************************************)
(* ComputeNode implements ComputeService, whatever is called by however    *)
(* many goroutines.  The mutex does it: the invariant says who is in a     *)
(* critical section, and that what a call has read of the maps there is    *)
(* what they still hold.                                                   *)
(***************************************************************************)
EXTENDS ComputeNode, TLAPS

Entries == {"register", "capture", "deploy", "infer", "list"}

Inside == Entries \cup {"store", "find scene", "unlock"}

Places == {"idle", "lock", "return"} \cup Inside

Whole(l) == l = [model |-> l.model, scene |-> l.scene, ok |-> l.ok, listed |-> l.listed]

Shape ==
    /\ pc \in [Goroutine -> Places]
    /\ call = [g \in Goroutine |-> call[g]]
    /\ local = [g \in Goroutine |-> local[g]]
    /\ \A g \in Goroutine : Whole(local[g])

Exclusion ==
    /\ \A g \in Goroutine : g \in mu <=> pc[g] \in Inside
    /\ \A g, h \in Goroutine : g \in mu /\ h \in mu => g = h

\* Each goroutine is in the method that it called.
OnItsWay(g) ==
    /\ pc[g] # "idle" => call[g].op \in Entries
    /\ pc[g] \in Entries => call[g].op = pc[g]
    /\ pc[g] = "store" => call[g].op = "deploy"
    /\ pc[g] = "find scene" => call[g].op = "infer"

\* What it has read so far.
UpToDate(g) ==
    /\ pc[g] \in {"lock", "deploy", "store"} => local[g].ok = TRUE
    /\ pc[g] = "store" =>
         /\ Deployable(node, call[g].upload)
         /\ local[g].model = {Made(node, call[g].upload)}
    /\ pc[g] = "find scene" => local[g].model = Find(node.models, call[g].request.model)

MutexInv ==
    /\ Shape
    /\ Exclusion
    /\ \A g \in Goroutine : OnItsWay(g) /\ UpToDate(g)

-----------------------------------------------------------------------------
\* A step of g moves g only.
MovesOnly(g) ==
    /\ pc' = [pc EXCEPT ![g] = pc'[g]]
    /\ call' = [call EXCEPT ![g] = call'[g]]
    /\ local' = [local EXCEPT ![g] = local'[g]]

LEMMA StepMovesOnly ==
    ASSUME Shape, NEW g \in Goroutine,
           (\E c \in Calls : Invoke(g, c)) \/ Lock(g) \/ Body(g)
    PROVE  MovesOnly(g)
<1> USE DEF Shape, MovesOnly, Goto, Assign
<1>1. ASSUME NEW c \in Calls, Invoke(g, c) PROVE MovesOnly(g)
  BY <1>1 DEF Invoke
<1>2. CASE Lock(g)
  BY <1>2 DEF Lock
<1>3. CASE Body(g)
  BY <1>3 DEF Body, RegisterFactory, CaptureScene, DeployFails, MakeModel, StoreModel,
              FindModel, FindScene, DeployedModels, Unlock, Return
<1> QED BY <1>1, <1>2, <1>3

\* Whoever does not hold the mutex leaves the maps alone, so what others have
\* read of them stays true.
LEMMA OthersUndisturbed ==
    ASSUME MutexInv, NEW g \in Goroutine, MovesOnly(g), node' = node \/ g \in mu,
           NEW h \in Goroutine, h # g
    PROVE  OnItsWay(h)' /\ UpToDate(h)'
<1>1. pc'[h] = pc[h] /\ call'[h] = call[h] /\ local'[h] = local[h]
  BY DEF MutexInv, Shape, MovesOnly
<1>2. OnItsWay(h) /\ UpToDate(h)
  BY DEF MutexInv
<1>3. OnItsWay(h)'
  BY <1>1, <1>2 DEF OnItsWay
<1>4. CASE node' = node
  <2>1. Find(node'.models, call'[h].request.model) = Find(node.models, call[h].request.model)
    BY <1>1, <1>4
  <2>2. /\ Deployable(node', call'[h].upload) <=> Deployable(node, call[h].upload)
        /\ Made(node', call'[h].upload) = Made(node, call[h].upload)
    BY <1>1, <1>4
  <2> QED BY <1>1, <1>2, <1>3, <2>1, <2>2 DEF UpToDate
<1>5. CASE g \in mu
  <2>1. pc[h] \notin Inside
    BY <1>5 DEF MutexInv, Exclusion
  <2>2. pc'[h] \notin {"deploy", "store", "find scene"}
    BY <1>1, <2>1 DEF Inside, Entries
  <2> QED BY <1>1, <1>2, <1>3, <2>2 DEF UpToDate
<1> QED BY <1>4, <1>5

\* So it is enough to look at the one that moves.
LEMMA RestOfInvariant ==
    ASSUME MutexInv, NEW g \in Goroutine, MovesOnly(g), node' = node \/ g \in mu,
           pc'[g] \in Places, Whole(local'[g]), Exclusion', OnItsWay(g)', UpToDate(g)'
    PROVE  MutexInv'
<1>1. Shape'
  BY DEF MutexInv, Shape, MovesOnly
<1>2. ASSUME NEW h \in Goroutine PROVE OnItsWay(h)' /\ UpToDate(h)'
  <2>1. CASE h = g
    BY <2>1
  <2>2. CASE h # g
    BY <2>2, OthersUndisturbed
  <2> QED BY <2>1, <2>2
<1> QED BY <1>1, <1>2 DEF MutexInv

\* The calls as ComputeService sees them.
Seen == [g \in Goroutine |-> Progress(g)]

LEMMA SeenMoves ==
    ASSUME Shape, NEW g \in Goroutine, MovesOnly(g)
    PROVE  Seen' = [Seen EXCEPT ![g] = Progress(g)']
<1>1. ASSUME NEW h \in Goroutine, h # g PROVE Progress(h)' = Progress(h)
  <2>1. pc'[h] = pc[h] /\ call'[h] = call[h] /\ local'[h] = local[h]
    BY <1>1 DEF Shape, MovesOnly
  <2> QED BY <2>1 DEF Progress, Outcome
<1> QED BY <1>1 DEF Seen

\* The mutex passes to nobody while its holder is in the method.
LEMMA StillExclusive ==
    ASSUME MutexInv, NEW g \in Goroutine, MovesOnly(g), mu' = mu,
           pc[g] \in Inside <=> pc'[g] \in Inside
    PROVE  Exclusion'
<1>1. \A h \in Goroutine : h # g => pc'[h] = pc[h]
  BY DEF MutexInv, Shape, MovesOnly
<1>2. \A h \in Goroutine : h \in mu' <=> pc'[h] \in Inside
  BY <1>1 DEF MutexInv, Exclusion
<1> QED BY <1>2 DEF MutexInv, Exclusion

-----------------------------------------------------------------------------
\* What is shown of each step: the invariant, and that the service takes the
\* step or does not see it.
Unseen == node' = node /\ Seen' = Seen

LEMMA InvokeStep ==
    ASSUME MutexInv, NEW g \in Goroutine, NEW c \in Calls, Invoke(g, c)
    PROVE  MutexInv' /\ Service!Invoke(g)
<1>1. MovesOnly(g)
  BY StepMovesOnly DEF MutexInv
<1>2. /\ pc[g] = "idle" /\ pc'[g] = "lock" /\ call'[g] = c /\ local'[g] = Fresh
      /\ mu' = mu /\ node' = node
  BY DEF Invoke, Goto, MutexInv, Shape
<1>3. MutexInv'
  <2>1. Exclusion'
    BY <1>1, <1>2, StillExclusive DEF Inside, Entries
  <2>2. OnItsWay(g)'
    BY <1>2, ComputeAssumption DEF OnItsWay, Entries
  <2>3. UpToDate(g)'
    BY <1>2 DEF UpToDate, Fresh
  <2> QED BY <1>1, <1>2, <2>1, <2>2, <2>3, RestOfInvariant DEF Whole, Fresh, Places
<1>4. Seen' = [Seen EXCEPT ![g] = Progress(g)']
  BY <1>1, SeenMoves DEF MutexInv
<1>5. Progress(g) = Service!Idle /\ Progress(g)' = Service!Invoked(c)
  BY <1>2 DEF Progress, Service!Idle, Service!Invoked
<1> QED BY <1>2, <1>3, <1>4, <1>5 DEF Service!Invoke, Seen

LEMMA LockStep ==
    ASSUME MutexInv, NEW g \in Goroutine, Lock(g)
    PROVE  MutexInv' /\ Unseen
<1>1. MovesOnly(g)
  BY StepMovesOnly DEF MutexInv
<1>2. /\ pc[g] = "lock" /\ pc'[g] = call[g].op /\ call'[g] = call[g]
      /\ local'[g] = local[g] /\ mu = {} /\ mu' = {g} /\ node' = node
  BY DEF Lock, Goto, MutexInv, Shape
<1>3. call[g].op \in Entries
  BY <1>2 DEF MutexInv, OnItsWay
<1>4. MutexInv'
  <2>1. Exclusion'
    BY <1>1, <1>2, <1>3 DEF MutexInv, Exclusion, Shape, MovesOnly, Inside
  <2>2. OnItsWay(g)'
    BY <1>2, <1>3 DEF OnItsWay, Entries
  <2>3. UpToDate(g)'
    BY <1>2, <1>3 DEF MutexInv, UpToDate, Entries
  <2> QED BY <1>1, <1>2, <1>3, <2>1, <2>2, <2>3, RestOfInvariant
          DEF Places, Inside, MutexInv, Shape
<1>5. Progress(g)' = Progress(g)
  BY <1>2, <1>3 DEF Progress, Entries
<1>6. Seen' = Seen
  BY <1>1, <1>5, SeenMoves DEF MutexInv, Seen
<1> QED BY <1>2, <1>4, <1>6 DEF Unseen

-----------------------------------------------------------------------------
(***************************************************************************)
(* In the critical sections.                                               *)
(***************************************************************************)
LEMMA EffectSeen ==
    ASSUME MutexInv, NEW g \in Goroutine, MovesOnly(g),
           pc[g] \in Inside \ {"unlock"}, pc'[g] = "unlock", call'[g] = call[g],
           node' = Service!After(call[g]), Outcome(g)' = Service!Returned(call[g])
    PROVE  Service!TakeEffect(g)
<1>1. Progress(g) = Service!Invoked(call[g])
  BY DEF Progress, Inside, Entries, Service!Invoked
<1>2. Progress(g)' = Service!Took(call[g], Service!Returned(call[g]))
  BY DEF Progress, Service!Took
<1>3. Seen' = [Seen EXCEPT ![g] = Progress(g)']
  BY SeenMoves DEF MutexInv
<1>4. Seen[g].stage = "invoked" /\ Seen[g].call = call[g]
  BY <1>1 DEF Seen, Service!Invoked
<1>5. Seen' = [Seen EXCEPT ![g] =
                 Service!Took(Seen[g].call, Service!Returned(Seen[g].call))]
  BY <1>2, <1>3, <1>4
<1>6. node' = Service!After(Seen[g].call)
  BY <1>4
<1> QED BY <1>4, <1>5, <1>6 DEF Service!TakeEffect, Seen

LEMMA UnseenInside ==
    ASSUME MutexInv, NEW g \in Goroutine, MovesOnly(g), node' = node,
           call'[g] = call[g],
           \/ pc[g] \in Inside \ {"unlock"} /\ pc'[g] \in Inside \ {"unlock"}
           \/ pc[g] = "unlock" /\ pc'[g] = "return" /\ local'[g] = local[g]
    PROVE  Unseen
<1>1. Progress(g)' = Progress(g)
  <2>1. CASE pc[g] \in Inside \ {"unlock"} /\ pc'[g] \in Inside \ {"unlock"}
    BY <2>1 DEF Progress, Inside, Entries
  <2>2. CASE pc[g] = "unlock" /\ pc'[g] = "return" /\ local'[g] = local[g]
    BY <2>2 DEF Progress, Outcome
  <2> QED BY <2>1, <2>2
<1>2. Seen' = [Seen EXCEPT ![g] = Progress(g)']
  BY SeenMoves DEF MutexInv
<1> QED BY <1>1, <1>2 DEF Unseen, Seen

\* The service changes its maps and answers with the same operators.
LEMMA SameOperators ==
    ASSUME NEW c
    PROVE  /\ c.op = "register" => /\ Service!After(c) = Registered(node, c.kind, c.factory)
                                   /\ Service!Returned(c) = [ok |-> TRUE]
           /\ c.op = "capture" => /\ Service!After(c) = Captured(node, c.input, c.scene)
                                  /\ Service!Returned(c) = [ok |-> TRUE]
           /\ c.op = "deploy" => /\ Service!After(c) = Deployed(node, c.upload)
                                 /\ Service!Returned(c) = [ok |-> Deployable(node, c.upload)]
           /\ c.op = "infer" => /\ Service!After(c) = node
                                /\ Service!Returned(c) = RunInference(node, c.request)
           /\ c.op = "list" => /\ Service!After(c) = node
                               /\ Service!Returned(c) = [models |-> DOMAIN node.models]
<1>1. ASSUME c.op = "register"
      PROVE  /\ Service!After(c) = Registered(node, c.kind, c.factory)
             /\ Service!Returned(c) = [ok |-> TRUE]
  BY <1>1 DEF Service!After, Service!Returned, Service!Registered, Registered,
              Service!Put, Put
<1>2. ASSUME c.op = "capture"
      PROVE  /\ Service!After(c) = Captured(node, c.input, c.scene)
             /\ Service!Returned(c) = [ok |-> TRUE]
  BY <1>2 DEF Service!After, Service!Returned, Service!Captured, Captured,
              Service!Put, Put
<1>3. ASSUME c.op = "deploy"
      PROVE  /\ Service!After(c) = Deployed(node, c.upload)
             /\ Service!Returned(c) = [ok |-> Deployable(node, c.upload)]
  BY <1>3 DEF Service!After, Service!Returned, Service!Deployed, Deployed,
              Service!Deployable, Deployable, Service!Made, Made, Service!Put, Put
<1>4. ASSUME c.op = "infer"
      PROVE  /\ Service!After(c) = node
             /\ Service!Returned(c) = RunInference(node, c.request)
  <2>1. ASSUME NEW models, NEW scenes
        PROVE  Service!Answer(c.request, models, scenes) = Answer(c.request, models, scenes)
    <3>1. Service!Replies(c.request, models, scenes) = Replies(c.request, models, scenes)
      BY DEF Service!Replies, Replies, Service!ReplyTo, ReplyTo
    <3> QED BY <3>1 DEF Service!Answer, Answer
  <2>2. Service!RunInference(node, c.request) = RunInference(node, c.request)
    BY <2>1 DEF Service!RunInference, RunInference, Service!Find, Find
  <2> QED BY <1>4, <2>2 DEF Service!After, Service!Returned
<1>5. ASSUME c.op = "list"
      PROVE  /\ Service!After(c) = node
             /\ Service!Returned(c) = [models |-> DOMAIN node.models]
  BY <1>5 DEF Service!After, Service!Returned
<1> QED BY <1>1, <1>2, <1>3, <1>4, <1>5

\* What every step inside keeps: the mutex, and the call itself.
LEMMA StepInside ==
    ASSUME MutexInv, NEW g \in Goroutine, MovesOnly(g), mu' = mu, call'[g] = call[g],
           pc[g] \in Inside, pc'[g] \in Inside \ Entries, Whole(local'[g]),
           pc'[g] = "store" => call[g].op = "deploy",
           pc'[g] = "find scene" => call[g].op = "infer",
           UpToDate(g)'
    PROVE  MutexInv'
<1>1. Exclusion'
  BY StillExclusive
<1>2. OnItsWay(g)'
  BY DEF OnItsWay, MutexInv, Inside, Entries
<1>3. g \in mu
  BY DEF MutexInv, Exclusion
<1> QED BY <1>1, <1>2, <1>3, RestOfInvariant DEF Places

LEMMA UnlockingIsUpToDate ==
    ASSUME NEW g \in Goroutine, pc'[g] = "unlock"
    PROVE  UpToDate(g)'
BY DEF UpToDate

LEMMA RegisterFactoryStep ==
    ASSUME MutexInv, NEW g \in Goroutine, RegisterFactory(g)
    PROVE  MutexInv' /\ Service!TakeEffect(g)
<1>1. MovesOnly(g)
  BY StepMovesOnly DEF MutexInv, Body
<1>2. /\ pc[g] = "register" /\ pc'[g] = "unlock" /\ mu' = mu
      /\ call'[g] = call[g] /\ local'[g] = local[g]
      /\ node' = Registered(node, call[g].kind, call[g].factory)
  BY DEF RegisterFactory, Goto, MutexInv, Shape
<1>3. call[g].op = "register"
  BY <1>2 DEF MutexInv, OnItsWay, Entries
<1>4. MutexInv'
  BY <1>1, <1>2, StepInside, UnlockingIsUpToDate DEF Inside, Entries, MutexInv, Shape
<1>5. Outcome(g)' = [ok |-> TRUE]
  BY <1>2, <1>3 DEF Outcome
<1> QED BY <1>1, <1>2, <1>3, <1>4, <1>5, EffectSeen, SameOperators DEF Inside, Entries

LEMMA CaptureSceneStep ==
    ASSUME MutexInv, NEW g \in Goroutine, CaptureScene(g)
    PROVE  MutexInv' /\ Service!TakeEffect(g)
<1>1. MovesOnly(g)
  BY StepMovesOnly DEF MutexInv, Body
<1>2. /\ pc[g] = "capture" /\ pc'[g] = "unlock" /\ mu' = mu
      /\ call'[g] = call[g] /\ local'[g] = local[g]
      /\ node' = Captured(node, call[g].input, call[g].scene)
  BY DEF CaptureScene, Goto, MutexInv, Shape
<1>3. call[g].op = "capture"
  BY <1>2 DEF MutexInv, OnItsWay, Entries
<1>4. MutexInv'
  BY <1>1, <1>2, StepInside, UnlockingIsUpToDate DEF Inside, Entries, MutexInv, Shape
<1>5. Outcome(g)' = [ok |-> TRUE]
  BY <1>2, <1>3 DEF Outcome
<1> QED BY <1>1, <1>2, <1>3, <1>4, <1>5, EffectSeen, SameOperators DEF Inside, Entries

LEMMA DeployFailsStep ==
    ASSUME MutexInv, NEW g \in Goroutine, DeployFails(g)
    PROVE  MutexInv' /\ Service!TakeEffect(g)
<1>1. MovesOnly(g)
  BY StepMovesOnly DEF MutexInv, Body
<1>2. /\ pc[g] = "deploy" /\ pc'[g] = "unlock" /\ mu' = mu /\ node' = node
      /\ call'[g] = call[g] /\ local'[g] = [local[g] EXCEPT !.ok = FALSE]
      /\ ~Deployable(node, call[g].upload)
  BY DEF DeployFails, Goto, Assign, MutexInv, Shape
<1>3. call[g].op = "deploy"
  BY <1>2 DEF MutexInv, OnItsWay, Entries
<1>4. Whole(local'[g]) /\ local'[g].ok = FALSE
  BY <1>2 DEF MutexInv, Shape, Whole
<1>5. MutexInv'
  BY <1>1, <1>2, <1>4, StepInside, UnlockingIsUpToDate DEF Inside, Entries
<1>6. Outcome(g)' = [ok |-> FALSE]
  BY <1>2, <1>3, <1>4 DEF Outcome
<1>7. Deployed(node, call[g].upload) = node
  BY <1>2 DEF Deployed
<1>8. Deployable(node, call[g].upload) = FALSE
  BY <1>2 DEF Deployable
<1>9. Service!Returned(call[g]) = [ok |-> Deployable(node, call[g].upload)]
  BY <1>3, SameOperators
<1>10. Service!Returned(call[g]) = [ok |-> FALSE]
  BY <1>8, <1>9, Zenon
<1>11. Service!After(call[g]) = node
  BY <1>3, <1>7, SameOperators
<1> QED BY <1>1, <1>2, <1>5, <1>6, <1>10, <1>11, EffectSeen DEF Inside, Entries

LEMMA MakeModelStep ==
    ASSUME MutexInv, NEW g \in Goroutine, MakeModel(g)
    PROVE  MutexInv' /\ Unseen
<1>1. MovesOnly(g)
  BY StepMovesOnly DEF MutexInv, Body
<1>2. /\ pc[g] = "deploy" /\ pc'[g] = "store" /\ mu' = mu /\ node' = node
      /\ call'[g] = call[g]
      /\ local'[g] = [local[g] EXCEPT !.model = {Made(node, call[g].upload)}]
      /\ Deployable(node, call[g].upload)
  BY DEF MakeModel, Goto, Assign, MutexInv, Shape
<1>3. call[g].op = "deploy"
  BY <1>2 DEF MutexInv, OnItsWay, Entries
<1>4. /\ Whole(local'[g]) /\ local'[g].model = {Made(node, call[g].upload)}
      /\ local'[g].ok = local[g].ok
  BY <1>2 DEF MutexInv, Shape, Whole
<1>5. local[g].ok = TRUE
  BY <1>2 DEF MutexInv, UpToDate
<1>6. UpToDate(g)'
  BY <1>2, <1>4, <1>5 DEF UpToDate
<1>7. MutexInv'
  BY <1>1, <1>2, <1>3, <1>4, <1>6, StepInside DEF Inside, Entries
<1> QED BY <1>1, <1>2, <1>7, UnseenInside DEF Inside, Entries

LEMMA StoreModelStep ==
    ASSUME MutexInv, NEW g \in Goroutine, StoreModel(g)
    PROVE  MutexInv' /\ Service!TakeEffect(g)
<1>1. MovesOnly(g)
  BY StepMovesOnly DEF MutexInv, Body
<1>2. /\ pc[g] = "store" /\ pc'[g] = "unlock" /\ mu' = mu
      /\ call'[g] = call[g] /\ local'[g] = local[g]
      /\ \E m \in local[g].model :
           node' = [node EXCEPT !.models = Put(@, call[g].upload.model, m)]
  BY DEF StoreModel, Goto, MutexInv, Shape
<1>3. /\ call[g].op = "deploy" /\ local[g].ok = TRUE
      /\ Deployable(node, call[g].upload)
      /\ local[g].model = {Made(node, call[g].upload)}
  BY <1>2 DEF MutexInv, OnItsWay, UpToDate
<1>4. MutexInv'
  BY <1>1, <1>2, StepInside, UnlockingIsUpToDate DEF Inside, Entries, MutexInv, Shape
<1>5. Outcome(g)' = [ok |-> TRUE]
  BY <1>2, <1>3 DEF Outcome
<1>6. node' = Deployed(node, call[g].upload)
  BY <1>2, <1>3 DEF Deployed
<1>7. Deployable(node, call[g].upload) = TRUE
  BY <1>3 DEF Deployable
<1>8. Service!Returned(call[g]) = [ok |-> Deployable(node, call[g].upload)]
  BY <1>3, SameOperators
<1>9. Service!Returned(call[g]) = [ok |-> TRUE]
  BY <1>7, <1>8, Zenon
<1>10. Service!After(call[g]) = node'
  BY <1>3, <1>6, SameOperators
<1> QED BY <1>1, <1>2, <1>4, <1>5, <1>9, <1>10, EffectSeen DEF Inside, Entries

LEMMA FindModelStep ==
    ASSUME MutexInv, NEW g \in Goroutine, FindModel(g)
    PROVE  MutexInv' /\ Unseen
<1>1. MovesOnly(g)
  BY StepMovesOnly DEF MutexInv, Body
<1>2. /\ pc[g] = "infer" /\ pc'[g] = "find scene" /\ mu' = mu /\ node' = node
      /\ call'[g] = call[g]
      /\ local'[g] = [local[g] EXCEPT !.model = Find(node.models, call[g].request.model)]
  BY DEF FindModel, Goto, Assign, MutexInv, Shape
<1>3. call[g].op = "infer"
  BY <1>2 DEF MutexInv, OnItsWay, Entries
<1>4. /\ Whole(local'[g])
      /\ local'[g].model = Find(node.models, call[g].request.model)
  BY <1>2 DEF MutexInv, Shape, Whole
<1>5. UpToDate(g)'
  BY <1>2, <1>4 DEF UpToDate
<1>6. MutexInv'
  BY <1>1, <1>2, <1>3, <1>4, <1>5, StepInside DEF Inside, Entries
<1> QED BY <1>1, <1>2, <1>6, UnseenInside DEF Inside, Entries

LEMMA FindSceneStep ==
    ASSUME MutexInv, NEW g \in Goroutine, FindScene(g)
    PROVE  MutexInv' /\ Service!TakeEffect(g)
<1>1. MovesOnly(g)
  BY StepMovesOnly DEF MutexInv, Body
<1>2. /\ pc[g] = "find scene" /\ pc'[g] = "unlock" /\ mu' = mu /\ node' = node
      /\ call'[g] = call[g]
      /\ local'[g] = [local[g] EXCEPT !.scene = Find(node.scenes, call[g].request.input)]
  BY DEF FindScene, Goto, Assign, MutexInv, Shape
<1>3. /\ call[g].op = "infer"
      /\ local[g].model = Find(node.models, call[g].request.model)
  BY <1>2 DEF MutexInv, OnItsWay, UpToDate
<1>4. /\ Whole(local'[g]) /\ local'[g].model = local[g].model
      /\ local'[g].scene = Find(node.scenes, call[g].request.input)
  BY <1>2 DEF MutexInv, Shape, Whole
<1>5. MutexInv'
  BY <1>1, <1>2, <1>4, StepInside, UnlockingIsUpToDate DEF Inside, Entries
<1>6. Outcome(g)' = RunInference(node, call[g].request)
  BY <1>2, <1>3, <1>4 DEF Outcome, RunInference
<1> QED BY <1>1, <1>2, <1>3, <1>5, <1>6, EffectSeen, SameOperators DEF Inside, Entries

LEMMA DeployedModelsStep ==
    ASSUME MutexInv, NEW g \in Goroutine, DeployedModels(g)
    PROVE  MutexInv' /\ Service!TakeEffect(g)
<1>1. MovesOnly(g)
  BY StepMovesOnly DEF MutexInv, Body
<1>2. /\ pc[g] = "list" /\ pc'[g] = "unlock" /\ mu' = mu /\ node' = node
      /\ call'[g] = call[g]
      /\ local'[g] = [local[g] EXCEPT !.listed = DOMAIN node.models]
  BY DEF DeployedModels, Goto, Assign, MutexInv, Shape
<1>3. call[g].op = "list"
  BY <1>2 DEF MutexInv, OnItsWay, Entries
<1>4. Whole(local'[g]) /\ local'[g].listed = DOMAIN node.models
  BY <1>2 DEF MutexInv, Shape, Whole
<1>5. MutexInv'
  BY <1>1, <1>2, <1>4, StepInside, UnlockingIsUpToDate DEF Inside, Entries
<1>6. Outcome(g)' = [models |-> DOMAIN node.models]
  BY <1>2, <1>3, <1>4 DEF Outcome
<1> QED BY <1>1, <1>2, <1>3, <1>5, <1>6, EffectSeen, SameOperators DEF Inside, Entries

-----------------------------------------------------------------------------
LEMMA UnlockStep ==
    ASSUME MutexInv, NEW g \in Goroutine, Unlock(g)
    PROVE  MutexInv' /\ Unseen
<1>1. MovesOnly(g)
  BY StepMovesOnly DEF MutexInv, Body
<1>2. /\ pc[g] = "unlock" /\ pc'[g] = "return" /\ mu' = {} /\ node' = node
      /\ call'[g] = call[g] /\ local'[g] = local[g]
  BY DEF Unlock, Goto, MutexInv, Shape
<1>3. Exclusion'
  <2>1. ASSUME NEW h \in Goroutine PROVE pc'[h] \notin Inside
    <3>1. CASE h = g
      BY <1>2, <3>1 DEF Inside, Entries
    <3>2. CASE h # g
      <4>1. g \in mu /\ h \notin mu
        BY <1>2, <3>2 DEF MutexInv, Exclusion, Inside
      <4>2. pc'[h] = pc[h]
        BY <1>1, <3>2 DEF MovesOnly, MutexInv, Shape
      <4> QED BY <4>1, <4>2 DEF MutexInv, Exclusion
    <3> QED BY <3>1, <3>2
  <2> QED BY <1>2, <2>1 DEF Exclusion
<1>4. OnItsWay(g)' /\ UpToDate(g)'
  BY <1>2 DEF OnItsWay, UpToDate, MutexInv, Entries
<1>5. MutexInv'
  BY <1>1, <1>2, <1>3, <1>4, RestOfInvariant DEF Places, MutexInv, Shape
<1> QED BY <1>1, <1>2, <1>5, UnseenInside

LEMMA ReturnStep ==
    ASSUME MutexInv, NEW g \in Goroutine, Return(g)
    PROVE  MutexInv' /\ Service!Return(g)
<1>1. MovesOnly(g)
  BY StepMovesOnly DEF MutexInv, Body
<1>2. /\ pc[g] = "return" /\ pc'[g] = "idle" /\ mu' = mu /\ node' = node
      /\ call'[g] = call[g] /\ local'[g] = local[g]
  BY DEF Return, Goto, MutexInv, Shape
<1>3. OnItsWay(g)' /\ UpToDate(g)'
  BY <1>2 DEF OnItsWay, UpToDate, Entries
<1>4. Exclusion'
  BY <1>1, <1>2, StillExclusive DEF Inside, Entries
<1>5. MutexInv'
  BY <1>1, <1>2, <1>3, <1>4, RestOfInvariant DEF Places, MutexInv, Shape
<1>6. Seen' = [Seen EXCEPT ![g] = Progress(g)']
  BY <1>1, SeenMoves DEF MutexInv
<1>7. Progress(g)' = Service!Idle
  BY <1>2 DEF Progress, Service!Idle
<1>8. Seen[g].stage = "took effect"
  BY <1>2 DEF Seen, Progress
<1> QED BY <1>2, <1>5, <1>6, <1>7, <1>8 DEF Service!Return, Seen

-----------------------------------------------------------------------------
LEMMA InitMutexInv == Init => MutexInv /\ Service!Init
<1> SUFFICES ASSUME Init PROVE MutexInv /\ Service!Init
  OBVIOUS
<1>1. MutexInv
  BY DEF Init, MutexInv, Shape, Exclusion, OnItsWay, UpToDate, Whole, Fresh,
         Places, Inside, Entries
<1>2. \A g \in Goroutine : Progress(g) = Service!Idle
  BY DEF Init, Progress, Service!Idle
<1> QED BY <1>1, <1>2 DEF Init, Service!Init

LEMMA NextMutexInv ==
    ASSUME MutexInv, [Next]_vars
    PROVE  MutexInv' /\ [Service!Next]_<<node, Seen>>
<1>1. ASSUME NEW g \in Goroutine, NEW c \in Calls, Invoke(g, c)
      PROVE  MutexInv' /\ Service!Next
  BY <1>1, InvokeStep DEF Service!Next
<1>2. ASSUME NEW g \in Goroutine, Lock(g) PROVE MutexInv' /\ Unseen
  BY <1>2, LockStep
<1>3. ASSUME NEW g \in Goroutine, Body(g)
      PROVE  MutexInv' /\ (Service!Next \/ Unseen)
  <2>1. CASE RegisterFactory(g)
    BY <2>1, RegisterFactoryStep DEF Service!Next
  <2>2. CASE CaptureScene(g)
    BY <2>2, CaptureSceneStep DEF Service!Next
  <2>3. CASE DeployFails(g)
    BY <2>3, DeployFailsStep DEF Service!Next
  <2>4. CASE MakeModel(g)
    BY <2>4, MakeModelStep
  <2>5. CASE StoreModel(g)
    BY <2>5, StoreModelStep DEF Service!Next
  <2>6. CASE FindModel(g)
    BY <2>6, FindModelStep
  <2>7. CASE FindScene(g)
    BY <2>7, FindSceneStep DEF Service!Next
  <2>8. CASE DeployedModels(g)
    BY <2>8, DeployedModelsStep DEF Service!Next
  <2>9. CASE Unlock(g)
    BY <2>9, UnlockStep
  <2>10. CASE Return(g)
    BY <2>10, ReturnStep DEF Service!Next
  <2> QED BY <1>3, <2>1, <2>2, <2>3, <2>4, <2>5, <2>6, <2>7, <2>8, <2>9, <2>10 DEF Body
<1>4. CASE UNCHANGED vars
  <2>1. \A g \in Goroutine : Progress(g)' = Progress(g)
    BY <1>4 DEF vars, Progress, Outcome
  <2>2. Seen' = Seen
    BY <2>1 DEF Seen
  <2>3. MutexInv'
    BY <1>4 DEF vars, MutexInv, Shape, Exclusion, OnItsWay, UpToDate, Whole
  <2> QED BY <1>4, <2>2, <2>3 DEF vars
<1> QED BY <1>1, <1>2, <1>3, <1>4 DEF Next, Unseen

\* computenode.go, "ComputeNode is safe for concurrent use": however many
\* goroutines call whatever they like, every call is as good as one atomic
\* call between its invocation and its return.
THEOREM CallsAreAtomic == Spec => Linearizable
<1>1. [Service!Next]_<<node, Seen>> <=> [Service!Next]_<<node, [g \in Goroutine |-> Progress(g)]>>
  BY DEF Seen
<1>2. MutexInv /\ [Next]_vars
        => MutexInv' /\ [Service!Next]_<<node, [g \in Goroutine |-> Progress(g)]>>
  BY <1>1, NextMutexInv
<1>3. Spec => Service!Spec
  BY <1>2, InitMutexInv, PTL DEF Spec, Service!Spec
<1> QED BY <1>3 DEF Linearizable
=============================================================================
