------------------------------ MODULE Inference ------------------------------
(***************************************************************************)
(* What a satellite compute node of package spaceaibridge computes, as     *)
(* operators on the record of its maps.  ComputeNode runs them under the   *)
(* mutex of the code; Bridge runs them as the handler of a mesh node.      *)
(*                                                                         *)
(* A deployed model is the factory that made it and its parameters, and a  *)
(* result is the model and the scene it was computed from: nothing else    *)
(* that Infer returns is told apart.                                       *)
(***************************************************************************)
EXTENDS Maps

CONSTANTS
    ModelID, SceneID, RequestID,  \* names chosen by the clients
    Kind,          \* model kinds, the keys of the factories
    Factory,       \* model factories
    Params,        \* what a factory may be given
    Refused,       \* pairs <<factory, params>> that the factory has an error for
    Scene,         \* raw scenes
    Unusable       \* the scenes that Infer has an error for: the empty one

ASSUME InferenceAssumption ==
    Refused \subseteq Factory \X Params /\ Unusable \subseteq Scene

Model == [factory : Factory, params : Params]

ModelUpload == [type : {"upload"}, model : ModelID, kind : Kind, params : Params]

InferenceRequest ==
    [type : {"request"}, request : RequestID, model : ModelID, input : SceneID]

Result == {<<>>} \cup (Model \X Scene)

Summary == {"not deployed", "not available", "failed", "done"}

InferenceResponse ==
    [type : {"response"}, request : RequestID, model : ModelID, ok : BOOLEAN,
     result : Result, summary : Summary]

\* A payload that Decode has an error for.
Undecodable == [type : {"undecodable"}]

Message == ModelUpload \cup InferenceRequest \cup InferenceResponse \cup Undecodable

-----------------------------------------------------------------------------
Registered(node, kind, factory) ==
    [node EXCEPT !.factories = Put(@, kind, factory)]

Captured(node, input, scene) == [node EXCEPT !.scenes = Put(@, input, scene)]

\* Deploy makes a model only of a registered kind and of parameters that the
\* factory takes; otherwise nothing changes.
Deployable(node, up) ==
    /\ up.kind \in DOMAIN node.factories
    /\ <<node.factories[up.kind], up.params>> \notin Refused

Made(node, up) == [factory |-> node.factories[up.kind], params |-> up.params]

\* Mutant: a model that is there already is not replaced.
DeployedOnce(node, up) ==
    IF Deployable(node, up) /\ up.model \notin DOMAIN node.models
    THEN [node EXCEPT !.models = Put(@, up.model, Made(node, up))]
    ELSE node

Deployed(node, up) ==
    IF Deployable(node, up)
    THEN [node EXCEPT !.models = Put(@, up.model, Made(node, up))]
    ELSE node

\* The two look-ups of RunInference; a set stands for the value and its ok.
Find(map, key) == {map[k] : k \in DOMAIN map \cap {key}}

ReplyTo(req, ok, result, summary) ==
    [type |-> "response", request |-> req.request, model |-> req.model,
     ok |-> ok, result |-> result, summary |-> summary]

\* The answer to what was found, the only member of a set.
Replies(req, models, scenes) ==
    IF models = {} THEN {ReplyTo(req, FALSE, <<>>, "not deployed")}
    ELSE IF scenes = {} THEN {ReplyTo(req, FALSE, <<>>, "not available")}
    ELSE IF scenes \subseteq Unusable THEN {ReplyTo(req, FALSE, <<>>, "failed")}
    ELSE {ReplyTo(req, TRUE, found, "done") : found \in models \X scenes}

Answer(req, models, scenes) == CHOOSE r \in Replies(req, models, scenes) : TRUE

RunInference(node, req) ==
    Answer(req, Find(node.models, req.model), Find(node.scenes, req.input))

\* Handle: the node after a message, and the messages it replies with.
HandleMessage(node, msg) ==
    [node |-> IF msg.type = "upload" THEN Deployed(node, msg) ELSE node,
     reply |-> IF msg.type = "request" THEN {RunInference(node, msg)} ELSE {}]
=============================================================================
