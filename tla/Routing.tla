------------------------------- MODULE Routing -------------------------------
(***************************************************************************)
(* What the executor makes of a request: the route it takes, the model and *)
(* the effort it asks for.  A body is a record of the fields that matter:  *)
(* json is FALSE for a multipart or empty one, whose fields are not looked *)
(* at, and effort stands for any of the fields an effort may come in.      *)
(***************************************************************************)
EXTENDS ProviderMatching

chatCompletionsEndpoint  == <<"/", "chat", "/", "completions">>
imageGenerationsEndpoint == <<"/", "images", "/", "generations">>
imageEditsEndpoint       == <<"/", "images", "/", "edits">>
knownUpstreamRoutes ==
  {chatCompletionsEndpoint, imageGenerationsEndpoint, imageEditsEndpoint}

Levels == {"none", "off", "low", "high"}   \* of those accepted as a suffix

TrimSlash(t) == IF t # <<>> /\ Last(t) = "/" THEN Front(t) ELSE t

modelNamespace(namespace, prefix) == TrimSlash(FirstText(namespace, prefix))

stripModelPrefix(model, prefix) ==
  LET p == Append(TrimSlash(prefix), "/")
  IN  IF TrimSlash(prefix) # <<>> /\ StartsWith(model, p)
      THEN SubSeq(model, Len(p) + 1, Len(model)) ELSE model

-----------------------------------------------------------------------------
(* Routes                                                                  *)

\* An inbound path is only ever looked up, with or without its version.
routeFromRequestPath(path) ==
  LET route == IF StartsWith(path, <<"/", "v1">>) THEN SubSeq(path, 3, Len(path)) ELSE path
  IN  IF route \in knownUpstreamRoutes THEN route ELSE <<>>

servesImageModel(spec, model) ==
  LET bare == stripModelPrefix(model, spec.prefix)
  IN  bare # <<>> /\ \E m \in spec.models : m.image /\ bare \in {m.name, m.alias}

\* Mutation: the format decides before the inbound path does.
upstreamEndpoint_FormatFirst(model, format, alt, path, spec) ==
  IF format = "image" \/ alt = "openai-image" THEN imageGenerationsEndpoint
  ELSE IF routeFromRequestPath(path) # <<>> THEN routeFromRequestPath(path)
  ELSE IF servesImageModel(spec, model) THEN imageGenerationsEndpoint
  ELSE chatCompletionsEndpoint

upstreamEndpoint(model, format, alt, path, spec) ==
  IF routeFromRequestPath(path) # <<>> THEN routeFromRequestPath(path)
  ELSE IF \/ format = "image" \/ alt = "openai-image"
          \/ servesImageModel(spec, model)
       THEN imageGenerationsEndpoint
  ELSE chatCompletionsEndpoint

\* A base URL is a host and a path, of which slashes at the end are dropped.
upstreamBaseURL(spec) == [spec.url EXCEPT !.path = TrimSlash(@)]

\* Mutation: the route is signed, not the path on the wire.
upstreamRequestURL_SignsRoute(base, endpoint) ==
  [url |-> [base EXCEPT !.path = @ \o endpoint], signed |-> endpoint]

\* The URL, and its path for the signature
upstreamRequestURL(base, endpoint) ==
  [url |-> [base EXCEPT !.path = @ \o endpoint], signed |-> base.path \o endpoint]

signedUpstreamPath(model, format, path, spec) ==
  upstreamRequestURL(upstreamBaseURL(spec),
                     upstreamEndpoint(model, format, "", path, spec)).signed

-----------------------------------------------------------------------------
(* Models and efforts                                                      *)

\* A level in parentheses at the end of a model is an effort, not a name.
normalizeThinkingModelName(model) ==
  LET n == Len(model)
      level == model[n - 1]
  IN  IF n > 3 /\ model[n] = ")" /\ model[n - 2] = "(" /\ level \in Levels
      THEN [model |-> SubSeq(model, 1, n - 3),
            effort |-> IF level = "off" THEN "none" ELSE level]
      ELSE [model |-> model, effort |-> ""]

\* A model with "image" in its name, or declared with image capability
isImageLaneModel(model, spec) ==
  LET bare == stripModelPrefix(model, spec.prefix)
  IN  bare # <<>> /\ (HasText(bare, <<"image">>) \/ servesImageModel(spec, bare))

stripPayloadModelPrefix(body, prefix) ==
  IF body.json /\ body.model # <<>> /\ prefix # <<>>
  THEN [body EXCEPT !.model = stripModelPrefix(@, prefix)] ELSE body

\* Mutation: the effort of the suffix replaces the one in the body.
rewritePayloadModelWithEffort_Overrides(body, prefix, fallback) ==
  LET named  == normalizeThinkingModelName(stripModelPrefix(body.model, prefix))
      effort == firstNonEmpty(fallback, named.effort)
  IN  IF ~ body.json THEN body
      ELSE [body EXCEPT !.model = named.model, !.effort = IF effort # "" THEN effort ELSE @]

\* An effort goes into the body only if none is there, under any name.
rewritePayloadModelWithEffort(body, prefix, fallback) ==
  LET named  == normalizeThinkingModelName(stripModelPrefix(body.model, prefix))
      effort == firstNonEmpty(fallback, named.effort)
  IN  IF ~ body.json THEN body
      ELSE [body EXCEPT !.model = named.model, !.effort = IF @ = "" THEN effort ELSE @]

\* Mutation: the image lane is not left alone.
normalizeExecutorModel_NoImageLane(model, body, effort, prefix, spec) ==
  LET named == normalizeThinkingModelName(stripModelPrefix(model, prefix))
  IN  [model |-> named.model,
       body  |-> rewritePayloadModelWithEffort(body, prefix,
                                               firstNonEmpty(named.effort, effort))]

\* Mutation: the suffix stays in the header's model.
normalizeExecutorModel_SuffixKept(model, body, effort, prefix, spec) ==
  LET bare  == stripModelPrefix(model, prefix)
      named == normalizeThinkingModelName(bare)
  IN  IF isImageLaneModel(bare, spec)
      THEN [model |-> bare, body |-> stripPayloadModelPrefix(body, prefix)]
      ELSE [model |-> bare,
            body  |-> rewritePayloadModelWithEffort(body, prefix,
                                                    firstNonEmpty(named.effort, effort))]

\* Model and body without their prefix and, unless it is image traffic, with
\* the effort of the suffix, or of the metadata, as a field of its own
normalizeExecutorModel(model, body, effort, prefix, spec) ==
  LET bare  == stripModelPrefix(model, prefix)
      named == normalizeThinkingModelName(bare)
  IN  IF isImageLaneModel(bare, spec)
      THEN [model |-> bare, body |-> stripPayloadModelPrefix(body, prefix)]
      ELSE [model |-> named.model,
            body  |-> rewritePayloadModelWithEffort(body, prefix,
                                                    firstNonEmpty(named.effort, effort))]

forceStreamingPayload(body) == IF body.json THEN [body EXCEPT !.stream = TRUE] ELSE body
=============================================================================
