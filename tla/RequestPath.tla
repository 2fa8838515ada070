----------------------------- MODULE RequestPath -----------------------------
(***************************************************************************)
(* One request at a time on its way through the plugin: the interceptor    *)
(* decides whether it is the plugin's and who sent it, CPA hands it to the *)
(* executor, and the executor sends it upstream.  Each of them reads the   *)
(* configuration piece by piece, while lifecycle calls apply another one   *)
(* and scans of the providers rebuild the records that tie a model to its  *)
(* provider.  (How one configuration is applied is ConfigLifecycle; what   *)
(* follows the start of a stream is ExecuteStream.)                        *)
(***************************************************************************)
EXTENDS Identity

CONSTANTS
  Configs,    \* configurations, each the plugin's settings and provider blocks
  Requests,   \* what clients send
  Catalog     \* the models of the cached catalogue

VARIABLES
  config,     \* what was applied last: pluginSettings and pluginConfigYAML
  cache,      \* providerSpecCache, None when found is false
  records,    \* matchedRecords: for every prefix the first record of the list
  pc,         \* where the request is
  req,        \* what the client sent, None between requests
  held,       \* the settings the interceptor read
  candidate,  \* what the interceptor knows of the provider
  injected,   \* the identity and signature it answers with, None for neither
  call,       \* the executor's request
  spec,       \* the provider the executor resolved
  sent,       \* the request that went upstream
  outcome     \* the answer to CPA, and the usage it was recorded with

conf  == <<config, cache, records>>
inter == <<held, candidate, injected>>
exec  == <<call, spec, sent>>
vars  == <<config, cache, records, pc, req, held, candidate, injected, call, spec,
           sent, outcome>>

PCs == {"idle", "arrived", "matching", "signing", "selected", "resolving", "normalizing",
        "identifying", "building", "sent", "answered"}

NoSpec == [prefix |-> <<>>, models |-> {}, url |-> [host |-> <<>>, path |-> <<>>]]

Blocks == UNION {ToSet(c.blocks) : c \in Configs}

IsText(t) == t \in Seq(ToSet(t))

\* The texts globs are matched with, and the globs of a configuration
Globs(s) == ({s.matchName, s.matchUrl} \cup s.matchProviders \cup s.matchModels) \ {<<>>}
Texts(q) == ({q.model} \cup UNION {{b.name, b.prefix, b.url.host \o b.url.path} : b \in Blocks})
              \ {<<>>}

\* Blocks and keys are lists, names and paths are texts, a base URL is a host
\* and a path, headers have every name that is looked for ("" for one that was
\* not sent) and a JSON body says what model and effort it asks for.  A model
\* is more than an effort: no slash comes right before one.
ASSUME RequestAssumption ==
  /\ \A c \in Configs : /\ c.blocks \in Seq(ToSet(c.blocks))
                        /\ IsText(c.settings.namespace) /\ \A p \in Globs(c.settings) : IsText(p)
  /\ \A b \in Blocks : /\ b.keys \in Seq(ToSet(b.keys)) /\ DOMAIN b.url = {"host", "path"}
                       /\ b.url.path \in Seq(ToSet(b.url.path)) /\ IsText(b.prefix)
  /\ \A q \in Requests :
       /\ Fields \cup {"device", "principal", "stamp", "provider"} \subseteq DOMAIN q.headers
       /\ IsText(q.model) /\ IsText(q.authPrefix) /\ \A t \in Texts(q) : IsText(t)
       /\ q.body.json => {"json", "model", "effort"} \subseteq DOMAIN q.body
       /\ normalizeThinkingModelName(q.model).effort # "" => q.model[Len(q.model) - 3] # "/"

TypeOK ==
  /\ config \in Configs /\ pc \in PCs
  /\ cache \in {SpecOf(b, Catalog) : b \in Blocks} \cup {None}
  /\ DOMAIN records \subseteq {b.prefix : b \in Blocks}
  /\ \A p \in DOMAIN records : records[p].prefix = p
  /\ IF pc = "idle" THEN req = None ELSE req \in Requests
  /\ \/ \E c \in Configs : held = c.settings
     \/ held = None /\ pc \notin {"matching", "signing"}
  /\ candidate # None => pc = "signing"
  /\ call # None => pc \in {"resolving", "normalizing", "identifying", "building", "sent"}
  /\ spec # None => /\ spec \in {SpecOf(b, Catalog) : b \in Blocks}
                    /\ pc \in {"normalizing", "identifying", "building", "sent"}
  /\ sent # None => pc = "sent"

Init ==
  /\ config \in Configs /\ cache = None /\ records = <<>>
  /\ pc = "idle" /\ req = None
  /\ held = None /\ candidate = None /\ injected = None
  /\ call = None /\ spec = None /\ sent = None /\ outcome = None

Goto(l) == pc' = l

-----------------------------------------------------------------------------
(* Configurations and scans                                                *)

\* A lifecycle call applies a configuration and drops what was derived from
\* the last one; the scan it ends with is a step of its own.
Reconfigure(c) ==
  /\ config' = c /\ cache' = None
  /\ UNCHANGED <<records, pc, req, inter, exec, outcome>>

\* The records a scan of each configuration may come to
Scanned == [c \in Configs |-> FirstRecords(MatchedRecords(c.settings, c.blocks))]

\* scanProviderDiagnostics, of a lifecycle call or for a page, puts records in
\* the place of those there are.  They are those of the configuration it read
\* when it began, by now perhaps not the last.
ScanStores(c) ==
  /\ records' \in Scanned[c]
  /\ UNCHANGED <<config, cache, pc, req, inter, exec, outcome>>

\* What resolveProviderSpec returns; it leaves it in the cache.
Resolution ==
  IF cache # None THEN cache ELSE extractProviderSpec(config.settings, config.blocks, Catalog)

\* Another call resolves it: the end of a scan, a lifecycle call or a page.  It
\* may have read the configuration a moment ago, and leaves what an older one
\* says.
OtherResolves(c) ==
  /\ cache = None
  /\ cache' = extractProviderSpec(c.settings, c.blocks, Catalog)
  /\ UNCHANGED <<config, records, pc, req, inter, exec, outcome>>

-----------------------------------------------------------------------------
(* The request interceptor, after CPA selected the auth                    *)

Arrive(q) ==
  /\ pc = "idle"
  /\ req' = q /\ Goto("arrived")
  /\ UNCHANGED <<conf, inter, exec, outcome>>

\* handleInterceptAfter begins with the settings.
Intercept ==
  /\ pc = "arrived"
  /\ held' = config.settings
  /\ Goto(IF config.settings.enabled THEN "matching" ELSE "selected")
  /\ UNCHANGED <<conf, req, candidate, injected, exec, outcome>>

\* What CPA tells of the provider, its name at most, completed from the record
\* that owns the model
candidateFromPayload(q, model, recs) ==
  LET r == resolveRecordByModel(recs, q.model, model)
      Or(given, owned) == IF r = None THEN given ELSE FirstText(given, owned)
      key == Or(<<>>, r.name)
      name == Or(q.provider, r.name)
  IN  [name |-> FirstText(name, FirstText(key, <<q.format>>)), key |-> key, url |-> Or(<<>>, r.url),
       apiKey |-> IF r = None THEN "" ELSE r.apiKey, format |-> <<q.format>>,
       model |-> model, requested |-> q.model, prefix |-> Or(<<>>, r.prefix),
       native |-> \/ isNativeAntigravity(<<q.format>>)
                  \/ r = None /\ isNativeAntigravity(name)]

\* The model as CPA routes it: with the prefix of the selected auth or without
Routed == {req.model, stripModelPrefix(req.model, req.authPrefix)}

\* The candidate and, if a rule matches it, the identity of the client
Match ==
  LET id(session) == deriveClientIdentityFromIntercept(held, req.headers, req.meta, session)
  IN  /\ pc = "matching"
      /\ \E m \in Routed, session \in firstHeaderValue(req.headers, {"session", "xsession"}) :
           LET c == candidateFromPayload(req, m, records)
           IN  IF shouldInterceptCandidate(held, c) /\ id(session).principal # NoPrincipal
               THEN /\ candidate' = c /\ Goto("signing")
                    /\ injected' = [id |-> [id(session) EXCEPT !.provider = c.name],
                                    signature |-> None]
               ELSE Goto("selected") /\ UNCHANGED <<candidate, injected>>
      /\ UNCHANGED <<conf, req, held, exec, outcome>>

\* If there is a secret the path is signed, for the provider that resolves now.
Sign ==
  LET secret == hmacSecretForCandidate(held, candidate.apiKey)
      path   == signedUpstreamPath(candidate.model, req.format, req.path,
                                   IF Resolution = None THEN NoSpec ELSE Resolution)
  IN  /\ pc = "signing" /\ Goto("selected") /\ candidate' = None
      /\ IF secret = "" THEN UNCHANGED <<injected, cache>>
         ELSE /\ injected' = [injected EXCEPT !.signature =
                   [message |-> identitySignatureMessage(injected.id, path), secret |-> secret]]
              /\ cache' = Resolution
      /\ UNCHANGED <<config, records, req, held, exec, outcome>>

-----------------------------------------------------------------------------
(* The executor                                                            *)

\* The headers CPA passes on: the client's, over which the interceptor's go
Overlaid(headers) ==
  IF injected = None THEN headers
  ELSE LET id == injected.id
           Over(f) == firstNonEmpty(id[f], headers[f])
       IN  [headers EXCEPT !.principal = id.principal, !.stamp = id.stamp, !.app = id.app,
                           !.provider = id.provider, !.instance = Over("instance"),
                           !.profile = Over("profile"), !.connector = Over("connector")]

\* CPA routes the request to this executor, with body and model as it routes
\* them.
Execute ==
  /\ pc = "selected" /\ Goto("resolving")
  /\ \E m, n \in Routed :
       call' = [model |-> m, headers |-> Overlaid(req.headers), id |-> None,
                body |-> IF req.body.json THEN [req.body EXCEPT !.model = n] ELSE req.body]
  /\ UNCHANGED <<conf, req, inter, spec, sent, outcome>>

\* The request is answered, and what the plugin and CPA had at hand is gone.
Return(answer) ==
  /\ Goto("answered") /\ outcome' = answer
  /\ held' = None /\ injected' = None /\ UNCHANGED candidate
  /\ call' = None /\ spec' = None /\ sent' = None

\* CPA serves the request with an executor of its own.
Elsewhere ==
  /\ pc = "selected" /\ Return(None)
  /\ UNCHANGED <<conf, req>>

Fail(error) == Return([answer |-> error, usage |-> None])

Resolve ==
  /\ pc = "resolving"
  /\ cache' = Resolution
  /\ IF Resolution = None THEN Fail("provider_unresolved")
     ELSE /\ spec' = Resolution /\ Goto("normalizing")
          /\ UNCHANGED <<inter, call, sent, outcome>>
  /\ UNCHANGED <<config, records, req>>

\* The prefix the plugin publishes its models under, by the settings of now
Prefix == modelNamespace(config.settings.namespace, spec.prefix)

Normalize ==
  LET rewritten == normalizeExecutorModel(call.model, call.body, req.effort, Prefix, spec)
  IN  /\ pc = "normalizing" /\ Goto("identifying")
      /\ call' = [call EXCEPT !.model = rewritten.model,
                              !.body = IF req.op = "execute_stream"
                                       THEN forceStreamingPayload(rewritten.body)
                                       ELSE rewritten.body]
      /\ UNCHANGED <<conf, req, inter, spec, sent, outcome>>

Identify ==
  /\ pc = "identifying" /\ Goto("building")
  /\ \E app \in firstHeaderValue(call.headers, {"app", "device"}),
        session \in firstHeaderValue(call.headers, {"session", "xsession"}) :
       call' = [call EXCEPT !.id = identityFromExecutorRequest(config.settings, call.headers,
                                                               app, session)]
  /\ UNCHANGED <<conf, req, inter, spec, sent, outcome>>

\* Mutation: the provider is resolved once more for its key.
buildUpstreamRequest_FreshKey ==
  LET now == extractProviderSpec(config.settings, config.blocks, Catalog)
      fresh == IF now = None \/ now.keys = <<>> THEN spec.keys ELSE now.keys
      secret == hmacSecretForCandidate(config.settings, Head(spec.keys))
      target == upstreamRequestURL(upstreamBaseURL(spec),
                  upstreamEndpoint(call.model, req.format, req.alt, req.path, spec))
  IN  [url |-> target.url, apiKey |-> Head(fresh), id |-> call.id,
       contentType |-> firstNonEmpty(req.contentType, "json"), model |-> call.model,
       provider |-> FirstText(call.id.provider, spec.name),
       body |-> stripPayloadModelPrefix(call.body, Prefix),
       signature |-> IF secret = "" \/ call.id.principal = NoPrincipal THEN None
                     ELSE [message |-> identitySignatureMessage(call.id, target.signed),
                           secret |-> secret]]

\* The upstream request: its URL, the provider's first key, the identity
\* headers and a signature over them and the path, and the body, from which
\* the prefix is taken once more
buildUpstreamRequest ==
  LET secret == hmacSecretForCandidate(config.settings, Head(spec.keys))
      target == upstreamRequestURL(upstreamBaseURL(spec),
                  upstreamEndpoint(call.model, req.format, req.alt, req.path, spec))
  IN  [url |-> target.url, apiKey |-> Head(spec.keys), id |-> call.id,
       contentType |-> firstNonEmpty(req.contentType, "json"), model |-> call.model,
       provider |-> FirstText(call.id.provider, spec.name),
       body |-> stripPayloadModelPrefix(call.body, Prefix),
       signature |-> IF secret = "" \/ call.id.principal = NoPrincipal THEN None
                     ELSE [message |-> identitySignatureMessage(call.id, target.signed),
                           secret |-> secret]]

Build ==
  /\ pc = "building"
  /\ IF spec.url.host = <<>> \/ spec.keys = <<>>
     THEN Fail("executor_config_error")
     ELSE /\ sent' = buildUpstreamRequest /\ Goto("sent")
          /\ UNCHANGED <<inter, call, spec, outcome>>
  /\ UNCHANGED <<conf, req>>

\* host.http.do fails, or its answer does not decode.
CallFails ==
  /\ pc = "sent" /\ Fail("upstream_failed")
  /\ UNCHANGED <<conf, req>>

\* The answer is recorded as usage of whoever the request named; only execute
\* turns a status that is no success into an error.  (For a stream this is
\* its start, and ExecuteStream goes on.)
Respond(success) ==
  /\ pc = "sent"
  /\ Return([answer |-> IF success \/ req.op = "count_tokens" THEN "ok" ELSE "upstream_error",
             usage  |-> [app |-> call.id.app, principal |-> call.id.principal,
                         model |-> call.model, provider |-> spec.name]])
  /\ UNCHANGED <<conf, req>>

Done ==
  /\ pc = "answered" /\ Goto("idle")
  /\ req' = None /\ outcome' = None
  /\ UNCHANGED <<conf, inter, exec>>

-----------------------------------------------------------------------------
Handle ==
  \/ Intercept \/ Match \/ Sign
  \/ Execute \/ Elsewhere \/ Resolve \/ Normalize \/ Identify \/ Build
  \/ CallFails \/ (\E success \in BOOLEAN : Respond(success)) \/ Done

Next ==
  \/ \E c \in Configs : Reconfigure(c) \/ ScanStores(c) \/ OtherResolves(c)
  \/ \E q \in Requests : Arrive(q)
  \/ Handle

Spec == Init /\ [][Next]_vars

-----------------------------------------------------------------------------
(* Properties                                                              *)

\* What agy2api sees of a signed request is what was signed: the identity
\* headers as they are and the path as it is on the wire, whatever the base
\* URL and the route contribute to it (identityHeaders, upstreamRequestURL).
SignatureVerifies ==
  sent # None /\ sent.signature # None =>
    LET id == sent.id
    IN  sent.signature.message =
          <<id.principal, id.stamp, id.app, id.instance, id.profile, id.connector,
            "POST", sent.url.path>>

\* A key only ever goes to the provider it is configured for, even if another
\* configuration is applied while the request is being built
\* (handleExecutorExecute resolves the provider once).
KeyStaysWithProvider ==
  sent # None =>
    \E b \in Blocks : sent.url.host = b.url.host /\ sent.apiKey \in ToSet(b.keys)

\* The identity the interceptor derived is the one that goes upstream, with
\* its timestamp, as long as explicit identity is allowed: the executor does
\* not derive another one.  (Of the application label this holds only if the
\* client sends no X-AGY-Device, which may be read in its place.)
IdentityCarried ==
  [][Identify /\ injected # None /\ held.explicit /\ config.settings.explicit =>
       LET id == call'.id
       IN  /\ id.principal = injected.id.principal /\ id.stamp = injected.id.stamp
           /\ \A f \in Fields \ {"app"} : id[f] = injected.id[f]
           /\ req.headers.device = "" => id.app = injected.id.app]_vars

\* Clients that name themselves differently in any one of the four fields get
\* different principals (deriveStablePrincipal).
IdentitiesApart ==
  injected # None /\ held.explicit =>
    \A q \in Requests :
      LET Claim(r) == [f \in Fields |-> firstNonEmpty(r.headers[f], r.meta[f])]
          other == deriveClientIdentityFromIntercept(held, q.headers, q.meta, "")
      IN  (\E f \in Fields : Claim(req)[f] # "") /\ (\E f \in Fields : Claim(q)[f] # "")
            /\ Claim(q) # Claim(req) /\ Claim(q)["app"] # "" /\ Claim(req)["app"] # ""
            => other.principal # injected.id.principal

\* A body names the model the X-AGY-Upstream-Model header does, up to prefixes
\* in front: both were rewritten alike, although CPA strips either of them or
\* neither, and the namespace is read again for the last rewriting of the body
\* (normalizeExecutorModel, buildUpstreamRequest).
ModelAgrees ==
  sent # None /\ sent.body.json =>
    IsSuffix(sent.body.model, sent.model) \/ IsSuffix(sent.model, sent.body.model)

\* The effort a client asked for in the body stands; else the one of the
\* model's suffix goes out with every model that is not for images; and a model
\* for images that was named without a suffix gets none, whatever effort CPA
\* passes on.  (One that was named with a suffix may: ImagesLeftAlone.  See
\* rewritePayloadModelWithEffort, isImageLaneModel.)
EffortRespected ==
  sent # None /\ sent.body.json =>
    LET asked == normalizeThinkingModelName(req.model).effort
        image == isImageLaneModel(sent.model, spec)
    IN  /\ req.body.effort # "" => sent.body.effort = req.body.effort
        /\ req.body.effort = "" /\ asked # "" /\ ~ image => sent.body.effort = asked
        /\ req.body.effort = "" /\ asked = "" /\ image => sent.body.effort = ""

\* No effort is added to a request for a model for images.
ImagesLeftAlone ==
  sent # None /\ sent.body.json /\ req.body.effort = "" /\ isImageLaneModel(sent.model, spec)
    => sent.body.effort = ""

\* A request with a known inbound path goes out on that route, every other one
\* on a known route too; a multipart body goes out untouched, and every body
\* under the content type it came with (upstreamEndpoint, buildUpstreamRequest).
RouteFollowsRequest ==
  sent # None =>
    LET asked == IF StartsWith(req.path, <<"/", "v1">>)
                 THEN SubSeq(req.path, 3, Len(req.path)) ELSE req.path
        taken == SubSeq(sent.url.path, Len(upstreamBaseURL(spec).path) + 1, Len(sent.url.path))
    IN  /\ taken \in knownUpstreamRoutes
        /\ asked \in knownUpstreamRoutes => taken = asked
        /\ ~ req.body.json => sent.body = req.body
        /\ req.contentType # "" => sent.contentType = req.contentType

\* The block that should own the request: the one with the longest prefix of
\* its model among those a scan matches.
Owners(c, model) ==
  LET fits == {b \in ToSet(c.blocks) : /\ matchDiscoveredProvider(c.settings, b)
                                       /\ b.prefix # <<>>
                                       /\ StartsWith(model, Append(b.prefix, "/"))}
  IN  {b \in fits : \A d \in fits : Len(d.prefix) <= Len(b.prefix)}

\* The name of a block, its URL or auto discovery is enough for a scan to match
\* it, without its keys and its prefix.
NamedBy(s, b) ==
  shouldInterceptCandidate(s,
    [name |-> b.name, key |-> b.name, url |-> b.url.host \o b.url.path, apiKey |-> "",
     format |-> <<>>, model |-> <<>>, requested |-> <<>>, prefix |-> <<>>, native |-> FALSE])

\* While the records are those of the configuration, a request for a model of a
\* provider that is matched by its name, its URL or auto discovery is intercepted
\* in the name of that provider, the one with the longest prefix, whichever of
\* its records comes first and whatever other selectors there are.  (One that is
\* matched by a key or its prefix alone may not be: see scanProviderDiagnostics,
\* candidateFromPayload.)
MatchedIsIntercepted ==
  [][/\ Match /\ held = config.settings /\ req.provider = <<>> /\ held.fallback # "disabled"
     /\ records \in Scanned[config]
     /\ Owners(config, req.model) # {}
     /\ \A b \in Owners(config, req.model) : NamedBy(held, b)
     => /\ injected' # None
        /\ injected'.id.provider \in {b.name : b \in Owners(config, req.model)}]_vars

\* A glob matches exactly the texts that can be cut into one part for each of
\* its elements (matchText).
GlobFaithful ==
  pc = "matching" =>
    \A p \in Globs(held), t \in Texts(req) :
      matchText(p, t) <=>
        LET glob == IF ToSet(p) \cap {"*", "?"} = {} THEN <<"*">> \o p \o <<"*">> ELSE p
        IN  \E cut \in [0..Len(glob) -> 0..Len(t)] :
              /\ cut[0] = 0 /\ cut[Len(glob)] = Len(t)
              /\ \A i \in 1..Len(glob) :
                   IF glob[i] = "*" THEN cut[i - 1] <= cut[i]
                   ELSE cut[i] = cut[i - 1] + 1 /\ glob[i] \in {"?", t[cut[i]]}

\* In client_key_hash mode clients that do not name themselves are told apart
\* by their keys.
KeysApart ==
  sent # None /\ sent.id.principal # NoPrincipal /\ Head(sent.id.principal) = "client-key" =>
    sent.id.principal[4] = firstNonEmpty(sent.id.instance, req.headers.token)
=============================================================================
