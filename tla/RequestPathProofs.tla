------------------------- MODULE RequestPathProofs -------------------------
(***************************************************************************)
(* Theorems about RequestPath, for any configurations, catalogue and       *)
(* requests, and however configurations and scans change in between: a key *)
(* stays with its provider, what is signed is what is sent, and a request  *)
(* goes out on its route, with its body where that is not JSON.            *)
(***************************************************************************)
EXTENDS RequestPath, SequenceTheorems, WellFoundedInduction, TLAPS

-----------------------------------------------------------------------------
(* Operators                                                               *)

Specs == {SpecOf(b, Catalog) : b \in Blocks}

\* Natural numbers have a least one among them (for the CHOOSE of the first block).
LEMMA MinExists ==
  ASSUME NEW T \in SUBSET Nat, T # {}
  PROVE  \E x \in T : \A y \in T : x <= y
<1>1. \E x \in T : \A y \in T : ~ (<<y, x>> \in OpToRel(<, Nat))
  BY NatLessThanWellFounded, WFMin
<1>2. \A x, y \in T : y < x => <<y, x>> \in OpToRel(<, Nat)
  BY DEF OpToRel
<1>3. PICK x \in T : \A y \in T : ~ (<<y, x>> \in OpToRel(<, Nat))
  BY <1>1
<1>4. \A y \in T : ~ (y < x)
  BY <1>2, <1>3
<1>5. \A y \in T : x <= y
  BY <1>4
<1>6. QED
  BY <1>5

\* What is mirrored is one of the configured blocks.
LEMMA MirrorsABlock ==
  ASSUME NEW c \in Configs, extractProviderSpec(c.settings, c.blocks, Catalog) # None
  PROVE  extractProviderSpec(c.settings, c.blocks, Catalog) \in Specs
<1> DEFINE matched == {i \in DOMAIN c.blocks : matchDiscoveredProvider(c.settings, c.blocks[i])}
           live    == {i \in matched : ~ c.blocks[i].disabled}
           chosen  == IF live # {} THEN live ELSE matched
           first   == CHOOSE i \in chosen : \A j \in chosen : i <= j
<1> HIDE DEF matched
<1>1. /\ matched # {}
      /\ extractProviderSpec(c.settings, c.blocks, Catalog) = SpecOf(c.blocks[first], Catalog)
  BY DEF extractProviderSpec, matched
<1>2. chosen \subseteq DOMAIN c.blocks /\ chosen # {}
  BY <1>1 DEF matched
<1>3. DOMAIN c.blocks \subseteq Nat
  <2>1. c.blocks \in Seq(ToSet(c.blocks))
    BY RequestAssumption
  <2>2. QED
    BY <2>1
<1>4. first \in DOMAIN c.blocks
  <2>1. chosen \in SUBSET Nat
    BY <1>2, <1>3
  <2>2. \E x \in chosen : \A y \in chosen : x <= y
    BY <2>1, <1>2, MinExists
  <2>3. QED
    BY <2>2, <1>2
<1> HIDE DEF first
<1>5. c.blocks[first] \in Blocks
  BY <1>4 DEF Blocks, ToSet
<1>6. QED
  BY <1>1, <1>5 DEF Specs

\* The route is a known one, and the inbound path's if that is.
\* The inbound path, less its version
Asked(path) ==
  IF StartsWith(path, <<"/", "v1">>) THEN SubSeq(path, 3, Len(path)) ELSE path

LEMMA EndpointKnown ==
  ASSUME NEW model, NEW format, NEW alt, NEW path, NEW s
  PROVE  /\ upstreamEndpoint(model, format, alt, path, s) \in knownUpstreamRoutes
         /\ Asked(path) \in knownUpstreamRoutes =>
              upstreamEndpoint(model, format, alt, path, s) = Asked(path)
<1>1. <<>> \notin knownUpstreamRoutes
  BY DEF knownUpstreamRoutes, chatCompletionsEndpoint, imageGenerationsEndpoint,
         imageEditsEndpoint
<1>2. {chatCompletionsEndpoint, imageGenerationsEndpoint} \subseteq knownUpstreamRoutes
  BY DEF knownUpstreamRoutes
<1>3. QED
  BY <1>1, <1>2 DEF upstreamEndpoint, routeFromRequestPath, Asked

RoutePieces == {"/", "chat", "completions", "images", "generations", "edits"}

\* The routes are texts with something in them.
LEMMA RoutesAreTexts ==
  \A r \in knownUpstreamRoutes : r \in Seq(RoutePieces) /\ r # <<>>
<1>1. chatCompletionsEndpoint \in Seq(RoutePieces) /\ chatCompletionsEndpoint # <<>>
  BY DEF chatCompletionsEndpoint, RoutePieces
<1>2. imageGenerationsEndpoint \in Seq(RoutePieces) /\ imageGenerationsEndpoint # <<>>
  BY DEF imageGenerationsEndpoint, RoutePieces
<1>3. imageEditsEndpoint \in Seq(RoutePieces) /\ imageEditsEndpoint # <<>>
  BY DEF imageEditsEndpoint, RoutePieces
<1>4. QED
  BY <1>1, <1>2, <1>3 DEF knownUpstreamRoutes

\* Without its base path a URL's path is the route.
LEMMA RouteAfterBase ==
  ASSUME NEW S, NEW base \in Seq(S), NEW route \in knownUpstreamRoutes
  PROVE  SubSeq(base \o route, Len(base) + 1, Len(base \o route)) = route
<1> DEFINE T == S \cup RoutePieces
<1>1. base \in Seq(T) /\ route \in Seq(T) /\ route # <<>>
  BY RoutesAreTexts, SeqMonotonic
<1>2. Len(route) \in Nat \ {0} /\ Len(base) \in Nat
  BY <1>1
<1>3. Len(base \o route) = Len(base) + Len(route)
  BY <1>1
<1>4. SubSeq(base \o route, Len(base) + 1, Len(base) + Len(route))
        = SubSeq(route, (Len(base) + 1) - Len(base), (Len(base) + Len(route)) - Len(base))
  BY <1>1, <1>2, SubSeqOfConcat2
<1>5. SubSeq(route, 1, Len(route)) = route
  BY <1>1, SubSeqFull
<1>6. QED
  BY <1>2, <1>3, <1>4, <1>5

\* The base URL of a provider is that of its block, less a slash at the end.
LEMMA BaseOfBlock ==
  ASSUME NEW b \in Blocks
  PROVE  LET base == upstreamBaseURL(SpecOf(b, Catalog))
         IN  /\ DOMAIN base = {"host", "path"} /\ base.host = b.url.host
             /\ base.path \in Seq(ToSet(b.url.path))
<1>1. DOMAIN b.url = {"host", "path"} /\ b.url.path \in Seq(ToSet(b.url.path))
  BY RequestAssumption
<1>2. TrimSlash(b.url.path) \in Seq(ToSet(b.url.path))
  <2>1. CASE TrimSlash(b.url.path) = b.url.path
    BY <2>1, <1>1
  <2>2. CASE TrimSlash(b.url.path) # b.url.path
    <3>1. TrimSlash(b.url.path) = SubSeq(b.url.path, 1, Len(b.url.path) - 1)
      BY <2>2 DEF TrimSlash, Front
    <3>2. Len(b.url.path) \in Nat /\ \A i \in 1..(Len(b.url.path) - 1) :
                                        b.url.path[i] \in ToSet(b.url.path)
      BY <1>1
    <3>3. QED
      BY <3>1, <3>2, SubSeqProperties
  <2>3. QED
    BY <2>1, <2>2
<1>3. upstreamBaseURL(SpecOf(b, Catalog)) = [b.url EXCEPT !.path = TrimSlash(@)]
  BY DEF upstreamBaseURL, SpecOf
<1>4. QED
  BY <1>1, <1>2, <1>3

\* What was chosen over a value is chosen over it again (Overlaid).
LEMMA FirstAgain ==
  \A q, m : firstNonEmpty(firstNonEmpty(q, m), q) = firstNonEmpty(q, m)
  BY DEF firstNonEmpty

\* A body that is not JSON is handed on as it is.
LEMMA OthersUntouched ==
  ASSUME NEW body, ~ body.json
  PROVE  /\ forceStreamingPayload(body) = body
         /\ \A prefix : stripPayloadModelPrefix(body, prefix) = body
         /\ \A model, effort, prefix, s :
              normalizeExecutorModel(model, body, effort, prefix, s).body = body
<1>1. \A prefix, effort : rewritePayloadModelWithEffort(body, prefix, effort) = body
  BY DEF rewritePayloadModelWithEffort
<1>2. forceStreamingPayload(body) = body
  BY DEF forceStreamingPayload
<1>3. \A prefix : stripPayloadModelPrefix(body, prefix) = body
  BY DEF stripPayloadModelPrefix
<1>4. QED
  BY <1>1, <1>2, <1>3 DEF normalizeExecutorModel

-----------------------------------------------------------------------------
(* The inductive invariant                                                 *)

\* The executor works for one of the configured blocks, from the moment it has
\* resolved it until it answers, and the cache holds one or nothing.
SpecInv ==
  /\ config \in Configs /\ cache \in Specs \cup {None}
  /\ pc \in {"normalizing", "identifying", "building", "sent"} => spec \in Specs

\* All the while its request has the client's body, if that is not JSON.
CallInv ==
  pc \in {"resolving", "normalizing", "identifying", "building", "sent"} =>
    /\ {"model", "headers", "body", "id"} \subseteq DOMAIN call
    /\ ~ req.body.json => call.body = req.body

\* What was sent is at hand only as long as the answer is awaited.
SentInv == sent # None => pc = "sent"

\* The identity the interceptor answers with was derived from the request at
\* hand by the settings at hand, and the executor's headers carry it.
Derived(session) == deriveClientIdentityFromIntercept(held, req.headers, req.meta, session)

IdentityInv ==
  /\ pc # "idle" => req \in Requests
  /\ pc = "signing" \/ injected # None =>
       /\ pc \notin {"idle", "arrived", "matching", "answered"} /\ "id" \in DOMAIN injected
       /\ injected.id.principal # NoPrincipal
       /\ \E session, provider : injected.id = [Derived(session) EXCEPT !.provider = provider]
  /\ pc \in {"resolving", "normalizing", "identifying"} => call.headers = Overlaid(req.headers)

IInv == SpecInv /\ CallInv /\ SentInv /\ IdentityInv

LEMMA InitIInv == Init => IInv
  BY DEF Init, IInv, SpecInv, CallInv, SentInv, IdentityInv

\* What resolves is a configured block or nothing, cached or not.
LEMMA Resolved == SpecInv => Resolution \in Specs \cup {None}
  BY MirrorsABlock DEF SpecInv, Resolution

LEMMA SpecStep == SpecInv /\ [Next]_vars => SpecInv'
<1> SUFFICES ASSUME SpecInv, [Next]_vars PROVE SpecInv'
  OBVIOUS
<1> USE DEF SpecInv
<1>1. Resolution \in Specs \cup {None}
  BY Resolved
<1>2. CASE \E c \in Configs : Reconfigure(c)
  BY <1>2 DEF Reconfigure, exec
<1>3. CASE \E c \in Configs : ScanStores(c)
  BY <1>3 DEF ScanStores, exec
<1>4. CASE \E c \in Configs : OtherResolves(c)
  BY <1>4, MirrorsABlock DEF OtherResolves, exec
<1>5. CASE \E q \in Requests : Arrive(q)
  BY <1>5 DEF Arrive, Goto, conf
<1>6. CASE Intercept
  BY <1>6 DEF Intercept, Goto, conf
<1>7. CASE Match
  BY <1>7 DEF Match, Goto, conf
<1>8. CASE Sign
  BY <1>1, <1>8 DEF Sign, Goto
<1>9. CASE Execute
  BY <1>9 DEF Execute, Goto, conf
<1>10. CASE Elsewhere
  BY <1>10 DEF Elsewhere, Return, Goto, conf
<1>11. CASE Resolve
  BY <1>1, <1>11 DEF Resolve, Fail, Return, Goto
<1>12. CASE Normalize
  BY <1>12 DEF Normalize, Goto, conf
<1>13. CASE Identify
  BY <1>13 DEF Identify, Goto, conf
<1>14. CASE Build
  BY <1>14 DEF Build, Fail, Return, Goto, conf
<1>15. CASE CallFails
  BY <1>15 DEF CallFails, Fail, Return, Goto, conf
<1>16. CASE \E success \in BOOLEAN : Respond(success)
  BY <1>16 DEF Respond, Return, Goto, conf
<1>17. CASE Done
  BY <1>17 DEF Done, Goto, conf
<1>18. CASE UNCHANGED vars
  BY <1>18 DEF vars
<1>19. QED
  BY <1>2, <1>3, <1>4, <1>5, <1>6, <1>7, <1>8, <1>9, <1>10, <1>11, <1>12, <1>13, <1>14,
     <1>15, <1>16, <1>17, <1>18 DEF Next, Handle

LEMMA SentStep == SentInv /\ [Next]_vars => SentInv'
<1> SUFFICES ASSUME SentInv, [Next]_vars PROVE SentInv'
  OBVIOUS
<1> USE DEF SentInv
<1>1. CASE \E c \in Configs : Reconfigure(c) \/ ScanStores(c) \/ OtherResolves(c)
  BY <1>1 DEF Reconfigure, ScanStores, OtherResolves, exec
<1>2. CASE (\E q \in Requests : Arrive(q)) \/ Intercept
  BY <1>2 DEF Arrive, Intercept, Goto, exec
<1>3. CASE Match
  BY <1>3 DEF Match, Goto, exec
<1>4. CASE Sign \/ Execute \/ Done
  BY <1>4 DEF Sign, Execute, Done, Goto, exec
<1>5. CASE Elsewhere \/ CallFails \/ \E success \in BOOLEAN : Respond(success)
  BY <1>5 DEF Elsewhere, CallFails, Respond, Fail, Return, Goto
<1>6. CASE Resolve \/ Normalize \/ Identify
  BY <1>6 DEF Resolve, Normalize, Identify, Fail, Return, Goto
<1>7. CASE Build
  BY <1>7 DEF Build, Fail, Return, Goto
<1>8. CASE UNCHANGED vars
  BY <1>8 DEF vars
<1>9. QED
  BY <1>1, <1>2, <1>3, <1>4, <1>5, <1>6, <1>7, <1>8 DEF Next, Handle

LEMMA CallStep == CallInv /\ [Next]_vars => CallInv'
<1> SUFFICES ASSUME CallInv, [Next]_vars PROVE CallInv'
  OBVIOUS
<1> USE DEF CallInv
<1>1. CASE \E c \in Configs : Reconfigure(c) \/ ScanStores(c) \/ OtherResolves(c)
  BY <1>1 DEF Reconfigure, ScanStores, OtherResolves, exec
<1>2. CASE (\E q \in Requests : Arrive(q)) \/ Intercept \/ Sign \/ Done
  BY <1>2 DEF Arrive, Intercept, Sign, Done, Goto, exec
<1>3. CASE Match
  BY <1>3 DEF Match, Goto
<1>4. CASE Execute
  <2>1. PICK m \in Routed, n \in Routed :
          call' = [model |-> m, headers |-> Overlaid(req.headers), id |-> None,
                   body |-> IF req.body.json THEN [req.body EXCEPT !.model = n] ELSE req.body]
    BY <1>4 DEF Execute
  <2>2. req' = req
    BY <1>4 DEF Execute
  <2>3. DOMAIN call' = {"model", "headers", "id", "body"}
    BY <2>1
  <2>4. ~ req.body.json => call'.body = req.body
    BY <2>1
  <2>5. QED
    BY <2>2, <2>3, <2>4
<1>5. CASE Elsewhere \/ CallFails \/ \E success \in BOOLEAN : Respond(success)
  BY <1>5 DEF Elsewhere, CallFails, Respond, Fail, Return, Goto
<1>6. CASE Resolve \/ Build
  BY <1>6 DEF Resolve, Build, Fail, Return, Goto
<1>7. CASE Normalize
  <2> DEFINE rewritten == normalizeExecutorModel(call.model, call.body, req.effort, Prefix, spec)
             body == IF req.op = "execute_stream" THEN forceStreamingPayload(rewritten.body)
                     ELSE rewritten.body
  <2>1. call' = [call EXCEPT !.model = rewritten.model, !.body = body] /\ req' = req
    BY <1>7 DEF Normalize
  <2>2. /\ {"model", "headers", "body", "id"} \subseteq DOMAIN call
        /\ ~ req.body.json => call.body = req.body
    BY <1>7 DEF Normalize
  <2>3. ~ req.body.json => body = req.body
    BY <2>2, OthersUntouched
  <2> HIDE DEF rewritten, body
  <2>4. DOMAIN call' = DOMAIN call /\ call'.body = body
    BY <2>1, <2>2
  <2>5. QED
    BY <2>1, <2>2, <2>3, <2>4
<1>8. CASE Identify
  <2>1. PICK id : call' = [call EXCEPT !.id = id]
    BY <1>8 DEF Identify
  <2>2. {"model", "headers", "body", "id"} \subseteq DOMAIN call /\ req' = req
    BY <1>8 DEF Identify
  <2>3. DOMAIN call' = DOMAIN call /\ call'.body = call.body
    BY <2>1, <2>2
  <2>4. ~ req.body.json => call.body = req.body
    BY <1>8 DEF Identify
  <2>5. QED
    BY <2>2, <2>3, <2>4
<1>9. CASE UNCHANGED vars
  BY <1>9 DEF vars
<1>10. QED
  BY <1>1, <1>2, <1>3, <1>4, <1>5, <1>6, <1>7, <1>8, <1>9 DEF Next, Handle

LEMMA IdentityStep == IdentityInv /\ CallInv /\ [Next]_vars => IdentityInv'
<1> SUFFICES ASSUME IdentityInv, CallInv, [Next]_vars PROVE IdentityInv'
  OBVIOUS
<1>1. CASE \E c \in Configs : Reconfigure(c) \/ ScanStores(c) \/ OtherResolves(c)
  BY <1>1 DEF Reconfigure, ScanStores, OtherResolves, exec, inter, IdentityInv, Derived, Overlaid
<1>2. CASE (\E q \in Requests : Arrive(q)) \/ Intercept \/ Done
  BY <1>2 DEF Arrive, Intercept, Done, Goto, exec, inter, IdentityInv, Derived
<1>3. CASE Match
  <2> DEFINE id(session) == deriveClientIdentityFromIntercept(held, req.headers, req.meta, session)
  <2>1. /\ req' = req /\ held' = held /\ pc' \in {"signing", "selected"}
        /\ req \in Requests
    BY <1>3 DEF Match, Goto, IdentityInv
  <2>2. \/ injected' = injected /\ pc' = "selected"
        \/ \E session, name : /\ id(session).principal # NoPrincipal
                              /\ injected' = [id |-> [id(session) EXCEPT !.provider = name],
                                              signature |-> None]
    BY <1>3 DEF Match, Goto
  <2>3. CASE injected' = injected /\ pc' = "selected"
    <3>1. injected = None
      BY <1>3 DEF Match, IdentityInv
    <3>2. QED
      BY <2>1, <2>3, <3>1 DEF IdentityInv
  <2>4. ASSUME NEW session, NEW name, id(session).principal # NoPrincipal,
               injected' = [id |-> [id(session) EXCEPT !.provider = name], signature |-> None]
        PROVE  IdentityInv'
    <3>1. injected'.id = [id(session) EXCEPT !.provider = name]
      BY <2>4
    <3>2. "principal" \in DOMAIN id(session)
      BY DEF deriveClientIdentityFromIntercept
    <3>3. injected'.id.principal = id(session).principal
      BY <3>1, <3>2
    <3>4. id(session) = Derived(session)'
      BY <2>1 DEF Derived
    <3>5. QED
      BY <2>1, <2>4, <3>1, <3>3, <3>4 DEF IdentityInv
  <2>5. QED
    BY <2>2, <2>3, <2>4
<1>4. CASE Sign
  <2>1. /\ req' = req /\ held' = held /\ pc = "signing" /\ pc' = "selected"
    BY <1>4 DEF Sign, Goto
  <2>2. \/ injected' = injected
        \/ \E s : injected' = [injected EXCEPT !.signature = s]
    BY <1>4 DEF Sign
  <2>3. "id" \in DOMAIN injected
    BY <2>1 DEF IdentityInv
  <2>4. injected'.id = injected.id /\ DOMAIN injected' = DOMAIN injected
    BY <2>2, <2>3
  <2>5. \A session : Derived(session)' = Derived(session)
    BY <2>1 DEF Derived
  <2>6. QED
    BY <2>1, <2>4, <2>5 DEF IdentityInv
<1>5. CASE Execute
  <2>1. /\ req' = req /\ held' = held /\ injected' = injected
        /\ pc = "selected" /\ pc' = "resolving" /\ call'.headers = Overlaid(req.headers)
    BY <1>5 DEF Execute, Goto, inter
  <2>2. Overlaid(req.headers)' = Overlaid(req.headers)
    BY <2>1 DEF Overlaid
  <2>3. \A session : Derived(session)' = Derived(session)
    BY <2>1 DEF Derived
  <2>4. QED
    BY <2>1, <2>2, <2>3 DEF IdentityInv
<1>6. CASE Elsewhere \/ CallFails \/ \E success \in BOOLEAN : Respond(success)
  BY <1>6 DEF Elsewhere, CallFails, Respond, Fail, Return, Goto, IdentityInv
<1>7. CASE Resolve \/ Build
  BY <1>7 DEF Resolve, Build, Fail, Return, Goto, inter, IdentityInv, Derived, Overlaid
<1>8. CASE Normalize \/ Identify
  <2>1. /\ req' = req /\ held' = held /\ injected' = injected
        /\ pc \in {"normalizing", "identifying"} /\ pc' \in {"identifying", "building"}
    BY <1>8 DEF Normalize, Identify, Goto, inter
  <2>2. call'.headers = call.headers
    BY <1>8 DEF Normalize, Identify, CallInv
  <2>3. Overlaid(req.headers)' = Overlaid(req.headers)
    BY <2>1 DEF Overlaid
  <2>4. \A session : Derived(session)' = Derived(session)
    BY <2>1 DEF Derived
  <2>5. QED
    BY <2>1, <2>2, <2>3, <2>4 DEF IdentityInv
<1>9. CASE UNCHANGED vars
  <2>1. /\ req' = req /\ held' = held /\ injected' = injected /\ pc' = pc /\ call' = call
    BY <1>9 DEF vars
  <2>2. Overlaid(req.headers)' = Overlaid(req.headers)
    BY <2>1 DEF Overlaid
  <2>3. \A session : Derived(session)' = Derived(session)
    BY <2>1 DEF Derived
  <2>4. QED
    BY <2>1, <2>2, <2>3 DEF IdentityInv
<1>10. QED
  BY <1>1, <1>2, <1>3, <1>4, <1>5, <1>6, <1>7, <1>8, <1>9 DEF Next, Handle

LEMMA NextIInv == IInv /\ [Next]_vars => IInv'
  BY SpecStep, CallStep, SentStep, IdentityStep DEF IInv

\* A request at work is worked on for one configured block, with the client's
\* body and the identity the interceptor derived, however often configurations
\* and records change meanwhile.
THEOREM Invariant == Spec => []IInv
  BY InitIInv, NextIInv, PTL DEF Spec

-----------------------------------------------------------------------------
(* What goes upstream                                                      *)

\* The steps that leave the request upstream alone, or there is none after
LEMMA OnlyBuildSends ==
  ASSUME SentInv, [Next]_vars
  PROVE  \/ Build
         \/ sent' = None
         \/ UNCHANGED <<sent, spec, req>>
<1>1. CASE \E c \in Configs : Reconfigure(c) \/ ScanStores(c) \/ OtherResolves(c)
  BY <1>1 DEF Reconfigure, ScanStores, OtherResolves, exec
<1>2. CASE (\E q \in Requests : Arrive(q)) \/ Done
  BY <1>2 DEF Arrive, Done, exec, SentInv
<1>3. CASE Intercept \/ Match \/ Sign \/ Execute
  BY <1>3 DEF Intercept, Match, Sign, Execute, exec, SentInv
<1>4. CASE Elsewhere \/ CallFails \/ \E success \in BOOLEAN : Respond(success)
  BY <1>4 DEF Elsewhere, CallFails, Respond, Fail, Return
<1>5. CASE Resolve \/ Normalize \/ Identify
  BY <1>5 DEF Resolve, Normalize, Identify, Fail, Return, SentInv
<1>6. CASE UNCHANGED vars
  BY <1>6 DEF vars
<1>7. QED
  BY <1>1, <1>2, <1>3, <1>4, <1>5, <1>6 DEF Next, Handle

\* A request goes upstream only for a resolved provider with a key.
LEMMA BuildsRequest ==
  ASSUME IInv, Build, sent' # None
  PROVE  /\ sent' = buildUpstreamRequest /\ spec' = spec /\ req' = req
         /\ spec.keys # <<>> /\ spec \in Specs
  BY DEF Build, Fail, Return, IInv, SpecInv

\* A key only goes to the provider it is configured for, for any number of
\* configurations that are applied while the request is built (the executor
\* resolves the provider once, and takes URL and key from what it found).
THEOREM KeyStaysHolds == Spec => []KeyStaysWithProvider
<1>1. Init => KeyStaysWithProvider
  BY DEF Init, KeyStaysWithProvider
<1>2. ASSUME IInv, KeyStaysWithProvider, [Next]_vars, sent' # None
      PROVE  KeyStaysWithProvider'
  <2>1. CASE Build
    <3>1. PICK b \in Blocks : spec = SpecOf(b, Catalog)
      BY <1>2, <2>1, BuildsRequest DEF Specs
    <3>2. sent' = buildUpstreamRequest /\ spec.keys # <<>>
      BY <1>2, <2>1, BuildsRequest
    <3>3. sent'.apiKey = Head(b.keys) /\ b.keys # <<>>
      BY <3>1, <3>2 DEF buildUpstreamRequest, SpecOf
    <3>4. sent'.apiKey \in ToSet(b.keys)
      <4>1. b.keys \in Seq(ToSet(b.keys))
        BY RequestAssumption
      <4>2. QED
        BY <3>3, <4>1
    <3>5. sent'.url.host = b.url.host
      <4> DEFINE base == upstreamBaseURL(spec)
                 endpoint == upstreamEndpoint(call.model, req.format, req.alt, req.path, spec)
      <4>1. sent'.url = upstreamRequestURL(base, endpoint).url
        BY <3>2 DEF buildUpstreamRequest
      <4>2. DOMAIN base = {"host", "path"} /\ base.host = b.url.host
        BY <3>1, BaseOfBlock
      <4> HIDE DEF base, endpoint
      <4>3. QED
        BY <4>1, <4>2 DEF upstreamRequestURL
    <3>6. QED
      BY <3>4, <3>5 DEF KeyStaysWithProvider
  <2>2. CASE UNCHANGED <<sent, spec, req>>
    BY <1>2, <2>2 DEF KeyStaysWithProvider
  <2>3. QED
    BY <1>2, <2>1, <2>2, OnlyBuildSends DEF IInv
<1>3. IInv /\ KeyStaysWithProvider /\ [Next]_vars => KeyStaysWithProvider'
  BY <1>2 DEF KeyStaysWithProvider
<1>4. QED
  BY <1>1, <1>3, Invariant, PTL DEF Spec

\* What is signed is what is sent, whatever the base URL and the route
\* contribute to the path (upstreamRequestURL gives both).
THEOREM SignatureHolds == Spec => []SignatureVerifies
<1>1. Init => SignatureVerifies
  BY DEF Init, SignatureVerifies
<1>2. ASSUME IInv, SignatureVerifies, [Next]_vars, sent' # None
      PROVE  SignatureVerifies'
  <2>1. CASE Build
    <3> DEFINE secret == hmacSecretForCandidate(config.settings, Head(spec.keys))
               base == upstreamBaseURL(spec)
               endpoint == upstreamEndpoint(call.model, req.format, req.alt, req.path, spec)
               target == upstreamRequestURL(base, endpoint)
    <3>1. sent' = buildUpstreamRequest /\ spec \in Specs
      BY <1>2, <2>1, BuildsRequest
    <3>2. /\ sent'.id = call.id /\ sent'.url = target.url
          /\ sent'.signature \in
               {None, [message |-> identitySignatureMessage(call.id, target.signed),
                       secret |-> secret]}
      BY <3>1 DEF buildUpstreamRequest
    <3>3. DOMAIN base = {"host", "path"}
      BY <3>1, BaseOfBlock DEF Specs
    <3> HIDE DEF secret, base, endpoint
    <3>4. target.url.path = target.signed
      BY <3>3 DEF upstreamRequestURL
    <3> HIDE DEF target
    <3>5. sent'.signature # None =>
            sent'.signature.message = identitySignatureMessage(sent'.id, sent'.url.path)
      BY <3>2, <3>4
    <3>6. QED
      BY <3>5 DEF SignatureVerifies, identitySignatureMessage
  <2>2. CASE UNCHANGED <<sent, spec, req>>
    BY <1>2, <2>2 DEF SignatureVerifies
  <2>3. QED
    BY <1>2, <2>1, <2>2, OnlyBuildSends DEF IInv
<1>3. IInv /\ SignatureVerifies /\ [Next]_vars => SignatureVerifies'
  BY <1>2 DEF SignatureVerifies
<1>4. QED
  BY <1>1, <1>3, Invariant, PTL DEF Spec

\* The route that is taken is a known one, the inbound path's where that is
\* known; a body that is not JSON and a content type go out as they came
\* (upstreamEndpoint, normalizeExecutorModel, buildUpstreamRequest).
THEOREM RouteFollowsHolds == Spec => []RouteFollowsRequest
<1>1. Init => RouteFollowsRequest
  BY DEF Init, RouteFollowsRequest
<1>2. ASSUME IInv, RouteFollowsRequest, [Next]_vars, sent' # None
      PROVE  RouteFollowsRequest'
  <2>1. CASE Build
    <3> DEFINE base == upstreamBaseURL(spec)
               endpoint == upstreamEndpoint(call.model, req.format, req.alt, req.path, spec)
               asked == Asked(req.path)
               taken == SubSeq(sent.url.path, Len(base.path) + 1, Len(sent.url.path))
    <3>1. /\ sent' = buildUpstreamRequest /\ spec \in Specs
          /\ spec' = spec /\ req' = req
      BY <1>2, <2>1, BuildsRequest
    <3>2. PICK b \in Blocks : spec = SpecOf(b, Catalog)
      BY <3>1 DEF Specs
    <3>3. DOMAIN base = {"host", "path"} /\ base.path \in Seq(ToSet(b.url.path))
      BY <3>2, BaseOfBlock
    <3>4. /\ endpoint \in knownUpstreamRoutes
          /\ asked \in knownUpstreamRoutes => endpoint = asked
      BY EndpointKnown
    <3>5. /\ sent'.url = upstreamRequestURL(base, endpoint).url
          /\ sent'.body = stripPayloadModelPrefix(call.body, Prefix)
          /\ sent'.contentType = firstNonEmpty(req.contentType, "json")
      BY <3>1 DEF buildUpstreamRequest
    <3>6. ~ req.body.json => sent'.body = req.body
      <4>1. ~ req.body.json => call.body = req.body
        BY <1>2, <2>1 DEF IInv, CallInv, Build
      <4>2. QED
        BY <3>5, <4>1, OthersUntouched
    <3>7. req.contentType # "" => sent'.contentType = req.contentType
      BY <3>5 DEF firstNonEmpty
    <3>8. base' = base /\ asked' = asked
      BY <3>1
    <3> HIDE DEF base, endpoint, asked
    <3>9. sent'.url.path = base.path \o endpoint
      BY <3>3, <3>5 DEF upstreamRequestURL
    <3>10. SubSeq(sent'.url.path, Len(base.path) + 1, Len(sent'.url.path)) = endpoint
      BY <3>3, <3>4, <3>9, RouteAfterBase
    <3>11. taken' = endpoint
      BY <3>8, <3>10
    <3> HIDE DEF taken
    <3>12. /\ taken' \in knownUpstreamRoutes
           /\ asked' \in knownUpstreamRoutes => taken' = asked'
           /\ ~ req'.body.json => sent'.body = req'.body
           /\ req'.contentType # "" => sent'.contentType = req'.contentType
      BY <3>1, <3>4, <3>6, <3>7, <3>8, <3>11
    <3>13. QED
      BY <3>12 DEF RouteFollowsRequest, taken, base, asked, Asked
  <2>2. CASE UNCHANGED <<sent, spec, req>>
    BY <1>2, <2>2 DEF RouteFollowsRequest
  <2>3. QED
    BY <1>2, <2>1, <2>2, OnlyBuildSends DEF IInv
<1>3. IInv /\ RouteFollowsRequest /\ [Next]_vars => RouteFollowsRequest'
  BY <1>2 DEF RouteFollowsRequest
<1>4. QED
  BY <1>1, <1>3, Invariant, PTL DEF Spec

-----------------------------------------------------------------------------
(* Who the client is                                                       *)

\* What the interceptor derives when clients may name themselves
LEMMA DerivedFields ==
  ASSUME held.explicit, NEW session
  PROVE  LET id == Derived(session)
             Claim(f) == firstNonEmpty(req.headers[f], req.meta[f])
         IN  /\ DOMAIN id = {"app", "instance", "profile", "connector", "session", "provider",
                             "stamp", "principal"}
             /\ id.stamp = "intercepted" /\ id.app # ""
             /\ id.app = normalizeClientApp(Claim("app"), req.headers.agent)
             /\ id.instance = Claim("instance") /\ id.profile = Claim("profile")
             /\ id.connector = Claim("connector")
<1> DEFINE claimed == [f \in Fields |-> IF held.explicit
                                       THEN firstNonEmpty(req.headers[f], req.meta[f]) ELSE ""]
           bare == [app |-> normalizeClientApp(claimed["app"], req.headers.agent),
                    instance |-> claimed["instance"], profile |-> claimed["profile"],
                    connector |-> claimed["connector"],
                    session |-> IF held.explicit THEN session ELSE "",
                    provider |-> <<>>, stamp |-> "intercepted", principal |-> NoPrincipal]
           who == deriveStablePrincipal(held, bare, \E f \in Fields : claimed[f] # "",
                                        req.headers.token, req.headers.agent)
<1>1. Derived(session) = [bare EXCEPT !.principal = who]
  BY DEF Derived, deriveClientIdentityFromIntercept
<1>2. \A f \in Fields : claimed[f] = firstNonEmpty(req.headers[f], req.meta[f])
  OBVIOUS
<1>3. {"app", "instance", "profile", "connector"} = Fields
  BY DEF Fields
<1>4. normalizeClientApp(claimed["app"], req.headers.agent) # ""
  BY DEF normalizeClientApp
<1> DEFINE C(f) == claimed[f]
<1>5. /\ C("app") = firstNonEmpty(req.headers["app"], req.meta["app"])
      /\ C("instance") = firstNonEmpty(req.headers["instance"], req.meta["instance"])
      /\ C("profile") = firstNonEmpty(req.headers["profile"], req.meta["profile"])
      /\ C("connector") = firstNonEmpty(req.headers["connector"], req.meta["connector"])
  BY <1>2, <1>3
<1> HIDE DEF claimed, who
<1>6. /\ DOMAIN Derived(session) = {"app", "instance", "profile", "connector", "session",
                                   "provider", "stamp", "principal"}
      /\ Derived(session).stamp = "intercepted"
      /\ Derived(session).app = normalizeClientApp(C("app"), req.headers.agent)
      /\ Derived(session).instance = C("instance") /\ Derived(session).profile = C("profile")
      /\ Derived(session).connector = C("connector")
  BY <1>1
<1> HIDE DEF C
<1>7. QED
  BY <1>4, <1>5, <1>6 DEF C

\* The headers of the executor's request carry what was derived, and so does
\* what it makes of them.
LEMMA IdentifyCarries ==
  ASSUME IInv, Identify, injected # None, held.explicit, config.settings.explicit
  PROVE  LET id == call'.id
         IN  /\ id.principal = injected.id.principal /\ id.stamp = injected.id.stamp
             /\ \A f \in Fields \ {"app"} : id[f] = injected.id[f]
             /\ req.headers.device = "" => id.app = injected.id.app
<1> DEFINE H == call.headers  Q == req.headers  J == injected.id
           Claim(f) == firstNonEmpty(Q[f], req.meta[f])
<1>1. /\ J.principal # NoPrincipal /\ req \in Requests /\ H = Overlaid(Q)
      /\ \E session, provider : J = [Derived(session) EXCEPT !.provider = provider]
      /\ {"model", "headers", "body", "id"} \subseteq DOMAIN call
  BY DEF IInv, IdentityInv, CallInv, Identify
<1>2. Fields \cup {"device", "principal", "stamp", "provider"} \subseteq DOMAIN Q
  BY <1>1, RequestAssumption
<1>3. /\ J.stamp = "intercepted" /\ J.app # ""
      /\ J.instance = Claim("instance") /\ J.profile = Claim("profile")
      /\ J.connector = Claim("connector")
  <2>1. PICK session, provider : J = [Derived(session) EXCEPT !.provider = provider]
    BY <1>1
  <2> DEFINE D == Derived(session)
  <2>2. /\ DOMAIN D = {"app", "instance", "profile", "connector", "session", "provider",
                       "stamp", "principal"}
        /\ D.stamp = "intercepted" /\ D.app # ""
        /\ D.instance = Claim("instance") /\ D.profile = Claim("profile")
        /\ D.connector = Claim("connector")
    BY DerivedFields
  <2> HIDE DEF D, Claim
  <2>3. QED
    BY <2>1, <2>2 DEF D
<1>4. /\ H.principal = J.principal /\ H.stamp = J.stamp /\ H.app = J.app
      /\ H.device = Q.device
      /\ H.instance = firstNonEmpty(J.instance, Q.instance)
      /\ H.profile = firstNonEmpty(J.profile, Q.profile)
      /\ H.connector = firstNonEmpty(J.connector, Q.connector)
  <2>1. H = [Q EXCEPT !.principal = J.principal, !.stamp = J.stamp, !.app = J.app,
                      !.provider = J.provider,
                      !.instance = firstNonEmpty(J.instance, Q.instance),
                      !.profile = firstNonEmpty(J.profile, Q.profile),
                      !.connector = firstNonEmpty(J.connector, Q.connector)]
    BY <1>1 DEF Overlaid
  <2>2. {"app", "instance", "profile", "connector", "device", "principal", "stamp", "provider"}
          \subseteq DOMAIN Q
    BY <1>2 DEF Fields
  <2> HIDE DEF H, Q, J
  <2>3. QED
    BY <2>1, <2>2
<1>5. /\ H.instance = J.instance /\ H.profile = J.profile /\ H.connector = J.connector
  <2> DEFINE Again(f) == firstNonEmpty(Claim(f), Q[f])
  <2>1. Again("instance") = Claim("instance") /\ Again("profile") = Claim("profile")
        /\ Again("connector") = Claim("connector")
    BY FirstAgain
  <2>2. /\ H.instance = Again("instance") /\ H.profile = Again("profile")
        /\ H.connector = Again("connector")
    <3> HIDE DEF H, J
    <3>1. QED
      BY <1>3, <1>4
  <2> HIDE DEF H, Q, J, Again, Claim
  <2>3. QED
    BY <1>3, <2>1, <2>2
<1>6. PICK app \in firstHeaderValue(H, {"app", "device"}),
           session \in firstHeaderValue(H, {"session", "xsession"}) :
        call' = [call EXCEPT !.id = identityFromExecutorRequest(config.settings, H, app, session)]
  BY DEF Identify
<1> DEFINE id == identityFromExecutorRequest(config.settings, H, app, session)
<1>7. call'.id = id
  BY <1>1, <1>6
<1>8. /\ id.principal = H.principal /\ id.stamp = H.stamp
      /\ id.instance = H.instance /\ id.profile = H.profile /\ id.connector = H.connector
      /\ id.app = normalizeClientApp(app, H.agent)
  BY <1>1, <1>3, <1>4 DEF identityFromExecutorRequest
<1>9. Q.device = "" => id.app = J.app
  <2>1. SUFFICES ASSUME Q.device = "" PROVE id.app = J.app
    OBVIOUS
  <2>2. firstHeaderValue(H, {"app", "device"}) = {J.app}
    BY <2>1, <1>3, <1>4 DEF firstHeaderValue
  <2>3. app = J.app /\ app # ""
    BY <2>2, <1>3
  <2>4. QED
    BY <2>3, <1>8 DEF normalizeClientApp
<1> HIDE DEF id, H, Q, J
<1>10. \A f \in Fields \ {"app"} : id[f] = J[f]
  BY <1>5, <1>8 DEF Fields
<1>11. QED
  BY <1>4, <1>7, <1>8, <1>9, <1>10 DEF Q, J

\* The executor passes on the identity the interceptor derived, for any
\* clients, as long as explicit identity is allowed when either derives it
\* (identityFromExecutorRequest takes principal and time from the headers).
THEOREM IdentityCarriedHolds == Spec => IdentityCarried
<1>1. IInv /\ [Next]_vars =>
        [Identify /\ injected # None /\ held.explicit /\ config.settings.explicit =>
           LET id == call'.id
           IN  /\ id.principal = injected.id.principal /\ id.stamp = injected.id.stamp
               /\ \A f \in Fields \ {"app"} : id[f] = injected.id[f]
               /\ req.headers.device = "" => id.app = injected.id.app]_vars
  BY IdentifyCarries
<1>2. QED
  BY <1>1, Invariant, PTL DEF Spec, IdentityCarried

Seed(kind, namespace, app, instance, profile, connector) ==
  (<<kind>> \o <<namespace, app>>) \o <<instance, profile, connector>>

\* The fields are where they are in the seed.
LEMMA SeedFields ==
  \A k, n, a, i, p, c :
    /\ Seed(k, n, a, i, p, c)[3] = a /\ Seed(k, n, a, i, p, c)[4] = i
    /\ Seed(k, n, a, i, p, c)[5] = p /\ Seed(k, n, a, i, p, c)[6] = c
  BY DEF Seed

\* What a client says of itself, and whether it says anything
Claim(r, f) == firstNonEmpty(r.headers[f], r.meta[f])
NamesItself(r) == \E f \in Fields : Claim(r, f) # ""
NamesApp(r)    == Claim(r, "app") # ""

\* What a client that may name itself, and does, is known by
LEMMA ExplicitPrincipal ==
  ASSUME NEW s, s.explicit, NEW r, NamesItself(r), NEW session
  PROVE  LET who == deriveClientIdentityFromIntercept(s, r.headers, r.meta, session).principal
         IN  /\ who[3] = normalizeClientApp(Claim(r, "app"), r.headers.agent)
             /\ who[4] = Claim(r, "instance") /\ who[5] = Claim(r, "profile")
             /\ who[6] = Claim(r, "connector")
<1> DEFINE claimed == [f \in Fields |-> IF s.explicit
                                       THEN firstNonEmpty(r.headers[f], r.meta[f]) ELSE ""]
           bare == [app |-> normalizeClientApp(claimed["app"], r.headers.agent),
                    instance |-> claimed["instance"], profile |-> claimed["profile"],
                    connector |-> claimed["connector"],
                    session |-> IF s.explicit THEN session ELSE "",
                    provider |-> <<>>, stamp |-> "intercepted", principal |-> NoPrincipal]
           named == \E f \in Fields : claimed[f] # ""
           who == deriveStablePrincipal(s, bare, named, r.headers.token, r.headers.agent)
<1>1. deriveClientIdentityFromIntercept(s, r.headers, r.meta, session)
        = [bare EXCEPT !.principal = who]
  BY DEF deriveClientIdentityFromIntercept
<1>2. \A f \in Fields : claimed[f] = Claim(r, f)
  BY DEF Claim
<1>3. named
  BY <1>2 DEF NamesItself
<1>4. {"app", "instance", "profile", "connector"} = Fields
  BY DEF Fields
<1> DEFINE C(f) == claimed[f]
<1>5. /\ C("app") = Claim(r, "app") /\ C("instance") = Claim(r, "instance")
      /\ C("profile") = Claim(r, "profile") /\ C("connector") = Claim(r, "connector")
  BY <1>2, <1>4
<1> HIDE DEF claimed, named
<1>6. /\ bare.app = normalizeClientApp(C("app"), r.headers.agent) /\ bare.instance = C("instance")
      /\ bare.profile = C("profile") /\ bare.connector = C("connector")
      /\ "principal" \in DOMAIN bare
  OBVIOUS
<1> HIDE DEF C, bare
<1>7. normalizeClientApp(bare.app, r.headers.agent) = bare.app
  <2>1. bare.app # ""
    BY <1>6 DEF normalizeClientApp
  <2>2. QED
    BY <2>1 DEF normalizeClientApp
<1>8. who = Seed("explicit", identityNamespace(bare.provider), bare.app, bare.instance,
                 bare.profile, bare.connector)
  BY <1>3, <1>7 DEF deriveStablePrincipal, Seed
<1> HIDE DEF who
<1>9. /\ who[3] = bare.app /\ who[4] = bare.instance /\ who[5] = bare.profile
      /\ who[6] = bare.connector
  BY <1>8, SeedFields
<1>10. deriveClientIdentityFromIntercept(s, r.headers, r.meta, session).principal = who
  BY <1>1, <1>6
<1>11. QED
  BY <1>5, <1>6, <1>9, <1>10

\* Two clients that name themselves differently are told apart, whatever
\* fields they differ in and whoever they are (deriveStablePrincipal puts
\* every field into the seed).
THEOREM IdentitiesApartHolds == Spec => []IdentitiesApart
<1>1. ASSUME IInv, injected # None, held.explicit, NEW q \in Requests,
             NamesItself(q), NamesItself(req), NamesApp(q), NamesApp(req),
             \E f \in Fields : Claim(q, f) # Claim(req, f), NEW none
      PROVE  deriveClientIdentityFromIntercept(held, q.headers, q.meta, none).principal
               # injected.id.principal
  <2> DEFINE mine(session) ==
               deriveClientIdentityFromIntercept(held, req.headers, req.meta, session)
             other == deriveClientIdentityFromIntercept(held, q.headers, q.meta, none).principal
  <2>1. PICK session, provider : injected.id = [Derived(session) EXCEPT !.provider = provider]
    BY <1>1 DEF IInv, IdentityInv
  <2>2. injected.id.principal = mine(session).principal
    <3>1. "principal" \in DOMAIN Derived(session) /\ Derived(session) = mine(session)
      BY DerivedFields, <1>1 DEF Derived
    <3> HIDE DEF mine
    <3>2. QED
      BY <2>1, <3>1
  <2>3. /\ other[3] = normalizeClientApp(Claim(q, "app"), q.headers.agent)
        /\ other[4] = Claim(q, "instance") /\ other[5] = Claim(q, "profile")
        /\ other[6] = Claim(q, "connector")
    BY <1>1, ExplicitPrincipal
  <2>4. /\ mine(session).principal[3] = normalizeClientApp(Claim(req, "app"), req.headers.agent)
        /\ mine(session).principal[4] = Claim(req, "instance")
        /\ mine(session).principal[5] = Claim(req, "profile")
        /\ mine(session).principal[6] = Claim(req, "connector")
    BY <1>1, ExplicitPrincipal
  <2>5. /\ normalizeClientApp(Claim(q, "app"), q.headers.agent) = Claim(q, "app")
        /\ normalizeClientApp(Claim(req, "app"), req.headers.agent) = Claim(req, "app")
    BY <1>1 DEF normalizeClientApp, NamesApp
  <2>6. \/ Claim(q, "app") # Claim(req, "app")
        \/ Claim(q, "instance") # Claim(req, "instance")
        \/ Claim(q, "profile") # Claim(req, "profile")
        \/ Claim(q, "connector") # Claim(req, "connector")
    BY <1>1 DEF Fields
  <2> HIDE DEF mine, other
  <2>7. other # mine(session).principal
    BY <2>3, <2>4, <2>5, <2>6
  <2>8. QED
    BY <2>2, <2>7 DEF other
<1>2. IInv => IdentitiesApart
  <2> DEFINE C(r) == [f \in Fields |-> firstNonEmpty(r.headers[f], r.meta[f])]
  <2>1. \A r : \A f \in Fields : C(r)[f] = Claim(r, f)
    BY DEF Claim
  <2>2. "app" \in Fields
    BY DEF Fields
  <2>3. \A q : C(q) # C(req) => \E f \in Fields : Claim(q, f) # Claim(req, f)
    BY DEF Claim
  <2>4. \A r : /\ (\E f \in Fields : C(r)[f] # "") => NamesItself(r)
               /\ C(r)["app"] # "" => NamesApp(r)
    BY <2>1, <2>2 DEF NamesItself, NamesApp
  <2>5. SUFFICES ASSUME IInv, injected # None, held.explicit, NEW q \in Requests,
                        \E f \in Fields : C(req)[f] # "", \E f \in Fields : C(q)[f] # "",
                        C(q) # C(req), C(q)["app"] # "", C(req)["app"] # ""
                 PROVE  deriveClientIdentityFromIntercept(held, q.headers, q.meta, "").principal
                          # injected.id.principal
    BY DEF IdentitiesApart
  <2>6. /\ NamesItself(q) /\ NamesItself(req) /\ NamesApp(q) /\ NamesApp(req)
        /\ \E f \in Fields : Claim(q, f) # Claim(req, f)
    BY <2>3, <2>4, <2>5
  <2> DEFINE none == ""
  <2> HIDE DEF none
  <2>7. deriveClientIdentityFromIntercept(held, q.headers, q.meta, none).principal
          # injected.id.principal
    BY <1>1, <2>5, <2>6
  <2>8. QED
    BY <2>7 DEF none
<1>3. QED
  BY <1>2, Invariant, PTL
=============================================================================
