------------------------------- MODULE Identity -------------------------------
(***************************************************************************)
(* Who the client is: derived once by the request interceptor and once by  *)
(* the executor, and signed by both.  Hashing is modelled as injective: a  *)
(* principal is the seed it is the hash of, a signature the message and    *)
(* the secret it was made of.                                              *)
(***************************************************************************)
EXTENDS Routing

CONSTANT EnvSecret   \* AGY_PLUGIN_SECRET of the process, "" when it is not set

Fields == {"app", "instance", "profile", "connector"}

NoPrincipal == <<>>

\* The header map is walked in any order: of several of the wanted names that
\* are present any may be the one found.
firstHeaderValue(headers, names) ==
  LET present == {headers[n] : n \in names} \ {""} IN IF present = {} THEN {""} ELSE present

\* The transport is told from the User-Agent, one value for each kind of it.
normalizeClientApp(app, agent) ==
  IF app # "" THEN app
  ELSE IF agent \in {"codex", "hermes", "cursor", "openai-python"} THEN agent
  ELSE "unknown"

identityNamespace(provider) == FirstText(provider, <<"ln.Antigravity">>)

\* Mutation: profiles are not told apart.
deriveStablePrincipal_NoProfile(s, id, explicit, token, agent) ==
  LET app  == normalizeClientApp(id.app, agent)
      seed == <<identityNamespace(id.provider), app>>
  IN  IF s.explicit /\ explicit
      THEN <<"explicit">> \o seed \o <<id.instance, id.connector>>
      ELSE CASE s.fallback = "disabled" -> NoPrincipal
             [] s.fallback = "user_agent_plus_session" ->
                  <<"ua-session">> \o seed \o <<id.session>>
             [] OTHER -> <<"client-key">> \o seed
                          \o <<firstNonEmpty(id.instance, firstNonEmpty(token, id.session))>>

\* What a principal is the hash of.  The application is never empty, so only
\* the disabled mode yields none.
deriveStablePrincipal(s, id, explicit, token, agent) ==
  LET app  == normalizeClientApp(id.app, agent)
      seed == <<identityNamespace(id.provider), app>>
  IN  IF s.explicit /\ explicit
      THEN <<"explicit">> \o seed \o <<id.instance, id.profile, id.connector>>
      ELSE CASE s.fallback = "disabled" -> NoPrincipal
             [] s.fallback = "user_agent_plus_session" ->
                  <<"ua-session">> \o seed \o <<id.session>>
             [] OTHER -> <<"client-key">> \o seed
                          \o <<firstNonEmpty(id.instance, firstNonEmpty(token, id.session))>>

\* Headers, then metadata, count only when explicit identity is allowed.
deriveClientIdentityFromIntercept(s, headers, meta, session) ==
  LET claimed == [f \in Fields |-> IF s.explicit THEN firstNonEmpty(headers[f], meta[f])
                                   ELSE ""]
      id == [app |-> normalizeClientApp(claimed["app"], headers.agent),
             instance |-> claimed["instance"], profile |-> claimed["profile"],
             connector |-> claimed["connector"], session |-> IF s.explicit THEN session ELSE "",
             provider |-> <<>>, stamp |-> "intercepted", principal |-> NoPrincipal]
  IN  [id EXCEPT !.principal =
         deriveStablePrincipal(s, id, \E f \in Fields : claimed[f] # "", headers.token,
                               headers.agent)]

\* Mutation: an identity that came with the request is derived once more.
identityFromExecutorRequest_Rederives(s, headers, app, session) ==
  LET Claim(v) == IF s.explicit THEN v ELSE ""
      id == [app |-> normalizeClientApp(Claim(app), headers.agent),
             instance |-> Claim(headers.instance), profile |-> Claim(headers.profile),
             connector |-> Claim(headers.connector), session |-> Claim(session),
             provider |-> headers.provider, stamp |-> "executed", principal |-> NoPrincipal]
      explicit == s.explicit /\ (app # "" \/ \E f \in Fields \ {"app"} : headers[f] # "")
  IN  [id EXCEPT !.principal = deriveStablePrincipal(s, id, explicit, "", headers.agent)]

\* The executor takes over what the interceptor put into the headers, when
\* explicit identity is allowed, and else derives anew, without the token.
identityFromExecutorRequest(s, headers, app, session) ==
  LET Claim(v) == IF s.explicit THEN v ELSE ""
      given    == s.explicit /\ headers.principal # NoPrincipal
      id == [app |-> normalizeClientApp(Claim(app), headers.agent),
             instance |-> Claim(headers.instance), profile |-> Claim(headers.profile),
             connector |-> Claim(headers.connector), session |-> Claim(session),
             provider |-> headers.provider,
             stamp |-> IF given /\ headers.stamp # "" THEN headers.stamp ELSE "executed",
             principal |-> NoPrincipal]
      explicit == s.explicit /\ (app # "" \/ \E f \in Fields \ {"app"} : headers[f] # "")
  IN  [id EXCEPT !.principal =
         IF given THEN headers.principal
         ELSE deriveStablePrincipal(s, id, explicit, "", headers.agent)]

-----------------------------------------------------------------------------
(* Signatures                                                              *)

hmacSecret(s) == firstNonEmpty(s.bridgeSecret, firstNonEmpty(s.hmacSecret, EnvSecret))

hmacSecretForCandidate(s, apiKey) ==
  IF hmacSecret(s) # "" THEN hmacSecret(s)
  ELSE IF s.secretSource = "provider_api_key" THEN apiKey ELSE ""

identitySignatureMessage(id, path) ==
  <<id.principal, id.stamp, id.app, id.instance, id.profile, id.connector, "POST", path>>
=============================================================================
