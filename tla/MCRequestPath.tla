--------------------------- MODULE MCRequestPath ---------------------------
(* Two blocks, the prefix of one inside the prefix of the other, one with a  *)
(* trailing slash and two keys; configurations that disagree on everything  *)
(* a request in flight reads twice; requests on every route.                *)
EXTENDS RequestPath

Pro   == <<"gem">>
Image == <<"gem-", "image">>
Model(name) == [name |-> name, alias |-> <<>>, image |-> name # Pro]

Inner == [name |-> <<"mine">>, prefix |-> <<"agy", "/", "x">>, disabled |-> FALSE,
          url |-> [host |-> <<"agy2api", ".two">>, path |-> <<"/", "v1", "/">>],
          keys |-> <<"k2", "k3">>, models |-> {Model(Pro), Model(<<"draw">>)}]
Outer == [name |-> <<"my-", "antigravity">>, prefix |-> <<"agy">>, disabled |-> TRUE,
          url |-> [host |-> <<"agy2api">>, path |-> <<"/", "v1">>],
          keys |-> <<"k1">>, models |-> {}]

Settings(hmac) ==
  [enabled |-> TRUE, auto |-> TRUE, includeNative |-> TRUE, mode |-> "any",
   matchName |-> <<>>, matchProviders |-> {}, matchUrl |-> <<>>, matchKey |-> "",
   matchModels |-> {}, fallback |-> "client_key_hash", explicit |-> TRUE,
   namespace |-> <<>>, bridgeSecret |-> "", hmacSecret |-> hmac,
   secretSource |-> "provider_api_key"]

Discover == [settings |-> Settings(""), blocks |-> <<Inner, Outer>>]
Strict  == [settings |-> [Settings("s") EXCEPT !.mode = "all", !.explicit = FALSE,
                            !.matchUrl = <<"*", "agy2api", "*">>,
                            !.matchProviders = {<<"my-", "?">>},
                            !.fallback = "user_agent_plus_session",
                            !.namespace = <<"test", "/">>],
            blocks |-> <<Outer>>]
Off     == [settings |-> [Settings("") EXCEPT !.enabled = FALSE], blocks |-> <<>>]
Keyless == [settings |-> [Settings("") EXCEPT !.fallback = "disabled"],
            blocks |-> <<[Outer EXCEPT !.keys = <<>>], [Inner EXCEPT !.keys = <<>>]>>]
MCConfigs == {Discover, Strict, Off, Keyless}

\* Selectors of every kind: one block is matched by its URL, the other by its
\* second key alone, and its models are named as well.
Picky == [settings |-> [Settings("") EXCEPT !.matchKey = "k3", !.matchUrl = <<"agy2api", "/">>,
                          !.matchModels = {<<"agy", "/", "x", "/", "*">>}],
          blocks |-> <<Inner, Outer>>]
Selectors == MCConfigs \cup {Picky}

\* Clients may not name themselves and are to be told apart by their keys.
Keys == {[Discover EXCEPT !.settings.explicit = FALSE]}

MCCatalog == {Model(Pro), Model(Image)}

NoFields == [app |-> "", instance |-> "", profile |-> "", connector |-> ""]
Headers  == [app |-> "", instance |-> "", profile |-> "", connector |-> "", device |-> "",
             session |-> "", xsession |-> "", provider |-> <<>>, agent |-> "codex",
             token |-> "t1", principal |-> <<>>, stamp |-> ""]
Hermes == [Headers EXCEPT !.app = "hermes", !.instance = "i1", !.profile = "p1"]
Json(model, effort) == [json |-> TRUE, model |-> model, effort |-> effort, stream |-> FALSE]
Chat == [op |-> "execute_stream", model |-> <<"agy", "/", "gem", "(", "high", ")">>, authPrefix |-> <<"agy">>,
         format |-> "chat", alt |-> "", path |-> <<"/", "v1">> \o chatCompletionsEndpoint,
         provider |-> <<>>, effort |-> "", contentType |-> "", headers |-> Headers,
         meta |-> NoFields,
         body |-> Json(<<"agy", "/", "gem", "(", "high", ")">>, "")]

Nested == [Chat EXCEPT !.model = <<"agy", "/", "x", "/", "gem", "(", "off", ")">>,
             !.authPrefix = <<"agy", "/", "x">>,
             !.path = <<"/", "v1", "/", "responses">>, !.body = Json(<<"agy", "/", "x", "/", "gem">>, "high"),
             !.headers = [Hermes EXCEPT !.device = "phone"]]
Edit == [Chat EXCEPT !.op = "execute", !.model = <<"agy", "/", "gem-", "image">>, !.format = "image",
           !.path = <<"/", "v1">> \o imageEditsEndpoint, !.contentType = "multipart",
           !.body = [Json(<<>>, "") EXCEPT !.json = FALSE],
           !.headers = [Hermes EXCEPT !.profile = "p2"]]
Drawn == [Chat EXCEPT !.model = <<"agy", "/", "gem-", "image">>, !.path = <<>>, !.effort = "low",
            !.body = Json(<<"agy", "/", "gem-", "image">>, ""),
            !.headers = [Headers EXCEPT !.session = "a", !.xsession = "b"]]
Named == [Chat EXCEPT !.op = "count_tokens", !.model = <<"draw", "(", "high", ")">>, !.provider = <<"antigravity">>, !.effort = "low",
            !.path = chatCompletionsEndpoint, !.body = Json(<<"draw", "(", "high", ")">>, ""),
            !.meta = [NoFields EXCEPT !.app = "cursor"], !.headers = [Headers EXCEPT !.token = "t2"]]
MCRequests == {Nested, Edit, Drawn, Named}
=============================================================================
