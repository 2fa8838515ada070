--------------------------- MODULE MCProviderEditor ---------------------------
(* The mirrored provider, switched off and with three keys, behind one that  *)
(* shares its prefix; the same moved, unfiled, without models, and with the  *)
(* settings elsewhere.  The provider stays matched when it is renamed, by    *)
(* its URL.                                                                  *)
EXTENDS ProviderEditor

Model(name, alias, thinking) ==
  [name |-> name, alias |-> alias, image |-> FALSE, modal |-> {}, thinking |-> thinking]
Levels2 == [levels |-> {"low", "high"}, zero |-> TRUE, budget |-> TRUE]
Budget  == [levels |-> {}, zero |-> FALSE, budget |-> TRUE]

Q == [id |-> "q", name |-> <<"other">>, prefix |-> <<"agy">>, disabled |-> FALSE,
      url |-> [host |-> <<"elsewhere">>, path |-> <<"/", "v1">>],
      keys |-> <<"k3">>, models |-> {Model("pro", "", None)}]
P == [id |-> "p", name |-> <<"my-", "antigravity">>, prefix |-> <<"agy">>, disabled |-> TRUE,
      url |-> [host |-> <<"agy2api">>, path |-> <<"/", "v1", "/">>],
      keys |-> <<"k1", "k2", "k4">>,
      models |-> {[Model("pro", "gem", Levels2) EXCEPT !.modal = {"text"}],
                  [Model("", "draw", Budget) EXCEPT !.image = TRUE]}]

None4 == [p \in {"plugins.configs", "plugins", "configs", "root"} |-> None]
Written == [secretSource |-> "provider_api_key", executor |-> TRUE]

Usual   == [sections |-> [None4 EXCEPT !["plugins.configs"] = Written],
            blocks |-> <<Q, P>>, path |-> TRUE]
Moved   == [sections |-> [None4 EXCEPT !["root"] = [executor |-> FALSE, mode |-> "??"]],
            blocks |-> <<[P EXCEPT !.url.host = <<"agy2api", ".two">>, !.models = {},
                                   !.keys = <<"k1">>], Q>>, path |-> TRUE]
Unfiled == [sections |-> None4, blocks |-> <<Q>>, path |-> FALSE]
MCConfigs == {Usual, Moved, Unfiled}

Families2 == [f \in {"pro"} |-> {"none", "low"}]

Item(id, efforts, effort) ==
  [id |-> id, efforts |-> efforts, effort |-> effort, image |-> FALSE, modal |-> {}]
Long    == [success |-> TRUE, items |-> <<Item("pro", {"high"}, ""), Item("image", {}, "low"),
                                          Item("pro", {}, ""), Item("", {}, "")>>]
Short   == [success |-> TRUE, items |-> <<Item("pro", {}, "")>>]
Failing == [success |-> FALSE, items |-> <<Item("pro", {}, "")>>]
MCReplies == {Long, Short, Failing}

Renamed == <<"renamed">>

MCFiles == {[kind |-> "ids", entries |-> {"pro", "old"}]}

\* What the theorem about SavedOverBlock assumes is so here.
ASSUME ModelsAssumption == NamesApart

=============================================================================
