------------------------------ MODULE Catalog ------------------------------
(***************************************************************************)
(* The model catalog (gateway/catalog.py, gateway/factory.py): what is     *)
(* accepted at startup, and what a route or a model id resolves to.        *)
(* models is a sequence of [id, provider, kind, dimensions], routes a      *)
(* function from names to sequences of ids.                                *)
(***************************************************************************)
EXTENDS Integers, Sequences, FiniteSets, SequencesExt, Selection

\* What the schema of the file makes sure of.
ModelSpec == [id : STRING, provider : STRING, kind : {"chat", "embedding"}, dimensions : Nat]
WellTyped(c) ==
    /\ c = [providers |-> c.providers, models |-> c.models, routes |-> c.routes,
            selectable |-> c.selectable, defaults |-> c.defaults]
    /\ c.models \in Seq(ModelSpec)
    /\ c.selectable \in Seq(STRING)
    /\ \A name \in DOMAIN c.routes : c.routes[name] \in Seq(STRING)

Ids(c) == {c.models[i].id : i \in DOMAIN c.models}
model(c, id) == c.models[CHOOSE i \in DOMAIN c.models : c.models[i].id = id]
KindOf(c, id) == model(c, id).kind

\* Mutant: an embedding route may have a fallback.
RoutesMayFallBack(c) ==
    \A name \in DOMAIN c.routes :
      LET targets == c.routes[name] IN
      /\ name \notin Ids(c)
      /\ targets # << >>
      /\ Range(targets) \subseteq Ids(c)
      /\ Cardinality({KindOf(c, t) : t \in Range(targets)}) = 1

RoutesAreSound(c) ==
    \A name \in DOMAIN c.routes :
      LET targets == c.routes[name]
          kinds == {KindOf(c, t) : t \in Range(targets)}
      IN  /\ name \notin Ids(c)
          /\ targets # << >>
          /\ Range(targets) \subseteq Ids(c)
          /\ Cardinality(kinds) = 1
          /\ kinds = {"embedding"} => Len(targets) = 1

_validate_references(c) ==
    /\ Cardinality(Ids(c)) = Len(c.models)
    /\ \A m \in Range(c.models) :
         /\ m.provider \in c.providers
         /\ m.kind = "embedding" => m.dimensions > 0
    /\ RoutesAreSound(c)
    /\ \A id \in Range(c.selectable) : id \in Ids(c) /\ KindOf(c, id) = "chat"
    /\ IsInjective(c.selectable)
    /\ \A kind \in {"chat", "embedding"} :
         /\ c.defaults[kind] \in DOMAIN c.routes
         /\ KindOf(c, c.routes[c.defaults[kind]][1]) = kind

Unknown == [error |-> "unknown"]

\* No name means the default; a picker model is followed by the other picker models.
resolve(c, name, kind) ==
    LET route == IF name = "" THEN c.defaults[kind] ELSE name
        targets == IF kind = "chat" /\ route \in Range(c.selectable)
                   THEN <<route>> \o Select(c.selectable, Range(c.selectable) \ {route})
                   ELSE IF route \in DOMAIN c.routes THEN c.routes[route]
                   ELSE IF route \in Ids(c) THEN <<route>> ELSE << >>
    IN  IF targets = << >> \/ KindOf(c, targets[1]) # kind THEN Unknown
        ELSE [targets |-> targets]

\* Mutant: the provider is only taken off the routes and the picker.
HideProvider(c, provider) ==
    LET kept == {m.id : m \in {m \in Range(c.models) : m.provider # provider}} IN
        [c EXCEPT !.routes = [name \in {n \in DOMAIN c.routes :
                                          Range(c.routes[n]) \cap kept # {}} |->
                                Select(c.routes[name], kept)],
                  !.selectable = Select(@, kept)]

\* Everything that depends on the provider goes; a route that loses all its targets too.
without_provider(c, provider) ==
    LET models == Select(c.models, {m \in Range(c.models) : m.provider # provider})
        kept == {models[i].id : i \in DOMAIN models}
    IN  [c EXCEPT !.providers = @ \ {provider}, !.models = models,
                  !.routes = [name \in {n \in DOMAIN c.routes :
                                          Range(c.routes[n]) \cap kept # {}} |->
                                Select(c.routes[name], kept)],
                  !.selectable = Select(@, kept)]

\* A client may choose a picker model, in dev and test anything that resolves.
check_choice(c, name, allow_any) ==
    \/ name = "" \/ name \in Range(c.selectable)
    \/ allow_any /\ resolve(c, name, "chat") # Unknown

\* Settings: a deployment is its environment, enable_mock_provider ("unset", "on",
\* "off") and whether the secrets are its own.
allow_any_model(d) == d.env \in {"dev", "test"}
mock_provider_enabled(d) == IF d.mock = "unset" THEN d.env \in {"dev", "test"} ELSE d.mock = "on"
validate_for_env(d) ==
    /\ d.env \in {"staging", "prod"} => d.own_secrets
    /\ ~ (d.env = "prod" /\ d.mock = "on")

\* build_gateway drops the mock where it is not enabled, which validates the catalog
\* again; the application does not start on a catalog or on settings that are not sound.
Served(c, d) ==
    IF ~ mock_provider_enabled(d) /\ "mock" \in c.providers THEN without_provider(c, "mock") ELSE c
Starts(c, d) == validate_for_env(d) /\ _validate_references(c) /\ _validate_references(Served(c, d))
=============================================================================
