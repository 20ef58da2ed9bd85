------------------------------ MODULE Providers ------------------------------
(***************************************************************************)
(* The providers of summaries and titles: how the environment and the      *)
(* settings of the instance make the configuration a request uses          *)
(* (summarizer.rs, env_config.rs, thread_title.rs), what the settings      *)
(* page, the effective configuration and the capture options tell of it    *)
(* (routes.rs, effective_config.rs), the list of models an administrator   *)
(* asks an endpoint for, and the PATCH that writes the settings.           *)
(*                                                                         *)
(* A value is where it comes from: a model "slot" is the one an            *)
(* administrator gave a kind of provider, "instance" the one given to the  *)
(* endpoint, "env" and "title" those of the environment, "default" what is *)
(* built in.  codex_cli is configured as claude_cli is, and left out.      *)
(***************************************************************************)
EXTENDS Naturals, FiniteSets, FiniteSetsExt

CONSTANTS
    Patcher,        \* administrators' requests that may be under way at once
    Together,       \* sets of fields a PATCH may write at once
    MaxPatches      \* bound: PATCHes ever begun

Kinds == {"anthropic_http", "openai_compatible", "claude_cli"}
Field == {"base", "key", "model"} \cup Kinds    \* of a kind, its title model

ASSUME ProvidersAssumption == MaxPatches \in Nat /\ Together \subseteq SUBSET Field

VARIABLES
    env,        \* the environment of the server
    settings,   \* [Field -> BOOLEAN]: the columns of instance_settings that hold a value
    patch,      \* [Patcher -> Patch]: PATCHes under way
    patches,    \* PATCHes ever begun
    committed   \* history: [Field -> BOOLEAN]: what the last PATCH that wrote the field made of it

providerVars == <<env, settings, patch, patches, committed>>

----------------------------------------------------------------------------
(* The environment.                                                        *)

\* claude is named by the variable, at a place it is known to be installed to, on PATH or nowhere;
\* "misnamed": the variable names a file that is not there.
Cli == {"none", "path", "known", "named", "misnamed"}
Environment ==
    [anthropicKey : BOOLEAN, openaiKey : BOOLEAN, url : {"default", "env"}, model : BOOLEAN, title : BOOLEAN,
     cli : Cli]

Given(set, value, otherwise) == IF set THEN value ELSE otherwise

\* cli_executable_available of what resolve_cli finds; a name alone is looked for on PATH.
ResolvedCli(e) == IF e.cli \in {"named", "misnamed", "known"} THEN e.cli ELSE "claude"
Executable(e) == ResolvedCli(e) \in {"named", "known"} \/ (ResolvedCli(e) = "claude" /\ e.cli = "path")

----------------------------------------------------------------------------
(* Configurations.                                                         *)

ProviderConfig(host, key, model) == {[host |-> host, key |-> key, model |-> model]}
NoOverrides == [f \in Field |-> FALSE]

\* openai_compatible_overrides as o: an endpoint of the instance needs no key.
ProviderFrom(e, o, kind) ==
    CASE kind = "anthropic_http" ->
           IF e.anthropicKey THEN ProviderConfig("anthropic", "env", "default") ELSE {}
      [] kind = "openai_compatible" ->
           IF ~o["key"] /\ ~o["base"] /\ ~e.openaiKey THEN {}
           ELSE ProviderConfig(Given(o["base"], "instance", e.url),
                       Given(o["key"], "instance", Given(e.openaiKey, "env", "none")),
                       Given(o["model"], "instance", Given(e.model, "env", "default")))
      [] OTHER -> ProviderConfig("local", "none", "default")

\* resolve_title_model_with_openai_overrides; without overrides, resolve_title_model.
TitleModelFrom(e, slot, o, kind) ==
    IF slot THEN "slot"
    ELSE IF kind = "openai_compatible" /\ o["model"] THEN "instance"
    ELSE Given(e.title, "title", "default")

\* title_provider_from_env_with_openai_overrides.
\* A slip in it: the model of the endpoint is not looked at.
EndpointLeftOut(kind) == TitleModelFrom(env, settings[kind], NoOverrides, kind)
TitleModel(kind) == TitleModelFrom(env, settings[kind], settings, kind)
WithTitleModel(kind) == {[c EXCEPT !.model = TitleModel(kind)] : c \in ProviderFrom(env, settings, kind)}

\* send_openai, send_anthropic: no header for a key there is none of.
Call(c) == [host |-> c.host, key |-> c.key]

\* A configuration that can be called.
Works(e, o, kind) == ProviderFrom(e, o, kind) # {} /\ (kind = "claude_cli" => Executable(e))

----------------------------------------------------------------------------
(* What the server tells of them.                                          *)

\* get_instance_settings_handler: title_models.
SettingsPage(kind) ==
    [model |-> TitleModelFrom(env, settings[kind], settings, kind),
     fallback |-> TitleModelFrom(env, FALSE, settings, kind)]

\* summary_providers_json, title_models_json.
\* A slip in it: what is missing is looked for whatever the instance has.
MissingKey(kind) ==
    IF kind = "openai_compatible" /\ ~env.openaiKey THEN {"openaiKey"}
    ELSE IF kind = "anthropic_http" /\ ~env.anthropicKey THEN {"anthropicKey"} ELSE {}
MissingEnv(kind) ==
    IF ProviderFrom(env, settings, kind) # {} THEN {}
    ELSE IF kind = "anthropic_http" THEN {v \in {"anthropicKey"} : ~env[v]}
    ELSE IF settings["base"] THEN {} ELSE {v \in {"openaiKey"} : ~env[v]}
EffectiveProvider(kind) ==
    [configured |-> Works(env, settings, kind), missing |-> MissingEnv(kind),
     models |-> {c.model : c \in ProviderFrom(env, settings, kind)}]
EffectiveTitleModel(kind) == TitleModelFrom(env, settings[kind], NoOverrides, kind)

\* capture_options_handler looks at the environment alone.
OfferedTitle(kind) == Works(env, NoOverrides, kind)

\* fetch_openai_models_handler with what the administrator typed; an empty field counts as what is stored.
\* A slip in it: the key of the environment comes first.
KeyOfEnv(draft) == Given(draft.key, "draft", Given(env.openaiKey, "env", Given(settings["key"], "instance", "none")))
FetchKey(draft) == Given(draft.key, "draft", Given(settings["key"], "instance", Given(env.openaiKey, "env", "none")))
FetchHost(draft) == Given(draft.base, "draft", Given(settings["base"], "instance", env.url))
ModelsOf(draft) == [host |-> FetchHost(draft), key |-> FetchKey(draft)]

----------------------------------------------------------------------------
(* PATCHes.                                                                *)

NoPatch == [at |-> "idle", body |-> <<>>, copy |-> NoOverrides]
\* "bad": a URL with no scheme, or a model that is too long or has a space in it.
PatchBody == UNION {[fields -> {"value", "empty", "bad"}] : fields \in Together}

\* A slip in it: the transaction takes the lock when it writes.
Deferred == TRUE
Unlocked == \A p \in Patcher : patch[p].at = "idle"

\* The settings are read under the write lock, and the body is laid over them.
Lay(body, copy) == [f \in Field |-> IF f \in DOMAIN body THEN body[f] = "value" ELSE copy[f]]
BeginPatch(p) ==
    /\ patch[p].at = "idle" /\ patches < MaxPatches /\ Unlocked
    /\ \E body \in PatchBody : patch' = [patch EXCEPT ![p] = [at |-> "merge", body |-> body, copy |-> settings]]
    /\ patches' = patches + 1
    /\ UNCHANGED <<env, settings, committed>>
\* One bad value refuses them all; a key, and the model of the endpoint, is never bad.
Refused(body) == \E f \in DOMAIN body \ {"key", "model"} : body[f] = "bad"
RefusePatch(p) ==
    /\ patch[p].at = "merge" /\ Refused(patch[p].body)
    /\ patch' = [patch EXCEPT ![p] = NoPatch]
    /\ UNCHANGED <<env, settings, patches, committed>>
Meant(body) == [f \in DOMAIN body |-> IF body[f] = "bad" THEN "value" ELSE body[f]]
CommitPatch(p) ==
    /\ patch[p].at = "merge" /\ ~Refused(patch[p].body)
    /\ LET body == Meant(patch[p].body)
       IN  /\ settings' = Lay(body, patch[p].copy)
           /\ committed' = [f \in Field |-> IF f \in DOMAIN body THEN body[f] = "value" ELSE committed[f]]
    /\ patch' = [patch EXCEPT ![p] = NoPatch]
    /\ UNCHANGED <<env, patches>>

ProvidersInit ==
    /\ env \in Environment
    /\ settings = NoOverrides /\ committed = NoOverrides
    /\ patch = [p \in Patcher |-> NoPatch] /\ patches = 0
ProvidersNext == \E p \in Patcher : BeginPatch(p) \/ RefusePatch(p) \/ CommitPatch(p)

ProvidersTypeOK ==
    /\ env \in Environment /\ settings \in [Field -> BOOLEAN] /\ committed \in [Field -> BOOLEAN]
    /\ \A p \in Patcher : patch[p].at \in {"idle", "merge"} /\ patch[p].copy \in [Field -> BOOLEAN]
    /\ patches \in 0..MaxPatches

----------------------------------------------------------------------------
(* What has to hold.                                                       *)

(* The model shown for titles is the one a title request uses, and the       *)
(* fallback shown is what it would use were the override cleared; but the    *)
(* effective configuration does not know of the model of the endpoint        *)
(* (get_instance_settings_handler, title_models_json).                       *)
ShownModelIsUsed ==
    \A kind \in Kinds :
        /\ \A c \in WithTitleModel(kind) : c.model = SettingsPage(kind).model
        /\ settings[kind] \/ SettingsPage(kind).fallback = TitleModel(kind)
        /\ \/ EffectiveTitleModel(kind) = TitleModel(kind)
           \/ kind = "openai_compatible" /\ settings["model"] /\ ~settings[kind]

(* What is shown as configured can be called, and what is not can be once    *)
(* the variables it names are set, or a program is installed                 *)
(* (summary_providers_json).                                                 *)
WithEnv(names) == [v \in DOMAIN env |-> IF v \in names THEN TRUE ELSE env[v]]
ConfiguredWorks ==
    \A kind \in Kinds :
        /\ EffectiveProvider(kind).configured <=> WithTitleModel(kind) # {} /\ Works(env, settings, kind)
        /\ \/ kind = "claude_cli" \/ Works(WithEnv(EffectiveProvider(kind).missing), settings, kind)
        /\ EffectiveProvider(kind).missing # {} => ~EffectiveProvider(kind).configured

(* A provider offered with a capture works; one that works is offered, but   *)
(* for an endpoint only the instance has the key or the address of           *)
(* (capture_options_handler).                                                *)
OfferedWorks ==
    \A kind \in Kinds :
        /\ OfferedTitle(kind) => Works(env, settings, kind)
        /\ Works(env, settings, kind) =>
             OfferedTitle(kind) \/ (kind = "openai_compatible" /\ (settings["base"] \/ settings["key"]))

(* With nothing typed, models are asked of the host, and with the key, that  *)
(* requests go to and with (fetch_openai_models_handler).                    *)
ModelsAreOfTheEndpoint ==
    \A c \in ProviderFrom(env, settings, "openai_compatible") :
        ModelsOf([base |-> FALSE, key |-> FALSE]) = Call(c)

(* Every field is what the last PATCH that named it made of it               *)
(* (update_instance_settings_handler).                                       *)
NoPatchIsLost == settings = committed

(* What is told of the providers is what requests use.                       *)
ProvidersAgree ==
    ShownModelIsUsed /\ ConfiguredWorks /\ OfferedWorks /\ ModelsAreOfTheEndpoint /\ NoPatchIsLost
=============================================================================
