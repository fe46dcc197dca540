----------------------------- MODULE CoreConfig -----------------------------
(***************************************************************************)
(* How a choice of model backend travels from the desktop's settings to    *)
(* the models a server asks: the desktop spells the choice as environment  *)
(* variables (to_serve_env of model_backend.rs), the server reads them     *)
(* back (CoreConfig of config.rs) and builds its two clients from what it  *)
(* read (build_llm and default_nes_backend of agent.rs).                   *)
(*                                                                         *)
(* An environment is a function from the names that are set to their       *)
(* values, without the prefix AIDEA_; what the server reads from the       *)
(* other variables does not depend on the choice.                          *)
(***************************************************************************)

(* The address llama-server listens at, and the defaults of CoreConfig.    *)
LlamaUrl == "http://127.0.0.1:8080/v1"
OllamaUrl == "http://localhost:11434"
OpenAiUrl == "https://api.openai.com/v1"
OpenAiModel == "gpt-4o-mini"
NesTab == "nes-tab:latest"

NoKey == ""

(***************************************************************************)
(* VendorConfig.  An optional text that is absent is the empty text, which *)
(* no page ever sends for these.                                           *)
(***************************************************************************)
Absent == ""
VendorConfig(Urls, Models, Names) ==
  [kind        : {"local", "online"},
   base_url    : Urls \cup {Absent},
   local_model : Models,
   model       : Names \cup {Absent}]

Given(key, value) == IF value = Absent THEN {} ELSE {<<key, value>>}

(* A set of pairs that names each variable once, as an environment.        *)
EnvOf(pairs) ==
  [name \in {pair[1] : pair \in pairs} |->
     (CHOOSE pair \in pairs : pair[1] = name)[2]]

OnlineModel(v) == IF v.model = Absent THEN OpenAiModel ELSE v.model

to_serve_env_NesLeftOut(v, key) ==
  EnvOf(IF v.kind = "local"
        THEN {<<"LLM_BACKEND", "local">>, <<"LLM_BASE_URL", LlamaUrl>>,
              <<"LLM_MODEL", v.local_model>>, <<"MODEL_NAME", v.local_model>>}
        ELSE {<<"LLM_BACKEND", "openai">>, <<"LLM_MODEL", OnlineModel(v)>>}
             \cup Given("LLM_BASE_URL", v.base_url)
             \cup Given("LLM_API_KEY", key))
to_serve_env(v, key) ==
  EnvOf(IF v.kind = "local"
        THEN {<<"LLM_BACKEND", "local">>, <<"NES_BACKEND", "local">>,
              <<"LLM_BASE_URL", LlamaUrl>>,
              <<"LLM_MODEL", v.local_model>>, <<"MODEL_NAME", v.local_model>>}
        ELSE {<<"LLM_BACKEND", "openai">>, <<"NES_BACKEND", "openai">>,
              <<"LLM_MODEL", OnlineModel(v)>>}
             \cup Given("LLM_BASE_URL", v.base_url)
             \cup Given("LLM_API_KEY", key))

(* NesBackend::parse and LlmBackend::parse.                                *)
Backend(name) == IF name \in {"ollama", "openai", "local"} THEN name ELSE "mock"

(* CoreConfig::from_map, with CoreConfig::default for what is missing.     *)
from_map(env) ==
  LET value(name, default) == IF name \in DOMAIN env THEN env[name] ELSE default
  IN [llm_backend    |-> Backend(value("LLM_BACKEND", "mock")),
      nes_backend    |-> Backend(value("NES_BACKEND", "mock")),
      model_endpoint |-> value("MODEL_ENDPOINT", OllamaUrl),
      model_name     |-> value("MODEL_NAME", NesTab),
      llm_base_url   |-> value("LLM_BASE_URL", OpenAiUrl),
      llm_model      |-> value("LLM_MODEL", OpenAiModel),
      llm_api_key    |-> value("LLM_API_KEY", NoKey)]

(* A client, told by the address and the model it asks.                    *)
Client(backend, cfg) ==
  IF backend \in {"openai", "local"}
  THEN [url |-> cfg.llm_base_url, model |-> cfg.llm_model, key |-> cfg.llm_api_key]
  ELSE IF backend = "ollama"
  THEN [url |-> cfg.model_endpoint, model |-> cfg.model_name, key |-> NoKey]
  ELSE [url |-> "mock", model |-> "mock", key |-> NoKey]

build_llm(cfg) == Client(cfg.llm_backend, cfg)
default_nes_backend(cfg) == Client(cfg.nes_backend, cfg)

=============================================================================
