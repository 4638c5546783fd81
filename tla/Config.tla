------------------------------- MODULE Config -------------------------------
(***************************************************************************)
(* The configuration of the agent (config/config.go) and the environment   *)
(* lookups it is made of (utils/env.go), as operators.                     *)
(*                                                                         *)
(* An environment variable is Unset or has a value: a string, or, where    *)
(* the code splits it at commas, the sequence of the pieces.  The settings *)
(* of the assembler are not read from the environment; they are constants  *)
(* of TcpAssembler and EventPipeline.                                      *)
(***************************************************************************)
EXTENDS Integers, Sequences, SequencesExt

CONSTANT Unset   \* the value of a variable that is not set

\* os.Getenv does not tell a variable that is empty from one that is not set.
LookupEnvOrString(env, def) == IF env \in {Unset, ""} THEN def ELSE env

LookupEnvOrBool(env, def) ==
    CASE env \in {"1", "t", "T", "TRUE", "true", "True"} -> TRUE
      [] env \in {"0", "f", "F", "FALSE", "false", "False"} -> FALSE
      [] OTHER -> def

\* A piece is a key and a value when it has one equals sign; the last one counts.
LookupEnvAsStringMap(env) ==
    LET pairs == IF env = Unset THEN << >> ELSE SelectSeq(env, LAMBDA p : Len(p) = 2)
        keys  == {pairs[i][1] : i \in DOMAIN pairs}
    IN  [k \in keys |-> pairs[SelectLastInSeq(pairs, LAMBDA p : p[1] = k)][2]]

\* A list of names: neither the order nor a repetition makes a difference to the
\* one use of it, extractHeaders, so its set is kept.
LookupEnvAsStringSlice(env) ==
    [values |-> IF env = Unset THEN {} ELSE {env[i] : i \in DOMAIN env} \ {""},
     found  |-> env # Unset]

\* Mutant of getHTTPHeadersToExtract: an override is added to the defaults.
DefaultsAndOverride(env) ==
    {"User-Agent", "Traceparent"} \cup LookupEnvAsStringSlice(env).values

getHTTPHeadersToExtract(env) ==
    IF LookupEnvAsStringSlice(env).found THEN LookupEnvAsStringSlice(env).values
    ELSE {"User-Agent", "Traceparent"}

DefaultEndpoint == "https://api.honeycomb.io"

\* What the agent says of itself, if the deployment tells it.
AgentFields == {"meta.agent.node.ip", "meta.agent.node.name", "meta.agent.serviceaccount.name",
                "meta.agent.pod.ip", "meta.agent.pod.name"}

NewConfig(env) ==
    [APIKey       |-> LookupEnvOrString(env.HONEYCOMB_API_KEY, ""),
     Endpoint     |-> LookupEnvOrString(env.HONEYCOMB_API_ENDPOINT, DefaultEndpoint),
     Dataset      |-> LookupEnvOrString(env.HONEYCOMB_DATASET, "hny-network-agent"),
     StatsDataset |-> LookupEnvOrString(env.HONEYCOMB_STATS_DATASET, "hny-network-agent-stats"),
     LogLevel     |-> LookupEnvOrString(env.LOG_LEVEL, "INFO"),
     Debug        |-> LookupEnvOrBool(env.DEBUG, FALSE),
     DebugAddress |-> LookupEnvOrString(env.DEBUG_ADDRESS, "0.0.0.0:6060"),
     Agent        |-> [f \in AgentFields |-> LookupEnvOrString(env.AGENT, "")],
     AdditionalAttributes |-> LookupEnvAsStringMap(env.ADDITIONAL_ATTRIBUTES),
     IncludeRequestURL    |-> LookupEnvOrBool(env.INCLUDE_REQUEST_URL, TRUE),
     HTTPHeadersToExtract |-> getHTTPHeadersToExtract(env.HTTP_HEADERS),
     EventHandlerType     |-> LookupEnvOrString(env.HANDLER_TYPE, "otel")]

\* Mutant of Validate: the key is not verified.
ValidatePresence(c, verified) == IF c.APIKey = "" THEN {"Missing API key"} ELSE {}

(* The errors, given the answer of libhoney.VerifyAPIKey.  With another    *)
(* endpoint than the default one nothing is checked: the error about a     *)
(* missing key is dropped as well.                                         *)
Validate(c, verified) ==
    IF c.Endpoint # DefaultEndpoint THEN {}
    ELSE (IF c.APIKey = "" THEN {"Missing API key"} ELSE {})
         \cup (IF verified THEN {} ELSE {"Invalid API key"})
=============================================================================
