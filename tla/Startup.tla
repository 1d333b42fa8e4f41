------------------------------ MODULE Startup -------------------------------
(***************************************************************************)
(* From the environment to a server that listens: the settings of           *)
(* config.rs, the services that wiring.rs selects and the order of main.rs. *)
(*                                                                          *)
(* An environment is a record: the variables port, igdbId, igdbSecret,      *)
(* format and commit, the set up of its parts that work, and the build, the *)
(* files of the client build on disk.  A text of a variable is the record   *)
(* [name, length, hex]; the empty text is one with length 0.                *)
(***************************************************************************)
EXTENDS Integers

CONSTANTS DefaultPort

Absent == [name |-> "", length |-> 0, hex |-> FALSE]

\* non_empty: an empty variable is a missing one.
Given(text) == text.length > 0

LogFormats == {"json", "text"}
IsCommit(text) == text.length \in 7..64 /\ text.hex

\* parse_port: the port is a number, or -1 for a text that is none.
Port(port) == IF port \in 1..65535 THEN port ELSE DefaultPort

\* An invalid setting keeps its default, and only its tag is logged.
InvalidSettings(env) ==
    {tag \in {"invalid_log_format", "invalid_commit_sha"} :
        \/ tag = "invalid_log_format" /\ Given(env.format) /\ env.format.name \notin LogFormats
        \/ tag = "invalid_commit_sha" /\ Given(env.commit) /\ ~IsCommit(env.commit)}

Config(env) == [
    port |-> Port(env.port),
    igdb |-> Given(env.igdbId) /\ Given(env.igdbSecret),
    format |-> IF env.format.name \in LogFormats THEN env.format.name ELSE "json",
    commit |-> IF IsCommit(env.commit) THEN env.commit.name ELSE "unknown"]

\* main and run: what must work before the first connection, in this order.
Steps == <<"logging", "sony_contract", "runtime", "bind">>
Starts(env) == \A k \in DOMAIN Steps : Steps[k] \in env.works

\* state: a client that cannot be built leaves a service that answers an
\* outage; without credentials or a client the critic score is off.
Services(env) == [
    games |-> IF "sony_client" \in env.works THEN "sony" ELSE "notConnected",
    account |-> IF "account_client" \in env.works THEN "sony" ELSE "notConnected",
    critics |-> IF Config(env).igdb /\ "igdb_client" \in env.works THEN "igdb" ELSE "off",
    commit |-> Config(env).commit,
    build |-> env.build]
=============================================================================
