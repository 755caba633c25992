------------------------------- MODULE Config -------------------------------
(***************************************************************************)
(* The configuration file synqro_ota.yaml: the document the installer      *)
(* writes (src/scripts/post_install.py) and the document the engine takes  *)
(* (src/src/config.rs).                                                    *)
(*                                                                         *)
(* A document is the template of one installer run, under the installation *)
(* id of that run, with the operator's edits.  A value is only told apart  *)
(* as far as the two programs tell it apart: "good", "bad" (a number or a  *)
(* level out of range), "empty", or the placeholder "REPLACE_ME".          *)
(***************************************************************************)
EXTENDS Naturals

CONSTANTS
    Runs,      \* runs of the installer; each draws an installation id of its own
    Edits,     \* what the operator may do to the installer's document
    Typos,     \* the fields the operator may get wrong
    Absent,    \* there is no file
    Torn       \* an empty file, or a part of a document

Numbers == {"check_interval_seconds", "download_timeout_seconds",
            "max_payload_size_bytes", "level"}
Names == {"version", "provider", "owner", "repo", "branch", "manifest_path",
          "staging_dir", "backup_dir", "audit_log_path"}
Placeholders == {"installation_id", "release_signing_pubkey",
                 "github_api_cert_pin", "env_var"}
Fields == Numbers \cup Names \cup Placeholders \cup
          {"health_check_timeout_seconds", "telegram_token_env_var", "telegram_chat_id"}

(* The operator may fill in whatever says REPLACE_ME, name the environment  *)
(* variables, rename the top key, and switch crash reporting off.           *)
EditKinds == {"checklist", "env_vars", "top_key", "no_reporting"}

Documents == [id : Runs, edits : SUBSET Edits, typos : SUBSET Typos]

ASSUME ConfigConstants ==
    /\ Edits \subseteq EditKinds
    /\ Typos \subseteq Fields
    /\ Absent # Torn
    /\ {Absent, Torn} \cap Documents = {}

-----------------------------------------------------------------------------
(* post_install.py                                                          *)

(* _build_config                                                            *)
Template(f) ==
    CASE f \in {"owner", "repo", "release_signing_pubkey", "github_api_cert_pin",
                "telegram_chat_id"}                -> "REPLACE_ME"
      [] f \in {"env_var", "telegram_token_env_var"} -> "empty"
      [] OTHER                                     -> "good"

BuildConfig(run) == [id |-> run, edits |-> {}, typos |-> {}]

TopKey(doc) == IF "top_key" \in doc.edits THEN "axiomota" ELSE "synqro"

(* _is_valid_installation_id, which looks under the installer's top key.    *)
HasInstallationId(file) == file \in Documents /\ TopKey(file) = "synqro"

-----------------------------------------------------------------------------
(* The document as edited                                                   *)

ValueOf(doc, f) ==
    IF f \in doc.typos
    THEN IF f \in Numbers \cup {"health_check_timeout_seconds"} THEN "bad" ELSE "empty"
    ELSE IF \/ Template(f) = "REPLACE_ME" /\ "checklist" \in doc.edits
            \/ Template(f) = "empty" /\ "env_vars" \in doc.edits
         THEN "good" ELSE Template(f)

-----------------------------------------------------------------------------
(* config.rs                                                                *)

RollbackEnabled(doc) == TRUE
ReportingEnabled(doc) == "no_reporting" \notin doc.edits

(* Mutation of ValidateConfig: placeholders are not recognised.             *)
ValidateNonEmpty(doc) ==
    \A f \in Fields : ValueOf(doc, f) \notin {"bad", "empty"}

(* validate_config: all its refusals are Config errors.                     *)
ValidateConfig(doc) ==
    /\ \A f \in Numbers : ValueOf(doc, f) # "bad"
    /\ \A f \in Names : ValueOf(doc, f) # "empty"
    /\ \A f \in Placeholders : ValueOf(doc, f) \notin {"empty", "REPLACE_ME"}
    /\ RollbackEnabled(doc) => ValueOf(doc, "health_check_timeout_seconds") # "bad"
    /\ ReportingEnabled(doc) =>
          /\ ValueOf(doc, "telegram_token_env_var") \notin {"empty", "REPLACE_ME"}
          /\ ValueOf(doc, "telegram_chat_id") # "empty"

(* load_config                                                              *)
LoadConfig(file) ==
    IF file = Absent THEN "Io"
    ELSE IF file = Torn \/ TopKey(file) # "axiomota" THEN "Yaml"
    ELSE IF ~ValidateConfig(file) THEN "Config"
    ELSE "Ok"
=============================================================================
