------------------------ MODULE ServerConfiguration ------------------------
(***************************************************************************)
(* The configuration among the variables of the whole server, and what is  *)
(* asked of it there.                                                      *)
(***************************************************************************)
EXTENDS Naturals

CONSTANTS Topics, Varied(_), KeyFileHolds, MaxEdits, DBLists(_), DBEnvs(_), DBFlags(_)

VARIABLES topic, file, env, flags, config, phase, edits, outcome

Conf == INSTANCE Configuration

\* Settings whose merge looks at each other are looked at together: all of
\* them may be, as they are in the code.
ASSUME SettingsAssumption ==
  /\ MaxEdits \in Nat
  /\ \A t \in Topics :
       /\ t \subseteq DOMAIN Conf!Kind
       /\ "auth_enabled" \in t <=> "token_file" \in t
       /\ t \cap {"kb_enabled", "kb_path", "kb_provider"} # {} => {"kb_enabled", "kb_path"} \subseteq t

configVars == <<topic, file, env, flags, config, phase, edits, outcome>>

\* See Configuration: a setting has the value of its highest source, except
\* where the code departs from its own order; what runs is valid; and the -db
\* flags keep their rank in a reload.
ConfigurationSound ==
  Conf!TypeOK /\ Conf!SourcesRanked /\ Conf!RunningIsValid /\ Conf!ReloadKeepsDatabaseFlags
=============================================================================
