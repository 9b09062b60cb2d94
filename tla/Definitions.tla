---------------------------- MODULE Definitions ----------------------------
(***************************************************************************)
(* The definitions file (internal/definitions) as operators: which         *)
(* definitions are accepted, how a prompt's template is filled in and how  *)
(* a tool's arguments go to its placeholders, and the languages a tool may *)
(* be written in. The file is a record [prompts, resources, tools] of      *)
(* sequences; a field that is absent or empty is the value Empty.          *)
(***************************************************************************)
EXTENDS Integers, Sequences, FiniteSets, SequencesExt

CONSTANT Empty

Distinct(s) == \A i, j \in DOMAIN s : s[i] = s[j] => i = j

(***************************************************************************)
(* Prompts. A template is a sequence of <<"literal", word>> and            *)
(* <<"argument", name>>.                                                   *)
(***************************************************************************)
Literal(word) == <<"literal", word>>
Argument(name) == <<"argument", name>>
GetTemplatePlaceholders(template) ==
  {item[2] : item \in {template[i] : i \in
                         {j \in DOMAIN template : template[j][1] = "argument"}}}

validateMessage(msg, arguments) ==
  /\ msg.role \in {"user", "assistant", "system"}
  /\ \/ /\ msg.type = "text" /\ msg.text # <<>>
        /\ GetTemplatePlaceholders(msg.text) \subseteq arguments
     \/ msg.type \in {"image", "resource"} /\ msg.content # Empty

validatePrompt(p) ==
  /\ p.name # Empty /\ p.messages # <<>> /\ Empty \notin p.arguments
  /\ \A i \in DOMAIN p.messages : validateMessage(p.messages[i], p.arguments)

\* The arguments given are put in one after the other, in the order the map
\* of them happens to be read in; what one of them put in is looked through
\* again for the next.
Substitute(template, name, value) ==
  FlattenSeq([i \in DOMAIN template |->
                IF template[i] = Argument(name) THEN value ELSE <<template[i]>>])
interpolateTemplate(template, args, order) ==
  FoldLeft(LAMBDA t, name : Substitute(t, name, args[name]), template, order)
Orders(S) == {o \in [1 .. Cardinality(S) -> S] : Distinct(o)}

(***************************************************************************)
(* Resources and tools.                                                    *)
(***************************************************************************)
validateResource(r) ==
  /\ r.uri # Empty /\ r.name # Empty
  /\ \/ r.type = "sql" /\ r.sql # Empty
     \/ r.type = "static" /\ r.data # Empty

Languages == {"plpgsql", "plpython3u", "plv8"}
PropertyTypes == {"string", "integer", "number", "boolean", "array", "object"}

validateToolInputSchema(schema) ==
  /\ schema.type \in {Empty, "object"}
  /\ \A name \in DOMAIN schema.properties :
       schema.properties[name].type \in PropertyTypes
  /\ ToSet(schema.required) \subseteq DOMAIN schema.properties

validateTool(t) ==
  /\ t.name # Empty
  /\ validateToolInputSchema(t.schema)
  /\ \/ t.type = "sql" /\ t.sql # Empty
     \/ t.type = "pl-do" /\ t.language \in Languages /\ t.code # Empty
     \/ /\ t.type = "pl-func" /\ t.language \in Languages /\ t.code # Empty
        /\ t.returns # Empty

Names(defs, Key(_)) == [i \in DOMAIN defs |-> Key(defs[i])]
ValidateDefinitions(defs) ==
  /\ \A i \in DOMAIN defs.prompts : validatePrompt(defs.prompts[i])
  /\ \A i \in DOMAIN defs.resources : validateResource(defs.resources[i])
  /\ \A i \in DOMAIN defs.tools : validateTool(defs.tools[i])
  /\ Distinct(Names(defs.prompts, LAMBDA p : p.name))
  /\ Distinct(Names(defs.resources, LAMBDA r : r.uri))
  /\ Distinct(Names(defs.tools, LAMBDA t : t.name))

\* Nothing of a file is taken unless all of it is in order.
LoadDefinitions(file) ==
  IF file.state = "read" /\ file.yaml /\ ValidateDefinitions(file.defs)
  THEN file.defs ELSE [prompts |-> <<>>, resources |-> <<>>, tools |-> <<>>]

(***************************************************************************)
(* Arguments. "order" is the order the schema's properties are read from   *)
(* their map in; a statement is known by its highest placeholder.          *)
(***************************************************************************)
buildOrderedProperties(schema, order) ==
  schema.required
  \o SelectSeq(order, LAMBDA name : name \notin ToSet(schema.required))

getParamValue(name, schema, args) ==
  IF name \in DOMAIN args THEN args[name]
  ELSE IF name \in DOMAIN schema.properties
         THEN schema.properties[name].default ELSE Empty

buildSQLParams(highest, schema, args, order) ==
  LET names == buildOrderedProperties(schema, order) IN
  [i \in 1 .. highest |->
     IF i \in DOMAIN names THEN getParamValue(names[i], schema, args) ELSE Empty]

(***************************************************************************)
(* Languages. A database is the set of languages its configuration names.  *)
(***************************************************************************)
DefaultLanguages == {"plpgsql"}
getAllowedPLLanguages(database) ==
  IF database = {} THEN DefaultLanguages ELSE database
getAllowedPLLanguagesUnion(databases) ==
  IF UNION databases = {} THEN DefaultLanguages ELSE UNION databases

isLanguageAllowed(tool, allowed) ==
  tool.type = "sql" \/ tool.language \in allowed \/ "*" \in allowed
registerCustomTools(tools, allowed) ==
  {tools[i].name : i \in {j \in DOMAIN tools : isLanguageAllowed(tools[j], allowed)}}

(***************************************************************************)
(* Whether a tool may write, for the annotation its clients go by. A       *)
(* statement is its words.                                                 *)
(***************************************************************************)
WriteWords == {"INSERT", "UPDATE", "DELETE", "MERGE", "CREATE", "DROP", "ALTER",
               "TRUNCATE", "GRANT", "REVOKE", "COPY", "INTO"}
customToolMayWrite(tool, allowWrites) ==
  /\ allowWrites
  /\ tool.type = "sql" =>
       \/ tool.sql[1] \notin {"SELECT", "TABLE", "VALUES", "EXPLAIN", "SHOW"}
       \/ ToSet(tool.sql) \cap WriteWords # {}
=============================================================================
